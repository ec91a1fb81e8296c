----------------------------- MODULE VMSimProofs -----------------------------
(***************************************************************************)
(* Theorems about the simulator with LRU, Aging and Opt, for any number of *)
(* frames, any pages and any traces.                                       *)
(***************************************************************************)
EXTENDS VMSim, FiniteSetTheorems, WellFoundedInduction, TLAPS

-----------------------------------------------------------------------------
(* Operators *)

(* The algorithms read the operators on frames under names of their own.   *)
LEMMA SameFirst ==
    \A S : UseLRU!First(S) = First(S) /\ UseAging!First(S) = First(S) /\ UseOpt!First(S) = First(S)
BY DEF First, UseLRU!First, UseAging!First, UseOpt!First

LEMMA SameFrameOps ==
    \A f, vpn, mode :
        /\ UseLRU!Used(f, vpn) = Used(f, vpn) /\ UseLRU!Removed(f) = Removed(f)
        /\ UseAging!Used(f, vpn) = Used(f, vpn) /\ UseAging!Removed(f) = Removed(f)
        /\ UseAging!Marked(f, mode) = Marked(f, mode)
        /\ UseOpt!Used(f, vpn) = Used(f, vpn)
BY DEF Used, Removed, Marked, UseLRU!Used, UseLRU!Removed,
       UseAging!Used, UseAging!Removed, UseAging!Marked, UseOpt!Used

LEMMA SameTables ==
    /\ UseLRU!Ppn = Ppn /\ UseAging!Ppn = Ppn /\ UseOpt!Ppn = Ppn
    /\ \A t : /\ UseLRU!InUse(t) = InUse(t) /\ UseAging!InUse(t) = InUse(t)
              /\ UseOpt!InUse(t) = InUse(t)
BY DEF Ppn, InUse, UseLRU!Ppn, UseAging!Ppn, UseOpt!Ppn,
       UseLRU!InUse, UseAging!InUse, UseOpt!InUse

LEMMA SameCardinality ==
    \A S : Memory!Cardinality(S) = Cardinality(S)
BY DEF Memory!Cardinality, Cardinality

LEMMA PpnIsNat == Ppn \subseteq Nat /\ 0 \in Ppn
BY NumFramesAssumption DEF Ppn

(* What First chooses. *)
LEMMA FirstIsFirst ==
    ASSUME NEW S, S \subseteq Nat, S # {}
    PROVE  First(S) \in S /\ \A j \in S : First(S) <= j
<1>1. PICK n \in S : \A m \in S : n <= m
  <2>1. PICK n \in S : \A m \in S : ~(<<m, n>> \in OpToRel(<, Nat))
    BY WFMin, NatLessThanWellFounded, Zenon
  <2>2. \A m \in S : ~(m < n)
    BY <2>1 DEF OpToRel
  <2>3. \A m \in S : n <= m
    BY <2>2
  <2> QED
    BY <2>3
<1> QED
  BY <1>1 DEF First

(* Some frame has the lowest number. *)
LEMMA SomeLowest ==
    ASSUME NEW number \in [Ppn -> Nat]
    PROVE  {i \in Ppn : \A j \in Ppn : number[i] <= number[j]} # {}
<1> DEFINE numbers == {number[i] : i \in Ppn}
<1>1. numbers \subseteq Nat /\ numbers # {}
  BY PpnIsNat
<1>2. First(numbers) \in numbers /\ \A n \in numbers : First(numbers) <= n
  <2> HIDE DEF numbers
  <2> QED
    BY <1>1, FirstIsFirst
<1>3. PICK i \in Ppn : number[i] = First(numbers)
  BY <1>2
<1>4. \A j \in Ppn : number[i] <= number[j]
  BY <1>2, <1>3
<1> QED
  BY <1>4

LEMMA FrameOps ==
    ASSUME NEW f \in Frame, NEW vpn \in Vpn, NEW mode
    PROVE  /\ Used(f, vpn) \in Frame /\ Marked(f, mode) \in Frame /\ Removed(f) \in Frame
           /\ Used(f, vpn).VPN = vpn /\ Used(f, vpn).in_use
           /\ Used(f, vpn).dirty = f.dirty
           /\ Removed(f).VPN = f.VPN /\ ~Removed(f).in_use /\ ~Removed(f).dirty
           /\ Marked(f, mode).VPN = f.VPN /\ Marked(f, mode).in_use = f.in_use
           /\ (f.dirty => Marked(f, mode).dirty)
<1>1. /\ Used(f, vpn) \in Frame /\ Used(f, vpn).VPN = vpn /\ Used(f, vpn).in_use
      /\ Used(f, vpn).dirty = f.dirty
  BY DEF Frame, Used
<1>2. /\ Removed(f) \in Frame /\ Removed(f).VPN = f.VPN
      /\ ~Removed(f).in_use /\ ~Removed(f).dirty
  BY DEF Frame, Removed
<1>3. /\ Marked(f, mode) \in Frame /\ Marked(f, mode).VPN = f.VPN
      /\ Marked(f, mode).in_use = f.in_use
      /\ (f.dirty => Marked(f, mode).dirty)
  BY DEF Frame, Marked
<1> QED
  BY <1>1, <1>2, <1>3

-----------------------------------------------------------------------------
(* The invariant *)

(* Every variable keeps its type.  An aging value has 8 bits; only Opt     *)
(* counts below 0.                                                         *)
SimType ==
    /\ algorithm \in {"opt", "aging", "lru"} /\ trace \in Traces
    /\ table \in [Ppn -> Frame]
    /\ rank \in [Ppn -> Int]
    /\ algorithm = "lru" => rank \in [Ppn -> Nat]
    /\ algorithm = "aging" => rank \in [Ppn -> 0..255]
    /\ page_faults \in Nat /\ writes_to_disk \in Nat /\ total_memory_accesses \in Nat
    /\ last_read \in [Vpn -> Nat] /\ written_in \in BOOLEAN /\ reused \subseteq Vpn

(* A frame has the number of a page exactly when it is in use, so a hit,   *)
(* which does not look at in_use, finds a page that is there.              *)
FramesNumbered == \A i \in Ppn : table[i].in_use <=> table[i].VPN # 0

(* Aging and Opt have a page in one frame. *)
OneFrameEach ==
    algorithm # "lru" => \A i, j \in InUse(table) : table[i].VPN = table[j].VPN => i = j

SimInv == SimType /\ FramesNumbered /\ OneFrameEach /\ FastIndexAgrees

LEMMA InitSimInv == Init => SimInv
<1> SUFFICES ASSUME Init PROVE SimInv
  OBVIOUS
<1>1. SimType
  <2>1. NewFrame \in Frame
    BY DEF NewFrame, Frame
  <2>2. table \in [Ppn -> Frame]
    BY <2>1 DEF Init
  <2>3. rank \in [Ppn -> Int] /\ rank \in [Ppn -> Nat] /\ rank \in [Ppn -> 0..255]
    BY DEF Init
  <2> QED
    BY <2>2, <2>3 DEF Init, SimType
<1>2. InUse(table) = {} /\ Resident(table) = {}
  BY DEF Init, InUse, Resident, NewFrame
<1>3. FramesNumbered
  BY DEF Init, FramesNumbered, NewFrame
<1>4. OneFrameEach /\ FastIndexAgrees
  BY <1>2 DEF OneFrameEach, FastIndexAgrees, Init
<1> QED
  BY <1>1, <1>3, <1>4 DEF SimInv

-----------------------------------------------------------------------------
(* What an access does to the table, whatever the algorithm: a hit changes *)
(* nothing but the dirty bit of a frame with the page; a page comes into   *)
(* free frames; a page takes the frame of a victim.                        *)

Same(j) == /\ table'[j].VPN = table[j].VPN /\ table'[j].in_use = table[j].in_use
           /\ table'[j].dirty = table[j].dirty

Gets(i, vpn) == table'[i].VPN = vpn /\ table'[i].in_use

Hits(vpn, i) ==
    /\ i \in Ppn /\ table[i].VPN = vpn
    /\ Gets(i, vpn) /\ (table[i].dirty => table'[i].dirty)
    /\ \A j \in Ppn \ {i} : Same(j)
    /\ UNCHANGED <<page_faults, writes_to_disk>>

Loads(vpn, L) ==
    /\ L \in SUBSET Ppn /\ L # {} /\ (algorithm # "lru" => \E i \in Ppn : L = {i})
    /\ \A j \in Ppn : table[j].VPN # vpn
    /\ \A i \in L : ~table[i].in_use /\ Gets(i, vpn)
    /\ \A j \in Ppn \ L : Same(j)
    /\ page_faults' = page_faults + 1 /\ writes_to_disk' = writes_to_disk

Replaces(vpn, i) ==
    /\ i \in Ppn /\ InUse(table) = Ppn
    /\ \A j \in Ppn : table[j].VPN # vpn
    /\ Gets(i, vpn) /\ \A j \in Ppn \ {i} : Same(j)
    /\ page_faults' = page_faults + 1
    /\ writes_to_disk' = writes_to_disk + (IF table[i].dirty THEN 1 ELSE 0)

-----------------------------------------------------------------------------
(* LRU *)

(* Only a read stamps the frames that the page is in. *)
Stamped(S, mode) ==
    \A j \in Ppn : rank'[j] = IF j \in S /\ mode = "R" THEN total_memory_accesses ELSE rank[j]

(* F and S are the frames and stamps when page vpn is put into frame i.   *)
PutInto(i, vpn, mode, frames, stamps, F, S) ==
    /\ F \in [Ppn -> Frame] /\ S \in [Ppn -> Nat]
    /\ UseLRU!Touched([frames |-> frames, stamps |-> stamps], i, vpn, mode)
          = [frames |-> F, stamps |-> S]
    /\ F[i].VPN = vpn /\ F[i].in_use /\ (frames[i].dirty => F[i].dirty)
    /\ \A j \in Ppn \ {i} : F[j] = frames[j]
    /\ \A j \in Ppn : S[j] = IF j = i /\ mode = "R" THEN total_memory_accesses ELSE stamps[j]

LEMMA Touches ==
    ASSUME NEW frames \in [Ppn -> Frame], NEW stamps \in [Ppn -> Nat],
           NEW i \in Ppn, NEW vpn \in Vpn, NEW mode \in Modes, total_memory_accesses \in Nat
    PROVE  \E F, S : PutInto(i, vpn, mode, frames, stamps, F, S)
<1>1. PICK u : u = Used(frames[i], vpn)
  OBVIOUS
<1>2. u \in Frame /\ u.VPN = vpn /\ u.in_use /\ u.dirty = frames[i].dirty
  BY <1>1, FrameOps
<1>3. CASE mode = "W"
  <2>1. PICK F : F = [frames EXCEPT ![i] = [u EXCEPT !.dirty = TRUE]]
    OBVIOUS
  <2>2. UseLRU!Touched([frames |-> frames, stamps |-> stamps], i, vpn, mode)
           = [frames |-> F, stamps |-> stamps]
    BY <1>1, <1>3, <2>1, SameFrameOps DEF UseLRU!Touched
  <2>3. F[i] = [u EXCEPT !.dirty = TRUE] /\ \A j \in Ppn \ {i} : F[j] = frames[j]
    BY <2>1
  <2>4. F[i] \in Frame /\ F[i].VPN = vpn /\ F[i].in_use /\ F[i].dirty
    BY <1>2, <2>3 DEF Frame
  <2>5. F \in [Ppn -> Frame]
    BY <2>1, <2>3, <2>4
  <2> QED
    BY <1>3, <2>2, <2>3, <2>4, <2>5 DEF PutInto
<1>4. CASE mode = "R"
  <2>1. PICK F, S : F = [frames EXCEPT ![i] = u]
                    /\ S = [stamps EXCEPT ![i] = total_memory_accesses]
    OBVIOUS
  <2>2. UseLRU!Touched([frames |-> frames, stamps |-> stamps], i, vpn, mode)
           = [frames |-> F, stamps |-> S]
    BY <1>1, <1>4, <2>1, SameFrameOps DEF UseLRU!Touched
  <2>3. F[i] = u /\ \A j \in Ppn \ {i} : F[j] = frames[j]
    BY <2>1
  <2>4. F \in [Ppn -> Frame] /\ S \in [Ppn -> Nat]
    BY <1>2, <2>1
  <2>5. \A j \in Ppn : S[j] = IF j = i /\ mode = "R" THEN total_memory_accesses ELSE stamps[j]
    BY <1>4, <2>1
  <2> QED
    BY <1>2, <2>2, <2>3, <2>4, <2>5 DEF PutInto
<1> QED
  BY <1>3, <1>4 DEF Modes

LEMMA LRUHit ==
    ASSUME SimInv, algorithm = "lru", NEW vpn \in Vpn, NEW mode \in Modes, UseLRU!Hit(vpn, mode)
    PROVE  /\ table' \in [Ppn -> Frame] /\ rank' \in [Ppn -> Nat]
           /\ total_memory_accesses' = total_memory_accesses + 1
           /\ \E i \in Ppn : /\ Hits(vpn, i) /\ Stamped({i}, mode)
                             /\ \A j \in Ppn : table[j].VPN = vpn => i <= j
<1>1. /\ table \in [Ppn -> Frame] /\ rank \in [Ppn -> Nat] /\ total_memory_accesses \in Nat
      /\ FramesNumbered
  BY DEF SimInv, SimType
<1>2. UseLRU!Found(vpn) = {i \in Ppn : table[i].VPN = vpn}
  BY SameTables DEF UseLRU!Found
<1>3. PICK i : i = First({j \in Ppn : table[j].VPN = vpn})
  OBVIOUS
<1>4. {j \in Ppn : table[j].VPN = vpn} # {}
  BY <1>2 DEF UseLRU!Hit
<1>5. i \in Ppn /\ table[i].VPN = vpn /\ \A j \in Ppn : table[j].VPN = vpn => i <= j
  BY <1>3, <1>4, FirstIsFirst, PpnIsNat
<1>6. /\ UseLRU!Becomes(UseLRU!Touched([frames |-> table, stamps |-> rank], i, vpn, mode))
      /\ UNCHANGED <<page_faults, writes_to_disk>>
  BY <1>2, <1>3, SameFirst DEF UseLRU!Hit, UseLRU!Memory
<1>7. PICK F, S : PutInto(i, vpn, mode, table, rank, F, S)
  BY <1>1, <1>5, Touches
<1>8. table' = F /\ rank' = S /\ total_memory_accesses' = total_memory_accesses + 1
  BY <1>6, <1>7 DEF UseLRU!Becomes, PutInto
<1>9. Hits(vpn, i)
  BY <1>5, <1>6, <1>7, <1>8 DEF Hits, Gets, Same, PutInto
<1>10. Stamped({i}, mode)
  BY <1>7, <1>8 DEF Stamped, PutInto
<1> QED
  BY <1>5, <1>7, <1>8, <1>9, <1>10 DEF PutInto

(* Or they are the frames and stamps when it is put into a free frame i.   *)
AddedTo(i, vpn, mode, frames, stamps, F, S) ==
    /\ i \in Ppn /\ ~frames[i].in_use /\ PutInto(i, vpn, mode, frames, stamps, F, S)
    /\ UseLRU!AddedAfterPageFault([frames |-> frames, stamps |-> stamps], vpn, mode)
          = [frames |-> F, stamps |-> S]

LEMMA Adds ==
    ASSUME NEW frames \in [Ppn -> Frame], NEW stamps \in [Ppn -> Nat],
           NEW vpn \in Vpn, NEW mode \in Modes, total_memory_accesses \in Nat
    PROVE  LET free == {i \in Ppn : ~frames[i].in_use}
           IN  /\ free = {} => UseLRU!AddedAfterPageFault(
                                  [frames |-> frames, stamps |-> stamps], vpn, mode)
                               = [frames |-> frames, stamps |-> stamps]
               /\ free # {} => \E i, F, S : AddedTo(i, vpn, mode, frames, stamps, F, S)
<1> DEFINE m    == [frames |-> frames, stamps |-> stamps]
           free == {i \in Ppn : ~frames[i].in_use}
<1>1. UseLRU!AddedAfterPageFault(m, vpn, mode)
         = IF free = {} THEN m ELSE UseLRU!Touched(m, First(free), vpn, mode)
  BY SameTables, SameFirst DEF UseLRU!AddedAfterPageFault
<1>2. ASSUME free # {}
      PROVE  \E i, F, S : AddedTo(i, vpn, mode, frames, stamps, F, S)
  <2>1. PICK i : i = First(free)
    OBVIOUS
  <2>2. i \in free
    BY <1>2, <2>1, FirstIsFirst, PpnIsNat
  <2>3. i \in Ppn /\ ~frames[i].in_use
    BY <2>2
  <2>4. PICK F, S : PutInto(i, vpn, mode, frames, stamps, F, S)
    BY <2>3, Touches
  <2>5. UseLRU!AddedAfterPageFault(m, vpn, mode) = [frames |-> F, stamps |-> S]
    BY <1>1, <1>2, <2>1, <2>4 DEF PutInto
  <2> QED
    BY <2>3, <2>4, <2>5 DEF AddedTo
<1>3. free = {} => UseLRU!AddedAfterPageFault(m, vpn, mode) = m
  BY <1>1
<1> QED
  BY <1>2, <1>3

(* The page comes into one frame, or into two. *)
LEMMA LRULoad ==
    ASSUME SimInv, algorithm = "lru", NEW vpn \in Vpn, NEW mode \in Modes, UseLRU!Load(vpn, mode)
    PROVE  /\ table' \in [Ppn -> Frame] /\ rank' \in [Ppn -> Nat]
           /\ total_memory_accesses' = total_memory_accesses + 1
           /\ \E L \in SUBSET Ppn : Loads(vpn, L) /\ Stamped(L, mode)
<1> DEFINE m1 == [frames |-> table, stamps |-> rank]
<1>1. /\ table \in [Ppn -> Frame] /\ rank \in [Ppn -> Nat] /\ total_memory_accesses \in Nat
  BY DEF SimInv, SimType
<1>2. /\ \A j \in Ppn : table[j].VPN # vpn
      /\ {i \in Ppn : ~table[i].in_use} # {}
      /\ page_faults' = page_faults + 1 /\ writes_to_disk' = writes_to_disk
      /\ UseLRU!Becomes(UseLRU!AddedAfterPageFault(
                           UseLRU!AddedAfterPageFault(m1, vpn, mode), vpn, mode))
  BY SameTables DEF UseLRU!Load, UseLRU!Found, UseLRU!Memory, InUse
<1>3. PICK i1, F1, S1 : AddedTo(i1, vpn, mode, table, rank, F1, S1)
  BY <1>1, <1>2, Adds
<1>4. F1 \in [Ppn -> Frame] /\ S1 \in [Ppn -> Nat] /\ i1 \in Ppn
  BY <1>3 DEF AddedTo, PutInto
<1> DEFINE m2 == [frames |-> F1, stamps |-> S1]
<1>5. UseLRU!Becomes(UseLRU!AddedAfterPageFault(m2, vpn, mode))
  BY <1>2, <1>3 DEF AddedTo
<1>6. CASE {i \in Ppn : ~F1[i].in_use} = {}
  <2>1. UseLRU!AddedAfterPageFault(m2, vpn, mode) = m2
    BY <1>1, <1>4, <1>6, Adds
  <2>2. table' = F1 /\ rank' = S1 /\ total_memory_accesses' = total_memory_accesses + 1
    BY <1>5, <2>1 DEF UseLRU!Becomes
  <2>3. Loads(vpn, {i1})
    BY <1>2, <1>3, <2>2 DEF AddedTo, PutInto, Loads, Gets, Same
  <2>4. Stamped({i1}, mode) /\ {i1} \in SUBSET Ppn
    BY <1>3, <1>4, <2>2 DEF AddedTo, PutInto, Stamped
  <2> QED
    BY <1>4, <2>2, <2>3, <2>4
<1>7. CASE {i \in Ppn : ~F1[i].in_use} # {}
  <2>1. PICK i2, F2, S2 : AddedTo(i2, vpn, mode, F1, S1, F2, S2)
    BY <1>1, <1>4, <1>7, Adds
  <2>2. /\ table' = F2 /\ rank' = S2 /\ total_memory_accesses' = total_memory_accesses + 1
        /\ F2 \in [Ppn -> Frame] /\ S2 \in [Ppn -> Nat] /\ i2 \in Ppn
    BY <1>5, <2>1 DEF UseLRU!Becomes, AddedTo, PutInto
  <2>3. i1 # i2 /\ ~table[i1].in_use /\ ~table[i2].in_use
    BY <1>3, <2>1 DEF AddedTo, PutInto
  <2>4. /\ F2[i1].VPN = vpn /\ F2[i1].in_use /\ F2[i2].VPN = vpn /\ F2[i2].in_use
        /\ \A j \in Ppn \ {i1, i2} : F2[j] = table[j]
    BY <1>3, <2>1, <2>3 DEF AddedTo, PutInto
  <2>5. Loads(vpn, {i1, i2})
    BY <1>2, <1>4, <2>2, <2>3, <2>4 DEF Loads, Gets, Same
  <2>6. Stamped({i1, i2}, mode)
    BY <1>3, <2>1, <2>2 DEF AddedTo, PutInto, Stamped
  <2>7. {i1, i2} \in SUBSET Ppn
    BY <1>4, <2>2
  <2> QED
    BY <2>2, <2>5, <2>6, <2>7
<1> QED
  BY <1>6, <1>7

(* The frame with the lowest stamp is emptied and takes the page. *)
LEMMA LRUReplace ==
    ASSUME SimInv, algorithm = "lru", NEW vpn \in Vpn, NEW mode \in Modes,
           UseLRU!Replace(vpn, mode)
    PROVE  /\ table' \in [Ppn -> Frame] /\ rank' \in [Ppn -> Nat]
           /\ total_memory_accesses' = total_memory_accesses + 1
           /\ \E v \in Ppn : /\ Replaces(vpn, v) /\ Stamped({v}, mode)
                             /\ \A j \in Ppn : rank[v] <= rank[j]
<1>1. /\ table \in [Ppn -> Frame] /\ rank \in [Ppn -> Nat] /\ total_memory_accesses \in Nat
  BY DEF SimInv, SimType
<1>2. PICK v : v = UseLRU!Victim
  OBVIOUS
<1>3. v \in Ppn /\ \A j \in Ppn : rank[v] <= rank[j]
  <2>1. v = First({i \in Ppn : \A j \in Ppn : rank[i] <= rank[j]})
    BY <1>2, SameTables, SameFirst DEF UseLRU!Victim
  <2>2. v \in {i \in Ppn : \A j \in Ppn : rank[i] <= rank[j]}
    BY <1>1, <2>1, SomeLowest, FirstIsFirst, PpnIsNat
  <2> QED
    BY <2>2
<1>4. PICK F : F = [table EXCEPT ![v] = Removed(table[v])]
  OBVIOUS
<1>5. /\ F \in [Ppn -> Frame] /\ ~F[v].in_use
      /\ \A j \in Ppn \ {v} : F[j] = table[j]
  <2>1. Removed(table[v]) \in Frame /\ ~Removed(table[v]).in_use
    BY <1>1, <1>3 DEF Removed, Frame
  <2> QED
    BY <1>1, <1>3, <1>4, <2>1
<1>6. UseLRU!Evicted([frames |-> table, stamps |-> rank], v) = [frames |-> F, stamps |-> rank]
  BY <1>4, SameFrameOps DEF UseLRU!Evicted
<1>7. /\ \A j \in Ppn : table[j].VPN # vpn
      /\ InUse(table) = Ppn
      /\ page_faults' = page_faults + 1
      /\ writes_to_disk' = writes_to_disk + (IF table[v].dirty THEN 1 ELSE 0)
      /\ UseLRU!Becomes(UseLRU!AddedAfterPageFault(
                           [frames |-> F, stamps |-> rank], vpn, mode))
  BY <1>2, <1>6, SameTables DEF UseLRU!Replace, UseLRU!Found, UseLRU!Memory
<1>8. v \in {i \in Ppn : ~F[i].in_use}
  BY <1>3, <1>5
<1>9. PICK i, G, S : AddedTo(i, vpn, mode, F, rank, G, S)
  BY <1>1, <1>5, <1>8, Adds
<1>10. i = v
  BY <1>5, <1>7, <1>9 DEF AddedTo, InUse
<1>11. /\ table' = G /\ rank' = S /\ total_memory_accesses' = total_memory_accesses + 1
       /\ G \in [Ppn -> Frame] /\ S \in [Ppn -> Nat]
  BY <1>7, <1>9 DEF UseLRU!Becomes, AddedTo, PutInto
<1>12. Replaces(vpn, v) /\ Stamped({v}, mode)
  <2>1. \A j \in Ppn \ {v} : G[j] = table[j]
    BY <1>5, <1>9, <1>10 DEF AddedTo, PutInto
  <2>2. G[v].VPN = vpn /\ G[v].in_use
    BY <1>9, <1>10 DEF AddedTo, PutInto
  <2>3. Replaces(vpn, v)
    BY <1>3, <1>7, <1>11, <2>1, <2>2 DEF Replaces, Gets, Same
  <2>4. Stamped({v}, mode)
    BY <1>9, <1>10, <1>11 DEF AddedTo, PutInto, Stamped
  <2> QED
    BY <2>3, <2>4
<1> QED
  BY <1>3, <1>11, <1>12

-----------------------------------------------------------------------------
(* Aging *)

LEMMA AgingStep ==
    ASSUME SimInv, algorithm = "aging", NEW vpn \in Vpn, NEW mode \in Modes, NEW tick \in BOOLEAN,
           UseAging!Access(vpn, mode, tick)
    PROVE  /\ table' \in [Ppn -> Frame] /\ rank' \in [Ppn -> 0..255]
           /\ total_memory_accesses' = total_memory_accesses + 1
           /\ \/ \E i \in Ppn : Hits(vpn, i)
              \/ \E L \in SUBSET Ppn : Loads(vpn, L)
              \/ \E v \in Ppn : Replaces(vpn, v)
<1>1. /\ table \in [Ppn -> Frame] /\ rank \in [Ppn -> 0..255]
      /\ \A i \in Ppn : table[i].in_use <=> table[i].VPN # 0
      /\ vpn # 0
  BY NoPageZero DEF SimInv, SimType, FramesNumbered
<1>2. PICK aged : aged = UseAging!Aged(tick)
  OBVIOUS
<1>3. aged \in [Ppn -> 0..255]
  <2>1. CASE tick
    <3>1. aged = [i \in Ppn |-> rank[i] \div 2 + (IF table[i].reference THEN 128 ELSE 0)]
      BY <1>2, <2>1, SameTables DEF UseAging!Aged, UseAging!MSB
    <3>2. \A n \in 0..255 : n \div 2 \in 0..127
      OBVIOUS
    <3>3. \A i \in Ppn : aged[i] \in 0..255
      BY <1>1, <3>1, <3>2
    <3> QED
      BY <3>1, <3>3
  <2>2. CASE ~tick
    BY <1>1, <1>2, <2>2 DEF UseAging!Aged
  <2> QED
    BY <2>1, <2>2
<1>4. PICK frames : frames = UseAging!Refreshed(tick)
  OBVIOUS
<1>5. /\ frames \in [Ppn -> Frame]
      /\ \A i \in Ppn : /\ frames[i].VPN = table[i].VPN /\ frames[i].in_use = table[i].in_use
                        /\ frames[i].dirty = table[i].dirty
  <2>1. CASE tick
    <3>1. frames = [i \in Ppn |-> [table[i] EXCEPT !.reference = FALSE]]
      BY <1>4, <2>1, SameTables DEF UseAging!Refreshed
    <3>2. \A f \in Frame : /\ [f EXCEPT !.reference = FALSE] \in Frame
                           /\ [f EXCEPT !.reference = FALSE].VPN = f.VPN
                           /\ [f EXCEPT !.reference = FALSE].in_use = f.in_use
                           /\ [f EXCEPT !.reference = FALSE].dirty = f.dirty
      BY DEF Frame
    <3>3. \A i \in Ppn : table[i] \in Frame /\ frames[i] = [table[i] EXCEPT !.reference = FALSE]
      BY <1>1, <3>1
    <3> QED
      BY <3>1, <3>2, <3>3
  <2>2. CASE ~tick
    BY <1>1, <1>4, <2>2 DEF UseAging!Refreshed
  <2> QED
    BY <2>1, <2>2
<1>6. ASSUME NEW new, UseAging!Becomes(new, tick)
      PROVE  table' = new /\ rank' = aged /\ total_memory_accesses' = total_memory_accesses + 1
  BY <1>2, <1>6 DEF UseAging!Becomes
<1>7. CASE UseAging!Hit(vpn, mode, tick)
  <2>1. PICK i : i = First({j \in Ppn : table[j].VPN = vpn})
    OBVIOUS
  <2>2. {j \in Ppn : table[j].VPN = vpn} # {}
    BY <1>7, SameTables DEF UseAging!Hit, UseAging!Found
  <2>3. i \in Ppn /\ table[i].VPN = vpn
    BY <2>1, <2>2, FirstIsFirst, PpnIsNat
  <2>4. /\ UseAging!Becomes([frames EXCEPT ![i] = Marked(frames[i], mode)], tick)
        /\ UNCHANGED <<page_faults, writes_to_disk>>
    BY <1>4, <1>7, <2>1, SameTables, SameFirst, SameFrameOps DEF UseAging!Hit, UseAging!Found
  <2>5. PICK new : new = [frames EXCEPT ![i] = Marked(frames[i], mode)]
    OBVIOUS
  <2>6. /\ table' = new /\ rank' = aged /\ total_memory_accesses' = total_memory_accesses + 1
    BY <1>6, <2>4, <2>5
  <2>7. /\ Marked(frames[i], mode) \in Frame /\ Marked(frames[i], mode).VPN = frames[i].VPN
        /\ Marked(frames[i], mode).in_use = frames[i].in_use
        /\ (frames[i].dirty => Marked(frames[i], mode).dirty)
    <3>1. PICK f : f = frames[i]
      OBVIOUS
    <3>2. f \in Frame
      BY <1>5, <2>3, <3>1
    <3>3. /\ Marked(f, mode) \in Frame /\ Marked(f, mode).VPN = f.VPN
          /\ Marked(f, mode).in_use = f.in_use /\ (f.dirty => Marked(f, mode).dirty)
      BY <3>2, FrameOps
    <3> QED
      BY <3>1, <3>3
  <2>8. /\ new \in [Ppn -> Frame] /\ new[i] = Marked(frames[i], mode)
        /\ \A j \in Ppn \ {i} : new[j] = frames[j]
    BY <1>5, <2>3, <2>5, <2>7
  <2>9. Hits(vpn, i)
    BY <1>1, <1>5, <2>3, <2>4, <2>6, <2>7, <2>8 DEF Hits, Gets, Same
  <2> QED
    BY <1>3, <2>3, <2>6, <2>8, <2>9
<1>8. CASE UseAging!Load(vpn, mode, tick)
  <2>1. PICK i : i = First(Ppn \ InUse(table))
    OBVIOUS
  <2>2. Ppn \ InUse(table) # {} /\ \A j \in Ppn : table[j].VPN # vpn
    BY <1>8, SameTables DEF UseAging!Load, UseAging!Found, InUse
  <2>3. i \in Ppn /\ ~table[i].in_use
    <3>1. i \in Ppn \ InUse(table)
      BY <2>1, <2>2, FirstIsFirst, PpnIsNat
    <3> QED
      BY <3>1 DEF InUse
  <2>4. /\ UseAging!Becomes([frames EXCEPT ![i] = Marked(Used(frames[i], vpn), mode)], tick)
        /\ page_faults' = page_faults + 1 /\ writes_to_disk' = writes_to_disk
    BY <1>4, <1>8, <2>1, SameTables, SameFirst, SameFrameOps DEF UseAging!Load
  <2>5. PICK new : new = [frames EXCEPT ![i] = Marked(Used(frames[i], vpn), mode)]
    OBVIOUS
  <2>6. /\ table' = new /\ rank' = aged /\ total_memory_accesses' = total_memory_accesses + 1
    BY <1>6, <2>4, <2>5
  <2>7. PICK f : f = Marked(Used(frames[i], vpn), mode)
    OBVIOUS
  <2>8. f \in Frame /\ f.VPN = vpn /\ f.in_use
    <3>1. PICK u : u = Used(frames[i], vpn)
      OBVIOUS
    <3>2. u \in Frame /\ u.VPN = vpn /\ u.in_use
      BY <1>5, <2>3, <3>1, FrameOps
    <3> QED
      BY <2>7, <3>1, <3>2, FrameOps
  <2>9. /\ new \in [Ppn -> Frame] /\ new[i] = f
        /\ \A j \in Ppn \ {i} : new[j] = frames[j]
    BY <1>5, <2>3, <2>5, <2>7, <2>8
  <2>10. Loads(vpn, {i}) /\ {i} \in SUBSET Ppn
    BY <1>5, <2>2, <2>3, <2>4, <2>6, <2>8, <2>9 DEF Loads, Gets, Same
  <2> QED
    BY <1>3, <2>6, <2>9, <2>10
<1>9. CASE UseAging!Replace(vpn, mode, tick)
  <2>1. PICK i : i = UseAging!Victim(tick)
    OBVIOUS
  <2>2. i \in Ppn
    <3>1. i = First({j \in Ppn : \A k \in Ppn : aged[j] <= aged[k]})
      BY <1>2, <2>1, SameTables, SameFirst DEF UseAging!Victim
    <3>2. aged \in [Ppn -> Nat]
      BY <1>3
    <3>3. i \in {j \in Ppn : \A k \in Ppn : aged[j] <= aged[k]}
      BY <3>1, <3>2, SomeLowest, FirstIsFirst, PpnIsNat
    <3> QED
      BY <3>3
  <2>3. InUse(table) = Ppn /\ \A j \in Ppn : table[j].VPN # vpn
    BY <1>9, SameTables DEF UseAging!Replace, UseAging!Found
  <2>4. /\ UseAging!Becomes(
              [frames EXCEPT ![i] = Marked(Used(Removed(frames[i]), vpn), mode)], tick)
        /\ page_faults' = page_faults + 1
        /\ writes_to_disk' = writes_to_disk + (IF table[i].dirty THEN 1 ELSE 0)
    BY <1>4, <1>9, <2>1, SameTables, SameFrameOps DEF UseAging!Replace
  <2>5. PICK f : f = Marked(Used(Removed(frames[i]), vpn), mode)
    OBVIOUS
  <2>6. f \in Frame /\ f.VPN = vpn /\ f.in_use
    <3>1. PICK r : r = Removed(frames[i])
      OBVIOUS
    <3>2. r \in Frame
      BY <1>5, <2>2, <3>1, FrameOps
    <3>3. PICK u : u = Used(r, vpn)
      OBVIOUS
    <3>4. u \in Frame /\ u.VPN = vpn /\ u.in_use
      BY <3>2, <3>3, FrameOps
    <3> QED
      BY <2>5, <3>1, <3>3, <3>4, FrameOps
  <2>7. PICK new : new = [frames EXCEPT ![i] = f]
    OBVIOUS
  <2>8. /\ table' = new /\ rank' = aged /\ total_memory_accesses' = total_memory_accesses + 1
    BY <1>6, <2>4, <2>5, <2>7
  <2>9. /\ new \in [Ppn -> Frame] /\ new[i] = f
        /\ \A j \in Ppn \ {i} : new[j] = frames[j]
    BY <1>5, <2>2, <2>6, <2>7
  <2>10. Replaces(vpn, i)
    BY <1>5, <2>2, <2>3, <2>4, <2>6, <2>8, <2>9 DEF Replaces, Gets, Same
  <2> QED
    BY <1>3, <2>2, <2>8, <2>9, <2>10
<1> QED
  BY <1>7, <1>8, <1>9 DEF UseAging!Access

-----------------------------------------------------------------------------
(* Opt *)

(* Both of what the counters are set to and what they count down to are    *)
(* numbers.                                                                *)
LEMMA OptCounts ==
    ASSUME SimInv, total_memory_accesses < Len(trace)
    PROVE  /\ UseOpt!TimeUntilNextAccess \in Int
           /\ UseOpt!TimeUntilNextAccess <= Len(trace) /\ UseOpt!CountedDown \in [Ppn -> Int]
           /\ UseOpt!Current = trace[total_memory_accesses + 1] /\ UseOpt!Current \in Vpn
           /\ trace \in Seq(Vpn)
<1>1. trace \in Seq(Vpn) /\ total_memory_accesses \in Nat /\ rank \in [Ppn -> Int]
  BY TracesAssumption DEF SimInv, SimType
<1>2. UseOpt!Current = trace[total_memory_accesses + 1] /\ UseOpt!Current \in Vpn
  BY <1>1 DEF UseOpt!Current
<1>3. UseOpt!TimeUntilNextAccess \in Int /\ UseOpt!TimeUntilNextAccess <= Len(trace)
  <2> DEFINE later == {j \in UseOpt!Rest : trace[j] = UseOpt!Current}
  <2>1. PICK rest : rest = UseOpt!Rest
    OBVIOUS
  <2>2. rest = total_memory_accesses + 2..Len(trace) /\ rest \subseteq Nat
    BY <1>1, <2>1 DEF UseOpt!Rest
  <2>3. Cardinality(rest) \in Nat /\ Cardinality(rest) < Len(trace)
    <3>1. total_memory_accesses + 2 \in Int /\ Len(trace) \in Int
      BY <1>1
    <3>2. Cardinality(rest) = IF total_memory_accesses + 2 > Len(trace) THEN 0
                              ELSE Len(trace) - (total_memory_accesses + 2) + 1
      BY <2>2, <3>1, FS_Interval
    <3> QED
      BY <1>1, <3>2
  <2>4. later # {} => First(later) \in Nat /\ First(later) <= Len(trace)
    <3>1. later \subseteq rest /\ later \subseteq Nat
      BY <2>1, <2>2
    <3>2. later # {} => First(later) \in later
      BY <3>1, FirstIsFirst
    <3>3. \A n \in rest : n \in Nat /\ n <= Len(trace)
      BY <1>1, <2>2
    <3> QED
      BY <3>1, <3>2, <3>3
  <2>5. UseOpt!TimeUntilNextAccess
           = IF later = {} THEN Cardinality(rest) + 1
                           ELSE First(later) - (total_memory_accesses + 2)
    <3>1. UseOpt!Cardinality(rest) = Cardinality(rest)
      BY DEF UseOpt!Cardinality, Cardinality
    <3> QED
      BY <2>1, <3>1, SameFirst DEF UseOpt!TimeUntilNextAccess
  <2> HIDE DEF later
  <2> QED
    BY <1>1, <2>3, <2>4, <2>5
<1>4. UseOpt!CountedDown \in [Ppn -> Int]
  BY <1>1, <1>3, SameTables DEF UseOpt!CountedDown
<1> QED
  BY <1>1, <1>2, <1>3, <1>4

(* The dictionary tells where the page is; a write makes its frame dirty.  *)
LEMMA OptHit ==
    ASSUME SimInv, algorithm = "opt", NEW vpn \in Vpn, NEW mode \in Modes, UseOpt!Hit(mode),
           total_memory_accesses < Len(trace), vpn = trace[total_memory_accesses + 1]
    PROVE  /\ table' \in [Ppn -> Frame] /\ rank' = UseOpt!CountedDown
           /\ total_memory_accesses' = total_memory_accesses + 1 /\ trace' = trace
           /\ \E i \in Ppn : Hits(vpn, i)
           /\ fast_index' = fast_index
<1>1. /\ table \in [Ppn -> Frame] /\ vpn # 0
      /\ \A i \in Ppn : table[i].in_use <=> table[i].VPN # 0
      /\ \A i, j \in InUse(table) : table[i].VPN = table[j].VPN => i = j
      /\ DOMAIN fast_index = Resident(table)
  BY NoPageZero DEF SimInv, SimType, FramesNumbered, OneFrameEach, FastIndexAgrees
<1>2. UseOpt!Current = vpn
  BY OptCounts
<1>3. PICK i \in Ppn : table[i].VPN = vpn
  <2>1. vpn \in DOMAIN fast_index
    BY <1>2 DEF UseOpt!Hit
  <2> QED
    BY <1>1, <2>1 DEF Resident, InUse
<1>4. \A j \in Ppn : table[j].VPN = vpn <=> j = i
  BY <1>1, <1>3 DEF InUse
<1>5. (CHOOSE k \in Ppn : /\ table[k].VPN = vpn
                          /\ \A j \in Ppn : table[j].VPN = vpn => j <= k) = i
  <2>1. /\ table[i].VPN = vpn
        /\ \A j \in Ppn : table[j].VPN = vpn => j <= i
    BY <1>4, PpnIsNat
  <2> QED
    BY <1>4, <2>1
<1>6. /\ UseOpt!Becomes(IF mode = "W" THEN [table EXCEPT ![i].dirty = TRUE] ELSE table,
                        UseOpt!CountedDown)
      /\ UNCHANGED <<fast_index, page_faults, writes_to_disk>>
  BY <1>2, <1>5, SameTables DEF UseOpt!Hit
<1>7. /\ table' = IF mode = "W" THEN [table EXCEPT ![i].dirty = TRUE] ELSE table
      /\ rank' = UseOpt!CountedDown
      /\ total_memory_accesses' = total_memory_accesses + 1 /\ trace' = trace
  BY <1>6 DEF UseOpt!Becomes
<1>8. /\ table' \in [Ppn -> Frame] /\ \A j \in Ppn \ {i} : table'[j] = table[j]
      /\ table'[i].VPN = table[i].VPN /\ table'[i].in_use = table[i].in_use
      /\ table[i].dirty => table'[i].dirty
  BY <1>1, <1>7 DEF Frame
<1>9. Hits(vpn, i)
  BY <1>1, <1>3, <1>6, <1>8 DEF Hits, Gets, Same
<1> QED
  BY <1>6, <1>7, <1>8, <1>9

(* The page comes into frame i, with the counter for its next use. *)
LEMMA OptAdded ==
    ASSUME SimInv, NEW vpn \in Vpn, NEW mode \in Modes, NEW i \in Ppn, UseOpt!Added(i, mode),
           total_memory_accesses < Len(trace), vpn = trace[total_memory_accesses + 1]
    PROVE  /\ table' \in [Ppn -> Frame] /\ Gets(i, vpn) /\ \A j \in Ppn \ {i} : Same(j)
           /\ rank' = [UseOpt!CountedDown EXCEPT ![i] = UseOpt!TimeUntilNextAccess]
           /\ total_memory_accesses' = total_memory_accesses + 1 /\ trace' = trace
           /\ page_faults' = page_faults + 1
<1>1. UseOpt!Current = vpn /\ table \in [Ppn -> Frame]
  BY OptCounts DEF SimInv, SimType
<1>2. PICK f : f = [Used(table[i], vpn) EXCEPT !.dirty = mode = "W"]
  OBVIOUS
<1>3. /\ table' = [table EXCEPT ![i] = f]
      /\ rank' = [UseOpt!CountedDown EXCEPT ![i] = UseOpt!TimeUntilNextAccess]
      /\ total_memory_accesses' = total_memory_accesses + 1 /\ trace' = trace
      /\ page_faults' = page_faults + 1
  BY <1>1, <1>2, SameFrameOps DEF UseOpt!Added, UseOpt!Becomes
<1>4. f \in Frame /\ f.VPN = vpn /\ f.in_use
  <2>1. PICK u : u = Used(table[i], vpn)
    OBVIOUS
  <2>2. u \in Frame /\ u.VPN = vpn /\ u.in_use
    <3>1. table[i] \in Frame
      BY <1>1
    <3> QED
      BY <2>1, <3>1, FrameOps
  <2>3. f = [u EXCEPT !.dirty = mode = "W"] /\ (mode = "W") \in BOOLEAN
    BY <1>2, <2>1
  <2> QED
    BY <2>2, <2>3 DEF Frame
<1> QED
  BY <1>1, <1>3, <1>4 DEF Gets, Same

LEMMA OptLoad ==
    ASSUME SimInv, algorithm = "opt", NEW vpn \in Vpn, NEW mode \in Modes, UseOpt!Load(mode),
           total_memory_accesses < Len(trace), vpn = trace[total_memory_accesses + 1]
    PROVE  /\ table' \in [Ppn -> Frame]
           /\ total_memory_accesses' = total_memory_accesses + 1 /\ trace' = trace
           /\ \E i \in Ppn :
                 /\ Loads(vpn, {i})
                 /\ rank' = [UseOpt!CountedDown EXCEPT ![i] = UseOpt!TimeUntilNextAccess]
                 /\ fast_index' = UseOpt!Indexed(fast_index, vpn, i)
<1>1. UseOpt!Current = vpn
  BY OptCounts
<1>2. PICK i : i = First(Ppn \ InUse(table))
  OBVIOUS
<1>3. /\ vpn \notin DOMAIN fast_index /\ Ppn \ InUse(table) # {}
      /\ UseOpt!Added(i, mode)
      /\ fast_index' = UseOpt!Indexed(fast_index, vpn, i)
      /\ writes_to_disk' = writes_to_disk
  BY <1>1, <1>2, SameTables, SameFirst DEF UseOpt!Load, InUse
<1>4. i \in Ppn /\ ~table[i].in_use
  <2>1. i \in Ppn \ InUse(table)
    BY <1>2, <1>3, FirstIsFirst, PpnIsNat
  <2> QED
    BY <2>1 DEF InUse
<1>5. \A j \in Ppn : table[j].VPN # vpn
  BY <1>3, NoPageZero DEF SimInv, FramesNumbered, FastIndexAgrees, Resident, InUse
<1>6. /\ table' \in [Ppn -> Frame] /\ Gets(i, vpn) /\ \A j \in Ppn \ {i} : Same(j)
      /\ rank' = [UseOpt!CountedDown EXCEPT ![i] = UseOpt!TimeUntilNextAccess]
      /\ total_memory_accesses' = total_memory_accesses + 1 /\ trace' = trace
      /\ page_faults' = page_faults + 1
  BY <1>3, <1>4, OptAdded
<1>7. Loads(vpn, {i})
  BY <1>3, <1>4, <1>5, <1>6 DEF Loads
<1> QED
  BY <1>3, <1>4, <1>6, <1>7

(* The victim has the highest counter above 0; frame 0 is taken when there *)
(* is none.                                                                *)
LEMMA OptReplace ==
    ASSUME SimInv, algorithm = "opt", NEW vpn \in Vpn, NEW mode \in Modes, UseOpt!Replace(mode),
           total_memory_accesses < Len(trace), vpn = trace[total_memory_accesses + 1]
    PROVE  /\ table' \in [Ppn -> Frame]
           /\ total_memory_accesses' = total_memory_accesses + 1 /\ trace' = trace
           /\ \E i \in Ppn :
                 /\ Replaces(vpn, i)
                 /\ i = UseOpt!Victim(UseOpt!CountedDown)
                 /\ rank' = [UseOpt!CountedDown EXCEPT ![i] = UseOpt!TimeUntilNextAccess]
                 /\ fast_index' = UseOpt!Indexed(UseOpt!Unindexed(table[i].VPN), vpn, i)
<1>1. UseOpt!Current = vpn
  BY OptCounts
<1>2. PICK i : i = UseOpt!Victim(UseOpt!CountedDown)
  OBVIOUS
<1>3. i \in Ppn
  <2> DEFINE left == UseOpt!CountedDown
             most == {k \in Ppn : left[k] > 0 /\ \A j \in Ppn : left[j] <= left[k]}
  <2>1. i = IF most = {} THEN 0 ELSE First(most)
    <3>1. UseOpt!Victim(left) = IF most = {} THEN 0 ELSE UseOpt!First(most)
      BY SameTables, Zenon DEF UseOpt!Victim
    <3> QED
      BY <1>2, <3>1, SameFirst
  <2>2. most \subseteq Nat /\ most \subseteq Ppn
    BY PpnIsNat
  <2> HIDE DEF most
  <2>3. most # {} => First(most) \in Ppn
    BY <2>2, FirstIsFirst
  <2> QED
    BY <2>1, <2>3, PpnIsNat
<1>4. /\ vpn \notin DOMAIN fast_index /\ InUse(table) = Ppn
      /\ UseOpt!Added(i, mode)
      /\ fast_index' = UseOpt!Indexed(UseOpt!Unindexed(table[i].VPN), vpn, i)
      /\ writes_to_disk' = writes_to_disk + (IF table[i].dirty THEN 1 ELSE 0)
  BY <1>1, <1>2, SameTables DEF UseOpt!Replace
<1>5. \A j \in Ppn : table[j].VPN # vpn
  BY <1>4, NoPageZero DEF SimInv, FramesNumbered, FastIndexAgrees, Resident, InUse
<1>6. /\ table' \in [Ppn -> Frame] /\ Gets(i, vpn) /\ \A j \in Ppn \ {i} : Same(j)
      /\ rank' = [UseOpt!CountedDown EXCEPT ![i] = UseOpt!TimeUntilNextAccess]
      /\ total_memory_accesses' = total_memory_accesses + 1 /\ trace' = trace
      /\ page_faults' = page_faults + 1
  BY <1>3, <1>4, OptAdded
<1>7. Replaces(vpn, i)
  BY <1>3, <1>4, <1>5, <1>6 DEF Replaces
<1> QED
  BY <1>2, <1>3, <1>4, <1>6, <1>7

-----------------------------------------------------------------------------
(* The steps keep the invariant *)

Moves(vpn) == \/ \E i \in Ppn : Hits(vpn, i)
              \/ \E L \in SUBSET Ppn : Loads(vpn, L)
              \/ \E v \in Ppn : Replaces(vpn, v)

(* An access, of whatever algorithm, to the next page of the trace.        *)
LEMMA AccessMoves ==
    ASSUME SimInv, Next
    PROVE  /\ algorithm' = algorithm /\ trace' = trace
           /\ total_memory_accesses < Len(trace) /\ trace \in Seq(Vpn)
           /\ total_memory_accesses' = total_memory_accesses + 1
           /\ trace[total_memory_accesses + 1] \in Vpn
           /\ table' \in [Ppn -> Frame] /\ rank' \in [Ppn -> Int]
           /\ (algorithm = "lru" => rank' \in [Ppn -> Nat])
           /\ (algorithm = "aging" => rank' \in [Ppn -> 0..255])
           /\ Moves(trace[total_memory_accesses + 1])
<1>1. PICK mode \in Modes :
         /\ total_memory_accesses < Len(trace)
         /\ Access(trace[total_memory_accesses + 1], mode)
         /\ algorithm' = algorithm
  BY DEF Next
<1>2. PICK vpn : vpn = trace[total_memory_accesses + 1]
  OBVIOUS
<1>3. vpn \in Vpn /\ trace \in Seq(Vpn)
  BY <1>1, <1>2, OptCounts
<1>4. CASE algorithm = "lru" /\ UseLRU!Access(vpn, mode) /\ UNCHANGED <<trace, fast_index>>
  <2>1. /\ table' \in [Ppn -> Frame] /\ rank' \in [Ppn -> Nat]
        /\ total_memory_accesses' = total_memory_accesses + 1
        /\ Moves(vpn)
    BY <1>3, <1>4, LRUHit, LRULoad, LRUReplace DEF UseLRU!Access, Moves
  <2> QED
    BY <1>1, <1>2, <1>3, <1>4, <2>1
<1>5. CASE /\ algorithm = "aging"
           /\ \E tick \in BOOLEAN : UseAging!Access(vpn, mode, tick)
           /\ UNCHANGED <<trace, fast_index>>
  <2>1. /\ table' \in [Ppn -> Frame] /\ rank' \in [Ppn -> 0..255]
        /\ total_memory_accesses' = total_memory_accesses + 1
        /\ Moves(vpn)
    BY <1>3, <1>5, AgingStep DEF Moves
  <2>2. 0..255 \subseteq Int
    OBVIOUS
  <2>3. rank' \in [Ppn -> Int]
    BY <2>1, <2>2
  <2> QED
    BY <1>1, <1>2, <1>3, <1>5, <2>1, <2>3
<1>6. CASE algorithm = "opt" /\ UseOpt!Access(mode)
  <2>1. UseOpt!CountedDown \in [Ppn -> Int] /\ UseOpt!TimeUntilNextAccess \in Int
    BY <1>1, OptCounts
  <2>2. CASE UseOpt!Hit(mode)
    <3>1. /\ table' \in [Ppn -> Frame] /\ rank' = UseOpt!CountedDown
          /\ total_memory_accesses' = total_memory_accesses + 1 /\ trace' = trace
          /\ \E i \in Ppn : Hits(vpn, i)
      BY <1>1, <1>2, <1>3, <1>6, <2>2, OptHit
    <3> QED
      BY <1>1, <1>2, <1>3, <1>6, <2>1, <3>1 DEF Moves
  <2>3. CASE UseOpt!Load(mode)
    <3>1. /\ table' \in [Ppn -> Frame]
          /\ total_memory_accesses' = total_memory_accesses + 1 /\ trace' = trace
          /\ \E i \in Ppn :
                /\ Loads(vpn, {i})
                /\ rank' = [UseOpt!CountedDown EXCEPT ![i] = UseOpt!TimeUntilNextAccess]
      BY <1>1, <1>2, <1>3, <1>6, <2>3, OptLoad
    <3>2. rank' \in [Ppn -> Int] /\ Moves(vpn)
      BY <2>1, <3>1 DEF Moves
    <3> QED
      BY <1>1, <1>2, <1>3, <1>6, <3>1, <3>2
  <2>4. CASE UseOpt!Replace(mode)
    <3>1. /\ table' \in [Ppn -> Frame]
          /\ total_memory_accesses' = total_memory_accesses + 1 /\ trace' = trace
          /\ \E i \in Ppn :
                /\ Replaces(vpn, i)
                /\ rank' = [UseOpt!CountedDown EXCEPT ![i] = UseOpt!TimeUntilNextAccess]
      BY <1>1, <1>2, <1>3, <1>6, <2>4, OptReplace
    <3>2. rank' \in [Ppn -> Int] /\ Moves(vpn)
      BY <2>1, <3>1 DEF Moves
    <3> QED
      BY <1>1, <1>2, <1>3, <1>6, <3>1, <3>2
  <2> QED
    BY <1>6, <2>2, <2>3, <2>4 DEF UseOpt!Access
<1> QED
  BY <1>1, <1>2, <1>4, <1>5, <1>6 DEF Access

LEMMA HitsEffect ==
    ASSUME SimInv, NEW vpn \in Vpn, NEW i \in Ppn, Hits(vpn, i)
    PROVE  /\ InUse(table') = InUse(table) /\ Resident(table') = Resident(table)
           /\ vpn \in Resident(table)
           /\ \A j \in Ppn : table'[j].VPN = table[j].VPN
           /\ \E written \in {{}, {vpn}} : Unsaved(table') = Unsaved(table) \union written
<1>1. /\ table[i].in_use /\ table[i].VPN = vpn /\ table'[i].VPN = vpn /\ table'[i].in_use
      /\ (table[i].dirty => table'[i].dirty)
      /\ \A j \in Ppn \ {i} : Same(j)
  BY NoPageZero DEF Hits, Gets, SimInv, FramesNumbered
<1>2. /\ \A j \in Ppn : table'[j].VPN = table[j].VPN
      /\ InUse(table') = InUse(table)
  BY <1>1 DEF InUse, Same
<1>3. Resident(table') = Resident(table) /\ vpn \in Resident(table)
  BY <1>1, <1>2 DEF Resident, InUse
<1> DEFINE written == IF table'[i].dirty THEN {vpn} ELSE {}
<1>4. Unsaved(table') = Unsaved(table) \union written
  <2>1. ASSUME NEW p \in Unsaved(table') PROVE p \in Unsaved(table) \union written
    BY <1>1, <1>2 DEF Unsaved, InUse, Same
  <2>2. ASSUME NEW p \in Unsaved(table) PROVE p \in Unsaved(table')
    BY <1>1, <1>2 DEF Unsaved, InUse, Same
  <2>3. written \subseteq Unsaved(table')
    BY <1>1 DEF Unsaved, InUse
  <2> QED
    BY <2>1, <2>2, <2>3
<1> QED
  BY <1>2, <1>3, <1>4

LEMMA LoadsEffect ==
    ASSUME SimInv, NEW vpn \in Vpn, NEW L \in SUBSET Ppn, Loads(vpn, L)
    PROVE  /\ InUse(table') = InUse(table) \union L
           /\ Resident(table') = Resident(table) \union {vpn}
           /\ vpn \notin Resident(table)
           /\ \E written \in {{}, {vpn}} : Unsaved(table') = Unsaved(table) \union written
<1>1. /\ \A i \in L : ~table[i].in_use /\ table'[i].VPN = vpn /\ table'[i].in_use
      /\ \A j \in Ppn \ L : Same(j)
      /\ L # {} /\ \A j \in Ppn : table[j].VPN # vpn
  BY DEF Loads, Gets
<1>2. InUse(table') = InUse(table) \union L
  BY <1>1 DEF InUse, Same
<1>3. Resident(table') = Resident(table) \union {vpn} /\ vpn \notin Resident(table)
  BY <1>1, <1>2 DEF Resident, InUse, Same
<1> DEFINE written == IF \E i \in L : table'[i].dirty THEN {vpn} ELSE {}
<1>4. Unsaved(table') = Unsaved(table) \union written
  <2>1. ASSUME NEW p \in Unsaved(table') PROVE p \in Unsaved(table) \union written
    BY <1>1, <1>2 DEF Unsaved, InUse, Same
  <2>2. ASSUME NEW p \in Unsaved(table) PROVE p \in Unsaved(table')
    BY <1>1, <1>2 DEF Unsaved, InUse, Same
  <2>3. written \subseteq Unsaved(table')
    BY <1>1 DEF Unsaved, InUse
  <2> QED
    BY <2>1, <2>2, <2>3
<1> QED
  BY <1>2, <1>3, <1>4

(* Of the victim's page nothing is left when it had one frame.  (Under LRU *)
(* it may have had two.)                                                   *)
LEMMA ReplacesEffect ==
    ASSUME SimInv, NEW vpn \in Vpn, NEW v \in Ppn, Replaces(vpn, v)
    PROVE  /\ InUse(table') = InUse(table) /\ InUse(table) = Ppn
           /\ vpn \notin Resident(table)
           /\ Unsaved(table) \ (IF table[v].dirty THEN {table[v].VPN} ELSE {}) \subseteq Unsaved(table')
           /\ Resident(table) \ {table[v].VPN} \subseteq Resident(table')
           /\ algorithm # "lru" =>
                 /\ Resident(table') = (Resident(table) \ {table[v].VPN}) \union {vpn}
                 /\ \E written \in {{}, {vpn}} :
                       Unsaved(table') = (Unsaved(table) \ {table[v].VPN}) \union written
                 /\ table[v].dirty <=> table[v].VPN \in Unsaved(table)
<1>1. /\ InUse(table) = Ppn /\ \A j \in Ppn : table[j].in_use
      /\ table'[v].VPN = vpn /\ table'[v].in_use
      /\ \A j \in Ppn \ {v} : Same(j)
      /\ \A j \in Ppn : table[j].VPN # vpn
  BY DEF Replaces, Gets, InUse
<1>2. InUse(table') = Ppn
  BY <1>1 DEF InUse, Same
<1>3. vpn \notin Resident(table) /\ Resident(table) \ {table[v].VPN} \subseteq Resident(table')
  BY <1>1, <1>2 DEF Resident, Same
<1>4. Unsaved(table) \ (IF table[v].dirty THEN {table[v].VPN} ELSE {}) \subseteq Unsaved(table')
  <2> SUFFICES ASSUME NEW p \in Unsaved(table),
                      p \notin (IF table[v].dirty THEN {table[v].VPN} ELSE {})
               PROVE  p \in Unsaved(table')
    OBVIOUS
  <2>1. PICK j \in Ppn : table[j].dirty /\ table[j].VPN = p
    BY DEF Unsaved, InUse
  <2>2. j # v
    BY <2>1
  <2> QED
    BY <1>1, <1>2, <2>1, <2>2 DEF Unsaved, Same
<1>5. ASSUME algorithm # "lru"
      PROVE  /\ Resident(table') = (Resident(table) \ {table[v].VPN}) \union {vpn}
             /\ \E written \in {{}, {vpn}} :
                   Unsaved(table') = (Unsaved(table) \ {table[v].VPN}) \union written
             /\ table[v].dirty <=> table[v].VPN \in Unsaved(table)
  <2>1. \A j \in Ppn : table[j].VPN = table[v].VPN => j = v
    BY <1>1, <1>5 DEF SimInv, OneFrameEach
  <2>2. Resident(table') = (Resident(table) \ {table[v].VPN}) \union {vpn}
    <3>1. ASSUME NEW p \in Resident(table') PROVE p \in (Resident(table) \ {table[v].VPN}) \union {vpn}
      <4>1. PICK j \in Ppn : table'[j].VPN = p
        BY <1>2 DEF Resident
      <4> QED
        BY <1>1, <2>1, <4>1 DEF Resident, Same
    <3>2. vpn \in Resident(table')
      BY <1>1, <1>2 DEF Resident
    <3> QED
      BY <1>3, <3>1, <3>2
  <2>3. table[v].dirty <=> table[v].VPN \in Unsaved(table)
    BY <1>1, <2>1 DEF Unsaved
  <2> DEFINE written == IF table'[v].dirty THEN {vpn} ELSE {}
  <2>4. Unsaved(table') = (Unsaved(table) \ {table[v].VPN}) \union written
    <3>1. ASSUME NEW p \in Unsaved(table') PROVE p \in (Unsaved(table) \ {table[v].VPN}) \union written
      <4>1. PICK j \in Ppn : table'[j].dirty /\ table'[j].VPN = p
        BY <1>2 DEF Unsaved
      <4>2. CASE j = v
        BY <1>1, <4>1, <4>2
      <4>3. CASE j # v
        BY <1>1, <2>1, <4>1, <4>3 DEF Unsaved, Same
      <4> QED
        BY <4>2, <4>3
    <3>2. Unsaved(table) \ {table[v].VPN} \subseteq Unsaved(table')
      BY <1>4
    <3>3. written \subseteq Unsaved(table')
      BY <1>1, <1>2 DEF Unsaved
    <3> QED
      BY <3>1, <3>2, <3>3
  <2> QED
    BY <2>2, <2>3, <2>4
<1> QED
  BY <1>1, <1>2, <1>3, <1>4, <1>5

(* What the dictionary of Opt becomes. *)
LEMMA IndexAgrees ==
    ASSUME SimInv, algorithm = "opt", Next
    PROVE  FastIndexAgrees'
<1>1. /\ DOMAIN fast_index = Resident(table)
      /\ \A i \in InUse(table) : fast_index[table[i].VPN] = i
  BY DEF SimInv, FastIndexAgrees
<1>2. PICK mode \in Modes : /\ UseOpt!Access(mode)
                            /\ total_memory_accesses < Len(trace)
  BY DEF Next, Access
<1>3. PICK vpn \in Vpn : vpn = trace[total_memory_accesses + 1]
  BY AccessMoves
<1>4. CASE UseOpt!Hit(mode)
  <2>1. PICK i \in Ppn : Hits(vpn, i)
    BY <1>2, <1>3, <1>4, OptHit
  <2>2. fast_index' = fast_index
    BY <1>2, <1>3, <1>4, OptHit
  <2>3. /\ InUse(table') = InUse(table) /\ Resident(table') = Resident(table)
        /\ \A j \in Ppn : table'[j].VPN = table[j].VPN
    BY <2>1, HitsEffect
  <2> QED
    BY <1>1, <2>2, <2>3 DEF FastIndexAgrees, InUse
<1>5. CASE UseOpt!Load(mode)
  <2>1. PICK i \in Ppn : /\ Loads(vpn, {i})
                         /\ fast_index' = UseOpt!Indexed(fast_index, vpn, i)
    BY <1>2, <1>3, <1>5, OptLoad
  <2>2. {i} \in SUBSET Ppn
    OBVIOUS
  <2>3. /\ InUse(table') = InUse(table) \union {i}
        /\ Resident(table') = Resident(table) \union {vpn} /\ vpn \notin Resident(table)
    BY <2>1, <2>2, LoadsEffect
  <2>4. fast_index' = [p \in Resident(table) \union {vpn} |-> IF p = vpn THEN i ELSE fast_index[p]]
    BY <1>1, <2>1 DEF UseOpt!Indexed
  <2>5. ASSUME NEW j \in InUse(table') PROVE fast_index'[table'[j].VPN] = j
    <3>1. CASE j = i
      BY <2>1, <2>4, <3>1 DEF Loads, Gets
    <3>2. CASE j # i
      <4>1. j \in InUse(table) /\ table'[j].VPN = table[j].VPN
        BY <2>1, <2>3, <2>5, <3>2 DEF Loads, Same, InUse
      <4>2. table[j].VPN \in Resident(table)
        BY <4>1 DEF Resident
      <4> QED
        BY <1>1, <2>3, <2>4, <4>1, <4>2
    <3> QED
      BY <3>1, <3>2
  <2> QED
    BY <2>3, <2>4, <2>5 DEF FastIndexAgrees
<1>6. CASE UseOpt!Replace(mode)
  <2>1. PICK v \in Ppn : /\ Replaces(vpn, v)
                         /\ fast_index' = UseOpt!Indexed(UseOpt!Unindexed(table[v].VPN), vpn, v)
    BY <1>2, <1>3, <1>6, OptReplace
  <2>2. /\ InUse(table') = InUse(table) /\ InUse(table) = Ppn
        /\ vpn \notin Resident(table)
        /\ Resident(table') = (Resident(table) \ {table[v].VPN}) \union {vpn}
    BY <2>1, ReplacesEffect
  <2>3. PICK left : left = UseOpt!Unindexed(table[v].VPN)
    OBVIOUS
  <2>4. left = [p \in Resident(table) \ {table[v].VPN} |-> fast_index[p]]
    BY <1>1, <2>3 DEF UseOpt!Unindexed
  <2>5. fast_index' = [p \in (Resident(table) \ {table[v].VPN}) \union {vpn} |->
                          IF p = vpn THEN v ELSE left[p]]
    BY <2>1, <2>3, <2>4 DEF UseOpt!Indexed
  <2>6. ASSUME NEW j \in InUse(table') PROVE fast_index'[table'[j].VPN] = j
    <3>1. CASE j = v
      BY <2>1, <2>5, <3>1 DEF Replaces, Gets
    <3>2. CASE j # v
      <4>1. j \in InUse(table) /\ table'[j].VPN = table[j].VPN
        BY <2>1, <2>2, <2>6, <3>2 DEF Replaces, Same
      <4>2. table[j].VPN \in Resident(table) /\ table[j].VPN # table[v].VPN
        BY <1>1, <2>2, <3>2, <4>1 DEF Resident
      <4> QED
        BY <1>1, <2>2, <2>4, <2>5, <4>1, <4>2
    <3> QED
      BY <3>1, <3>2
  <2> QED
    BY <2>2, <2>5, <2>6 DEF FastIndexAgrees
<1> QED
  BY <1>2, <1>4, <1>5, <1>6 DEF UseOpt!Access

LEMMA NextSimInv ==
    ASSUME SimInv, Next
    PROVE  SimInv'
<1>1. PICK vpn \in Vpn : Moves(vpn)
  BY AccessMoves
<1>2. /\ algorithm' = algorithm /\ table' \in [Ppn -> Frame]
      /\ total_memory_accesses \in Nat
      /\ total_memory_accesses' = total_memory_accesses + 1
  BY AccessMoves DEF SimInv, SimType
<1>3. SimType'
  <2>1. page_faults' \in Nat /\ writes_to_disk' \in Nat
    <3>1. page_faults \in Nat /\ writes_to_disk \in Nat
      BY DEF SimInv, SimType
    <3> QED
      BY <1>1, <3>1 DEF Moves, Hits, Loads, Replaces
  <2>2. last_read' \in [Vpn -> Nat] /\ written_in' \in BOOLEAN /\ reused' \subseteq Vpn
    <3>1. last_read \in [Vpn -> Nat] /\ total_memory_accesses + 1 \in Nat
          /\ written_in \in BOOLEAN /\ reused \subseteq Vpn
          /\ trace[total_memory_accesses + 1] \in Vpn
      BY <1>2, AccessMoves DEF SimInv, SimType
    <3> QED
      BY <3>1 DEF Next
  <2>3. /\ algorithm \in {"opt", "aging", "lru"} /\ trace \in Traces
        /\ trace' = trace /\ rank' \in [Ppn -> Int]
        /\ (algorithm = "lru" => rank' \in [Ppn -> Nat])
        /\ (algorithm = "aging" => rank' \in [Ppn -> 0..255])
    BY AccessMoves DEF SimInv, SimType
  <2> QED
    BY <1>2, <2>1, <2>2, <2>3 DEF SimType
<1>4. FramesNumbered'
  <2>1. \A j \in Ppn : table[j].in_use <=> table[j].VPN # 0
    BY DEF SimInv, FramesNumbered
  <2>2. vpn # 0
    BY NoPageZero
  <2>3. \A j \in Ppn : Gets(j, vpn) \/ Same(j)
    BY <1>1 DEF Moves, Hits, Loads, Replaces
  <2>4. \A j \in Ppn : table'[j].in_use <=> table'[j].VPN # 0
    BY <2>1, <2>2, <2>3 DEF Gets, Same
  <2> QED
    BY <2>4 DEF FramesNumbered
<1>5. OneFrameEach'
  <2> SUFFICES ASSUME algorithm # "lru", NEW j \in InUse(table'), NEW k \in InUse(table'),
                      table'[j].VPN = table'[k].VPN
               PROVE  j = k
    BY <1>2 DEF OneFrameEach
  <2>1. \A i, l \in InUse(table) : table[i].VPN = table[l].VPN => i = l
    BY DEF SimInv, OneFrameEach
  <2>2. j \in Ppn /\ k \in Ppn
    BY DEF InUse
  <2>3. ASSUME NEW i \in Ppn, Hits(vpn, i) PROVE j = k
    BY <2>1, <2>2, <2>3, HitsEffect
  <2>4. ASSUME NEW L \in SUBSET Ppn, Loads(vpn, L) PROVE j = k
    <3>1. PICK i \in Ppn : L = {i}
      BY <2>4 DEF Loads
    <3>2. \A l \in Ppn : /\ l = i => table'[l].VPN = vpn
                         /\ l # i => Same(l)
                         /\ table[l].VPN # vpn
      BY <2>4, <3>1 DEF Loads, Gets
    <3> QED
      BY <2>1, <2>2, <3>2 DEF Same, InUse
  <2>5. ASSUME NEW v \in Ppn, Replaces(vpn, v) PROVE j = k
    <3>1. \A l \in Ppn : /\ l = v => table'[l].VPN = vpn
                         /\ l # v => Same(l)
                         /\ table[l].VPN # vpn
      BY <2>5 DEF Replaces, Gets
    <3> QED
      BY <2>1, <2>2, <3>1 DEF Same, InUse
  <2> QED
    BY <1>1, <2>3, <2>4, <2>5 DEF Moves
<1>6. FastIndexAgrees'
  <2>1. CASE algorithm = "opt"
    BY <2>1, IndexAgrees
  <2>2. CASE algorithm # "opt"
    BY <1>2, <2>2 DEF FastIndexAgrees
  <2> QED
    BY <2>1, <2>2
<1> QED
  BY <1>3, <1>4, <1>5, <1>6 DEF SimInv

-----------------------------------------------------------------------------
(* Theorems *)

(* The conjunction is an invariant of the simulator: types, frames in use  *)
(* are those with a page number, Aging and Opt have a page once, and the   *)
(* dictionary of Opt is true to the table.                                 *)
THEOREM SimulatorInvariant == Spec => []SimInv
<1>1. SimInv /\ [Next]_vars => SimInv'
  <2> SUFFICES ASSUME SimInv, [Next]_vars PROVE SimInv'
    OBVIOUS
  <2>1. CASE Next
    BY <2>1, NextSimInv
  <2>2. CASE UNCHANGED vars
    BY <2>2 DEF vars, simulator, SimInv, SimType, FramesNumbered, OneFrameEach, FastIndexAgrees,
                InUse, Resident
  <2> QED
    BY <2>1, <2>2
<1> QED
  BY InitSimInv, <1>1, PTL DEF Spec

(* Every variable keeps its type; an aging value never outgrows its 8 bits. *)
THEOREM SimulatorType == Spec => []SimType
<1>1. SimInv => SimType
  BY DEF SimInv
<1> QED
  BY SimulatorInvariant, <1>1, PTL

(* The dictionary of Opt has the pages in memory and where they are, each  *)
(* in one frame.                                                           *)
THEOREM SimulatorFastIndex == Spec => []FastIndexAgrees
<1>1. SimInv => FastIndexAgrees
  BY DEF SimInv
<1> QED
  BY SimulatorInvariant, <1>1, PTL

-----------------------------------------------------------------------------
(* The disk writes *)

LEMMA MoveWrites ==
    ASSUME SimInv, Next
    PROVE  Cardinality(Unsaved(table) \ Unsaved(table')) <= writes_to_disk' - writes_to_disk
<1>1. PICK vpn \in Vpn : Moves(vpn)
  BY AccessMoves
<1>2. writes_to_disk \in Nat
  BY DEF SimInv, SimType
<1>3. Cardinality({}) = 0
  BY FS_EmptySet
<1>4. ASSUME NEW i \in Ppn, Hits(vpn, i)
      PROVE  Unsaved(table) \ Unsaved(table') = {} /\ writes_to_disk' = writes_to_disk
  <2>1. \E written : Unsaved(table') = Unsaved(table) \union written
    BY <1>4, HitsEffect
  <2> QED
    BY <1>4, <2>1 DEF Hits
<1>5. ASSUME NEW L \in SUBSET Ppn, Loads(vpn, L)
      PROVE  Unsaved(table) \ Unsaved(table') = {} /\ writes_to_disk' = writes_to_disk
  <2>1. \E written : Unsaved(table') = Unsaved(table) \union written
    BY <1>5, LoadsEffect
  <2> QED
    BY <1>5, <2>1 DEF Loads
<1>6. ASSUME NEW v \in Ppn, Replaces(vpn, v)
      PROVE  Cardinality(Unsaved(table) \ Unsaved(table')) <= writes_to_disk' - writes_to_disk
  <2>1. /\ Unsaved(table) \ (IF table[v].dirty THEN {table[v].VPN} ELSE {}) \subseteq Unsaved(table')
        /\ writes_to_disk' = writes_to_disk + (IF table[v].dirty THEN 1 ELSE 0)
    BY <1>6, ReplacesEffect DEF Replaces
  <2> DEFINE gone == Unsaved(table) \ Unsaved(table')
  <2>2. CASE gone = {}
    BY <1>2, <1>3, <2>1, <2>2
  <2>3. CASE gone # {}
    <3>1. table[v].dirty /\ gone = {table[v].VPN}
      BY <2>1, <2>3
    <3>2. Cardinality(gone) = 1
      BY <3>1, FS_Singleton
    <3> QED
      BY <1>2, <2>1, <3>1, <3>2
  <2> QED
    BY <2>2, <2>3
<1>7. CASE Unsaved(table) \ Unsaved(table') = {} /\ writes_to_disk' = writes_to_disk
  BY <1>2, <1>3, <1>7
<1> QED
  BY <1>1, <1>4, <1>5, <1>6, <1>7 DEF Moves

(* A page with changes leaves memory only with a counted write to disk,    *)
(* under each of the three algorithms.                                     *)
THEOREM SimulatorWritesNotLost == Spec => WritesNotLost
<1>1. SimInv /\ [Next]_vars
         => [Cardinality(Unsaved(table) \ Unsaved(table')) <= writes_to_disk' - writes_to_disk]_vars
  BY MoveWrites
<1> QED
  BY SimulatorInvariant, <1>1, PTL DEF Spec, WritesNotLost

-----------------------------------------------------------------------------
(* The promise of a page replacement algorithm *)

LEMMA FramesCounted ==
    ASSUME SimInv, algorithm # "lru"
    PROVE  /\ InUse(table) # Ppn => Cardinality(Resident(table)) < NumFrames
           /\ InUse(table) = Ppn => Cardinality(Resident(table)) = NumFrames
<1> DEFINE S == InUse(table)
           f == [i \in S |-> table[i].VPN]
<1>1. IsFiniteSet(Ppn) /\ Cardinality(Ppn) = NumFrames
  BY FS_Interval, NumFramesAssumption DEF Ppn
<1>2. S \subseteq Ppn
  BY DEF InUse
<1>3. IsFiniteSet(S) /\ Cardinality(S) <= NumFrames /\ (Cardinality(S) = NumFrames => S = Ppn)
  <2> HIDE DEF S
  <2> QED
    BY <1>1, <1>2, FS_Subset
<1>4. Cardinality(S) \in Nat
  BY <1>3, FS_CardinalityType
<1>5. f \in Bijection(S, Resident(table))
  <2>1. \A i, j \in S : table[i].VPN = table[j].VPN => i = j
    BY DEF SimInv, OneFrameEach
  <2> HIDE DEF S
  <2>2. Resident(table) = {table[i].VPN : i \in S}
    BY DEF Resident, S
  <2> QED
    BY <2>1, <2>2 DEF Bijection, Injection, Surjection, IsInjective
<1>6. ExistsBijection(S, Resident(table))
  BY <1>5 DEF ExistsBijection
<1>7. Cardinality(Resident(table)) = Cardinality(S)
  BY <1>3, <1>6, FS_Bijection
<1> QED
  BY <1>1, <1>3, <1>4, <1>7, NumFramesAssumption

LEMMA AccessPromised ==
    ASSUME SimInv, algorithm # "lru", Next
    PROVE  Memory!Next
<1>1. PICK vpn \in Vpn : Moves(vpn)
  BY AccessMoves
<1>2. /\ Promising(Resident(table), {}) = Resident(table)
      /\ Promising(Resident(table), {})' = Resident(table')
      /\ Promising(Unsaved(table), {}) = Unsaved(table)
      /\ Promising(Unsaved(table), {})' = Unsaved(table')
      /\ Promising(page_faults, 0) = page_faults
      /\ Promising(page_faults, 0)' = page_faults'
      /\ Promising(writes_to_disk, 0) = writes_to_disk
      /\ Promising(writes_to_disk, 0)' = writes_to_disk'
  <2>1. algorithm' # "lru"
    BY AccessMoves
  <2> QED
    BY <2>1 DEF Promising
<1>3. ASSUME NEW i \in Ppn, Hits(vpn, i) PROVE Memory!Next
  <2>1. PICK written \in {{}, {vpn}} : Unsaved(table') = Unsaved(table) \union written
    BY <1>3, HitsEffect
  <2>2. Resident(table') = Resident(table) /\ vpn \in Resident(table)
    BY <1>3, HitsEffect
  <2>3. page_faults' = page_faults /\ writes_to_disk' = writes_to_disk
    BY <1>3 DEF Hits
  <2>4. Memory!Hit(vpn, written)
    BY <1>2, <2>1, <2>2, <2>3 DEF Memory!Hit
  <2> QED
    BY <2>4 DEF Memory!Next
<1>4. ASSUME NEW L \in SUBSET Ppn, Loads(vpn, L) PROVE Memory!Next
  <2>1. PICK written \in {{}, {vpn}} : Unsaved(table') = Unsaved(table) \union written
    BY <1>4, LoadsEffect
  <2>2. Resident(table') = Resident(table) \union {vpn} /\ vpn \notin Resident(table)
    BY <1>4, LoadsEffect
  <2>3. page_faults' = page_faults + 1 /\ writes_to_disk' = writes_to_disk
    BY <1>4 DEF Loads
  <2>4. Memory!Cardinality(Resident(table)) < NumFrames
    <3>1. InUse(table) # Ppn
      BY <1>4 DEF Loads, InUse
    <3> QED
      BY <3>1, FramesCounted, SameCardinality
  <2>5. Memory!Load(vpn, written)
    BY <1>2, <2>1, <2>2, <2>3, <2>4 DEF Memory!Load
  <2> QED
    BY <2>5 DEF Memory!Next
<1>5. ASSUME NEW v \in Ppn, Replaces(vpn, v) PROVE Memory!Next
  <2>1. PICK victim : victim = table[v].VPN
    OBVIOUS
  <2>2. PICK written \in {{}, {vpn}} :
           Unsaved(table') = (Unsaved(table) \ {victim}) \union written
    BY <1>5, <2>1, ReplacesEffect
  <2>3. /\ Resident(table') = (Resident(table) \ {victim}) \union {vpn}
        /\ vpn \notin Resident(table) /\ InUse(table) = Ppn
        /\ table[v].dirty <=> victim \in Unsaved(table)
    BY <1>5, <2>1, ReplacesEffect
  <2>4. /\ page_faults' = page_faults + 1
        /\ writes_to_disk' = writes_to_disk + (IF table[v].dirty THEN 1 ELSE 0)
    BY <1>5 DEF Replaces
  <2>5. victim \in Resident(table)
    BY <2>1, <2>3 DEF Resident
  <2>6. victim \in Vpn
    BY <2>1, <2>3, <1>5 DEF SimInv, SimType, FramesNumbered, InUse, Frame
  <2>7. Memory!Cardinality(Resident(table)) = NumFrames
    BY <2>3, FramesCounted, SameCardinality
  <2>8. Memory!Replace(victim, vpn, written)
    <3>1. writes_to_disk' = writes_to_disk + (IF victim \in Unsaved(table) THEN 1 ELSE 0)
      BY <2>3, <2>4
    <3> QED
      BY <1>2, <2>2, <2>3, <2>4, <2>5, <2>7, <3>1 DEF Memory!Replace
  <2> QED
    BY <2>6, <2>8 DEF Memory!Next
<1> QED
  BY <1>1, <1>3, <1>4, <1>5 DEF Moves

(* Aging and Opt implement the abstract page replacement algorithm, for    *)
(* any number of frames and whatever the trace.                            *)
THEOREM SimulatorImplementsPagedMemory == Spec => ImplementsPagedMemory
<1>1. Init => Memory!Init
  <2> SUFFICES ASSUME Init PROVE Memory!Init
    OBVIOUS
  <2>1. InUse(table) = {}
    BY DEF Init, InUse, NewFrame
  <2>2. Resident(table) = {} /\ Unsaved(table) = {}
    BY <2>1 DEF Resident, Unsaved
  <2> QED
    BY <2>2 DEF Init, Memory!Init, Promising
<1>2. SimInv /\ [Next]_vars => [Memory!Next]_(Memory!vars)
  <2> SUFFICES ASSUME SimInv, [Next]_vars PROVE Memory!Next \/ UNCHANGED Memory!vars
    OBVIOUS
  <2>1. CASE Next /\ algorithm # "lru"
    BY <2>1, AccessPromised
  <2>2. CASE Next /\ algorithm = "lru"
    <3>1. algorithm' = "lru"
      BY <2>2, AccessMoves
    <3> QED
      BY <2>2, <3>1 DEF Memory!vars, Promising
  <2>3. CASE UNCHANGED vars
    BY <2>3 DEF vars, simulator, Memory!vars, Promising, Resident, Unsaved, InUse
  <2> QED
    BY <2>1, <2>2, <2>3
<1> QED
  BY <1>1, <1>2, SimulatorInvariant, PTL DEF Spec, ImplementsPagedMemory, Memory!Spec

-----------------------------------------------------------------------------
(* LRU: the page whose last read is the longest ago *)

(* As long as pages come into memory by reads, the first frame of a page   *)
(* has the stamp of its last read, and no other frame of it a later one.   *)
StampsTell ==
    algorithm = "lru" /\ ~written_in =>
        \A i \in InUse(table) :
            /\ rank[i] <= total_memory_accesses
            /\ rank[i] + 1 <= last_read[table[i].VPN]
            /\ \/ rank[i] + 1 = last_read[table[i].VPN]
               \/ \E j \in InUse(table) : j < i /\ table[j].VPN = table[i].VPN

LEMMA LRUAccess ==
    ASSUME SimInv, algorithm = "lru", Next
    PROVE  \E vpn \in Vpn, mode \in Modes :
              /\ \/ \E i \in Ppn : /\ Hits(vpn, i) /\ Stamped({i}, mode)
                                   /\ \A j \in Ppn : table[j].VPN = vpn => i <= j
                 \/ \E L \in SUBSET Ppn : Loads(vpn, L) /\ Stamped(L, mode)
                 \/ \E v \in Ppn : /\ Replaces(vpn, v) /\ Stamped({v}, mode)
                                   /\ \A j \in Ppn : rank[v] <= rank[j]
              /\ last_read' = IF mode = "R"
                                THEN [last_read EXCEPT ![vpn] = total_memory_accesses + 1]
                                ELSE last_read
              /\ written_in' = (written_in \/ (mode = "W" /\ page_faults' # page_faults))
<1>1. PICK mode \in Modes :
         /\ Access(trace[total_memory_accesses + 1], mode)
         /\ last_read' = IF mode = "R"
                           THEN [last_read EXCEPT ![trace[total_memory_accesses + 1]]
                                    = total_memory_accesses + 1]
                           ELSE last_read
         /\ written_in' = (written_in \/ (mode = "W" /\ page_faults' # page_faults))
  BY DEF Next
<1>2. PICK vpn \in Vpn : vpn = trace[total_memory_accesses + 1]
  BY AccessMoves
<1>3. UseLRU!Access(vpn, mode)
  BY <1>1, <1>2 DEF Access
<1>4. \/ \E i \in Ppn : /\ Hits(vpn, i) /\ Stamped({i}, mode)
                        /\ \A j \in Ppn : table[j].VPN = vpn => i <= j
      \/ \E L \in SUBSET Ppn : Loads(vpn, L) /\ Stamped(L, mode)
      \/ \E v \in Ppn : /\ Replaces(vpn, v) /\ Stamped({v}, mode)
                        /\ \A j \in Ppn : rank[v] <= rank[j]
  BY <1>3, LRUHit, LRULoad, LRUReplace DEF UseLRU!Access
<1> QED
  BY <1>1, <1>2, <1>4

LEMMA StampsTellKept ==
    ASSUME SimInv, StampsTell, Next
    PROVE  StampsTell'
<1> SUFFICES ASSUME algorithm = "lru", ~written_in', NEW i \in InUse(table')
             PROVE  /\ rank'[i] <= total_memory_accesses'
                    /\ rank'[i] + 1 <= last_read'[table'[i].VPN]
                    /\ \/ rank'[i] + 1 = last_read'[table'[i].VPN]
                       \/ \E j \in InUse(table') : j < i /\ table'[j].VPN = table'[i].VPN
  BY AccessMoves DEF StampsTell
<1>1. PICK vpn \in Vpn, mode \in Modes :
         /\ \/ \E k \in Ppn : /\ Hits(vpn, k) /\ Stamped({k}, mode)
                              /\ \A j \in Ppn : table[j].VPN = vpn => k <= j
            \/ \E L \in SUBSET Ppn : Loads(vpn, L) /\ Stamped(L, mode)
            \/ \E v \in Ppn : /\ Replaces(vpn, v) /\ Stamped({v}, mode)
                              /\ \A j \in Ppn : rank[v] <= rank[j]
         /\ last_read' = IF mode = "R"
                           THEN [last_read EXCEPT ![vpn] = total_memory_accesses + 1]
                           ELSE last_read
         /\ written_in' = (written_in \/ (mode = "W" /\ page_faults' # page_faults))
  BY LRUAccess
<1>2. /\ rank \in [Ppn -> Nat] /\ total_memory_accesses \in Nat /\ page_faults \in Nat
      /\ total_memory_accesses' = total_memory_accesses + 1
      /\ last_read \in [Vpn -> Nat] /\ ~written_in
      /\ table \in [Ppn -> Frame] /\ i \in Ppn
      /\ \A j \in InUse(table) : table[j].VPN \in Vpn
  BY <1>1, AccessMoves DEF SimInv, SimType, FramesNumbered, InUse, Frame
<1>3. \A k \in InUse(table) :
            /\ rank[k] <= total_memory_accesses
            /\ rank[k] + 1 <= last_read[table[k].VPN]
            /\ \/ rank[k] + 1 = last_read[table[k].VPN]
               \/ \E j \in InUse(table) : j < k /\ table[j].VPN = table[k].VPN
  BY <1>2 DEF StampsTell
<1>4. /\ \A p \in Vpn : last_read'[p] = IF mode = "R" /\ p = vpn THEN total_memory_accesses + 1
                                                                ELSE last_read[p]
      /\ page_faults' # page_faults => mode = "R"
  <2>1. written_in' = (written_in \/ (mode = "W" /\ page_faults' # page_faults))
    BY <1>1
  <2>2. page_faults' # page_faults => mode = "R"
    BY <2>1, Zenon DEF Modes
  <2> QED
    BY <1>1, <1>2, <2>2
<1>5. ASSUME NEW k \in Ppn, Hits(vpn, k), Stamped({k}, mode),
             \A j \in Ppn : table[j].VPN = vpn => k <= j
      PROVE  /\ rank'[i] <= total_memory_accesses'
             /\ rank'[i] + 1 <= last_read'[table'[i].VPN]
             /\ \/ rank'[i] + 1 = last_read'[table'[i].VPN]
                \/ \E j \in InUse(table') : j < i /\ table'[j].VPN = table'[i].VPN
  <2>1. /\ InUse(table') = InUse(table) /\ \A j \in Ppn : table'[j].VPN = table[j].VPN
        /\ table[k].VPN = vpn /\ k \in InUse(table)
    BY <1>5, HitsEffect DEF Hits, Gets, InUse
  <2>2. \A j \in Ppn : rank'[j] = IF j = k /\ mode = "R" THEN total_memory_accesses ELSE rank[j]
    BY <1>5 DEF Stamped
  <2>3. i \in InUse(table) /\ table'[i].VPN = table[i].VPN /\ table[i].VPN \in Vpn
    BY <1>2, <2>1
  <2>4. CASE table[i].VPN # vpn \/ mode # "R"
    <3>1. rank'[i] = rank[i] /\ last_read'[table'[i].VPN] = last_read[table[i].VPN]
      BY <1>2, <1>4, <2>1, <2>2, <2>3, <2>4
    <3>2. \A j \in InUse(table) : table'[j].VPN = table[j].VPN
      BY <2>1 DEF InUse
    <3> QED
      BY <1>2, <1>3, <2>1, <2>3, <3>1, <3>2
  <2>5. CASE table[i].VPN = vpn /\ mode = "R"
    <3>1. last_read'[table'[i].VPN] = total_memory_accesses + 1
      BY <1>4, <2>3, <2>5
    <3>2. CASE i = k
      BY <1>2, <2>2, <2>5, <3>1, <3>2
    <3>3. CASE i # k
      <4>1. k < i
        BY <1>2, <1>5, <2>5, <3>3, PpnIsNat
      <4>2. k \in InUse(table') /\ table'[k].VPN = table'[i].VPN
        BY <2>1, <2>3, <2>5
      <4>3. rank'[i] = rank[i] /\ rank[i] <= total_memory_accesses /\ rank[i] \in Nat
        BY <1>2, <1>3, <2>2, <2>3, <3>3
      <4> QED
        BY <1>2, <3>1, <4>1, <4>2, <4>3
    <3> QED
      BY <3>2, <3>3
  <2> QED
    BY <2>4, <2>5
<1>6. ASSUME NEW L \in SUBSET Ppn, Loads(vpn, L), Stamped(L, mode)
      PROVE  /\ rank'[i] <= total_memory_accesses'
             /\ rank'[i] + 1 <= last_read'[table'[i].VPN]
             /\ \/ rank'[i] + 1 = last_read'[table'[i].VPN]
                \/ \E j \in InUse(table') : j < i /\ table'[j].VPN = table'[i].VPN
  <2>1. mode = "R"
    BY <1>2, <1>4, <1>6 DEF Loads
  <2>2. \A j \in Ppn : rank'[j] = IF j \in L THEN total_memory_accesses ELSE rank[j]
    BY <1>6, <2>1 DEF Stamped
  <2>3. /\ \A j \in L : table'[j].VPN = vpn
        /\ \A j \in Ppn \ L : Same(j)
        /\ \A j \in Ppn : table[j].VPN # vpn
        /\ \A j \in L : ~table[j].in_use
    BY <1>6 DEF Loads, Gets
  <2>4. CASE i \in L
    BY <1>2, <1>4, <2>1, <2>2, <2>3, <2>4
  <2>5. CASE i \notin L
    <3>1. /\ i \in InUse(table) /\ table'[i].VPN = table[i].VPN /\ table[i].VPN \in Vpn
          /\ table[i].VPN # vpn
      BY <1>2, <2>3, <2>5 DEF Same, InUse
    <3>2. rank'[i] = rank[i] /\ last_read'[table'[i].VPN] = last_read[table[i].VPN]
      BY <1>2, <1>4, <2>2, <2>5, <3>1
    <3>3. \A j \in InUse(table) : j \in InUse(table') /\ table'[j].VPN = table[j].VPN
      BY <2>3 DEF Same, InUse
    <3> QED
      BY <1>2, <1>3, <3>1, <3>2, <3>3
  <2> QED
    BY <2>4, <2>5
<1>7. ASSUME NEW v \in Ppn, Replaces(vpn, v), Stamped({v}, mode),
             \A j \in Ppn : rank[v] <= rank[j]
      PROVE  /\ rank'[i] <= total_memory_accesses'
             /\ rank'[i] + 1 <= last_read'[table'[i].VPN]
             /\ \/ rank'[i] + 1 = last_read'[table'[i].VPN]
                \/ \E j \in InUse(table') : j < i /\ table'[j].VPN = table'[i].VPN
  <2>1. mode = "R"
    BY <1>2, <1>4, <1>7 DEF Replaces
  <2>2. \A j \in Ppn : rank'[j] = IF j = v THEN total_memory_accesses ELSE rank[j]
    BY <1>7, <2>1 DEF Stamped
  <2>3. /\ table'[v].VPN = vpn /\ InUse(table) = Ppn
        /\ \A j \in Ppn \ {v} : Same(j)
        /\ \A j \in Ppn : table[j].VPN # vpn
    BY <1>7 DEF Replaces, Gets
  <2>4. CASE i = v
    BY <1>2, <1>4, <2>1, <2>2, <2>3, <2>4
  <2>5. CASE i # v
    <3>1. /\ i \in InUse(table) /\ table'[i].VPN = table[i].VPN /\ table[i].VPN \in Vpn
          /\ table[i].VPN # vpn
      BY <1>2, <2>3, <2>5 DEF Same, InUse
    <3>2. rank'[i] = rank[i] /\ last_read'[table'[i].VPN] = last_read[table[i].VPN]
      BY <1>2, <1>4, <2>2, <2>5, <3>1
    <3>3. \A j \in Ppn \ {v} : j \in InUse(table') /\ table'[j].VPN = table[j].VPN
      BY <2>3 DEF Same, InUse
    <3>4. ASSUME NEW j \in Ppn, j < i, table[j].VPN = table[i].VPN, rank[i] + 1 # last_read[table[i].VPN]
          PROVE  \E k \in Ppn \ {v} : k < i /\ table[k].VPN = table[i].VPN
      <4>1. CASE j # v
        BY <3>4, <4>1
      <4>2. CASE j = v
        <5>1. rank[v] <= rank[i] /\ rank[v] \in Nat /\ rank[i] \in Nat
          BY <1>2, <1>7
        <5>2. rank[i] + 1 <= last_read[table[i].VPN] /\ last_read[table[i].VPN] \in Nat
          BY <1>2, <1>3, <3>1
        <5>3. rank[v] + 1 # last_read[table[v].VPN]
          BY <3>4, <4>2, <5>1, <5>2
        <5>4. v \in InUse(table)
          BY <2>3
        <5>5. PICK k \in InUse(table) : k < v /\ table[k].VPN = table[v].VPN
          BY <1>3, <5>3, <5>4
        <5>6. k \in Ppn \ {v} /\ k < i
          BY <2>3, <3>4, <4>2, <5>5, <1>2, PpnIsNat
        <5> QED
          BY <3>4, <4>2, <5>5, <5>6
      <4> QED
        BY <4>1, <4>2
    <3>5. rank[i] + 1 # last_read[table[i].VPN]
             => \E k \in Ppn \ {v} : k < i /\ table[k].VPN = table[i].VPN
      BY <1>3, <2>3, <3>1, <3>4
    <3>6. rank[i] <= total_memory_accesses /\ rank[i] + 1 <= last_read[table[i].VPN]
      BY <1>3, <3>1
    <3> QED
      BY <1>2, <3>1, <3>2, <3>3, <3>5, <3>6
  <2> QED
    BY <2>4, <2>5
<1> QED
  BY <1>1, <1>5, <1>6, <1>7

LEMMA LeavesLongestUnread ==
    ASSUME SimInv, StampsTell, Next, algorithm = "lru", ~written_in,
           NEW p \in Leaving, NEW q \in Resident(table)
    PROVE  last_read[p] <= last_read[q]
<1>1. PICK vpn \in Vpn, mode \in Modes :
         \/ \E k \in Ppn : Hits(vpn, k)
         \/ \E L \in SUBSET Ppn : Loads(vpn, L)
         \/ \E v \in Ppn : Replaces(vpn, v) /\ \A j \in Ppn : rank[v] <= rank[j]
  BY LRUAccess
<1>2. PICK v \in Ppn : Replaces(vpn, v) /\ \A j \in Ppn : rank[v] <= rank[j]
  <2>1. \A k \in Ppn : ~Hits(vpn, k)
    BY HitsEffect DEF Leaving
  <2>2. \A L \in SUBSET Ppn : ~Loads(vpn, L)
    BY LoadsEffect DEF Leaving
  <2> QED
    BY <1>1, <2>1, <2>2
<1>3. /\ rank \in [Ppn -> Nat] /\ last_read \in [Vpn -> Nat] /\ InUse(table) = Ppn
      /\ \A j \in Ppn : table[j].VPN \in Vpn
  BY <1>2 DEF SimInv, SimType, Replaces, FramesNumbered, InUse, Frame
<1>4. \A k \in Ppn :
            /\ rank[k] + 1 <= last_read[table[k].VPN]
            /\ \/ rank[k] + 1 = last_read[table[k].VPN]
               \/ \E j \in Ppn : j < k /\ table[j].VPN = table[k].VPN
  BY <1>3 DEF StampsTell
<1>5. p = table[v].VPN /\ \A j \in Ppn : table[j].VPN = p => j = v
  <2>1. \A j \in Ppn \ {v} : table[j].VPN \in Resident(table')
    BY <1>2 DEF Replaces, Same, Resident, InUse
  <2>2. PICK j \in Ppn : table[j].VPN = p
    BY <1>3 DEF Leaving, Resident
  <2> QED
    BY <2>1, <2>2 DEF Leaving
<1>6. rank[v] + 1 = last_read[p]
  BY <1>4, <1>5, PpnIsNat
<1>7. PICK j \in Ppn : table[j].VPN = q
  BY <1>3 DEF Resident
<1>8. rank[v] <= rank[j] /\ rank[j] + 1 <= last_read[q]
  BY <1>2, <1>4, <1>7
<1>9. rank[v] \in Nat /\ rank[j] \in Nat /\ last_read[p] \in Nat /\ last_read[q] \in Nat
  BY <1>3, <1>5, <1>7
<1> QED
  BY <1>6, <1>8, <1>9

(* LRU evicts the page whose last read is the longest ago, as long as      *)
(* pages come into memory by reads.                                        *)
THEOREM SimulatorLeastRecentlyRead == Spec => LeastRecentlyRead
<1>1. Init => StampsTell
  BY DEF Init, StampsTell, InUse, NewFrame
<1>2. SimInv /\ StampsTell /\ [Next]_vars => StampsTell'
  <2> SUFFICES ASSUME SimInv, StampsTell, [Next]_vars PROVE StampsTell'
    OBVIOUS
  <2>1. CASE Next
    BY <2>1, StampsTellKept
  <2>2. CASE UNCHANGED vars
    BY <2>2 DEF vars, simulator, StampsTell, InUse
  <2> QED
    BY <2>1, <2>2
<1>3. SimInv /\ StampsTell /\ [Next]_vars
         => [algorithm = "lru" /\ ~written_in =>
               \A p \in Leaving, q \in Resident(table) : last_read[p] <= last_read[q]]_vars
  BY LeavesLongestUnread
<1> QED
  BY <1>1, <1>2, <1>3, SimulatorInvariant, PTL DEF Spec, LeastRecentlyRead

-----------------------------------------------------------------------------
(* Opt: the page that is not needed for the longest time *)

(* The accesses to a page that are still to come. *)
Later(p) == {j \in total_memory_accesses + 1..Len(trace) : trace[j] = p}

LEMMA TraceNumbers ==
    ASSUME SimInv
    PROVE  /\ trace \in Seq(Vpn) /\ total_memory_accesses \in Nat /\ Len(trace) \in Nat
           /\ page_faults \in Nat
BY TracesAssumption DEF SimInv, SimType

LEMMA NextUseIs ==
    ASSUME SimInv, NEW p
    PROVE  /\ NextUse(p) = IF Later(p) = {} THEN Len(trace) + 1 ELSE First(Later(p))
           /\ NextUse(p) \in Nat
           /\ NextUse(p) > total_memory_accesses \/ NextUse(p) = Len(trace) + 1
           /\ Later(p) # {} => NextUse(p) \in Later(p) /\ NextUse(p) <= Len(trace)
<1>1. trace \in Seq(Vpn) /\ total_memory_accesses \in Nat /\ Len(trace) \in Nat
  BY TraceNumbers
<1>2. Later(p) \subseteq total_memory_accesses + 1..Len(trace) /\ Later(p) \subseteq Nat
  BY <1>1 DEF Later
<1>3. NextUse(p) = IF Later(p) = {} THEN Len(trace) + 1 ELSE First(Later(p))
  BY DEF NextUse, Later
<1>4. Later(p) # {} => First(Later(p)) \in Later(p)
  BY <1>2, FirstIsFirst
<1> QED
  BY <1>1, <1>2, <1>3, <1>4

(* An access to another page does not change its next use. *)
LEMMA NextUseStays ==
    ASSUME SimInv, NEW p, trace[total_memory_accesses + 1] # p,
           total_memory_accesses < Len(trace),
           trace' = trace, total_memory_accesses' = total_memory_accesses + 1
    PROVE  NextUse(p)' = NextUse(p) /\ NextUse(p) >= total_memory_accesses + 2
<1>1. trace \in Seq(Vpn) /\ total_memory_accesses \in Nat /\ Len(trace) \in Nat
  BY TraceNumbers
<1>2. Later(p)' = Later(p)
  BY <1>1 DEF Later
<1>3. NextUse(p)' = NextUse(p)
  <2>1. NextUse(p) = IF Later(p) = {} THEN Len(trace) + 1 ELSE First(Later(p))
    BY DEF NextUse, Later
  <2>2. NextUse(p)' = IF Later(p)' = {} THEN Len(trace') + 1 ELSE First(Later(p)')
    BY DEF NextUse, Later
  <2> QED
    BY <1>2, <2>1, <2>2
<1>4. \A j \in Later(p) : j >= total_memory_accesses + 2
  BY <1>1 DEF Later
<1> QED
  BY <1>1, <1>3, <1>4, NextUseIs

(* The counter of a page: how many accesses lie before its next use, or    *)
(* more than are left.                                                     *)
Distance(p) == IF NextUse(p) <= Len(trace) THEN NextUse(p) - (total_memory_accesses + 1)
                                           ELSE Len(trace) + 1 - total_memory_accesses

(* The counter that a page gets when it comes in is right after the        *)
(* access.                                                                 *)
LEMMA DistanceSet ==
    ASSUME SimInv, NEW p, p = trace[total_memory_accesses + 1],
           total_memory_accesses < Len(trace),
           trace' = trace, total_memory_accesses' = total_memory_accesses + 1
    PROVE  UseOpt!TimeUntilNextAccess = Distance(p)'
<1> DEFINE t == total_memory_accesses
<1>1. trace \in Seq(Vpn) /\ t \in Nat /\ Len(trace) \in Nat
  BY TraceNumbers
<1>2. PICK later : later = {j \in t + 2..Len(trace) : trace[j] = p}
  OBVIOUS
<1>3. UseOpt!TimeUntilNextAccess
         = IF later = {} THEN Cardinality(t + 2..Len(trace)) + 1 ELSE First(later) - (t + 2)
  <2>1. \A S : UseOpt!Cardinality(S) = Cardinality(S)
    BY DEF UseOpt!Cardinality, Cardinality
  <2> QED
    BY <1>2, <2>1, SameFirst DEF UseOpt!TimeUntilNextAccess, UseOpt!Current, UseOpt!Rest
<1>4. Cardinality(t + 2..Len(trace)) = Len(trace) - (t + 1)
  <2>1. Cardinality(t + 2..Len(trace))
           = IF t + 2 > Len(trace) THEN 0 ELSE Len(trace) - (t + 2) + 1
    <3>1. t + 2 \in Int /\ Len(trace) \in Int
      BY <1>1
    <3> QED
      BY <3>1, FS_Interval
  <2> QED
    BY <1>1, <2>1
<1>5. Later(p)' = later
  BY <1>1, <1>2 DEF Later
<1>6. NextUse(p)' = IF later = {} THEN Len(trace) + 1 ELSE First(later)
  <2>1. NextUse(p)' = IF Later(p)' = {} THEN Len(trace') + 1 ELSE First(Later(p)')
    BY DEF NextUse, Later
  <2> QED
    BY <1>5, <2>1
<1>7. later # {} => First(later) \in Nat /\ First(later) <= Len(trace)
  <2>1. later \subseteq Nat /\ later \subseteq t + 2..Len(trace)
    BY <1>1, <1>2
  <2>2. later # {} => First(later) \in later
    BY <2>1, FirstIsFirst
  <2>3. \A n \in later : n \in Nat /\ n <= Len(trace)
    BY <1>1, <2>1
  <2> QED
    BY <2>2, <2>3
<1>8. PICK use : use = NextUse(p)'
  OBVIOUS
<1>9. Distance(p)' = IF use <= Len(trace) THEN use - (t + 1 + 1) ELSE Len(trace) + 1 - (t + 1)
  BY <1>8 DEF Distance
<1> QED
  BY <1>1, <1>3, <1>4, <1>6, <1>7, <1>8, <1>9

(* A page that has not been used since it came in has the right counter;   *)
(* and no counter is higher than the trace is long.                        *)
CountersRight ==
    algorithm = "opt" =>
        /\ \A i \in Ppn : rank[i] <= Len(trace)
        /\ \A i \in InUse(table), p \in Vpn \ reused : table[i].VPN = p => rank[i] = Distance(p)

(* The counter of a page in memory that is not accessed now. *)
LEMMA DistanceCounts ==
    ASSUME SimInv, NEW p, trace[total_memory_accesses + 1] # p,
           total_memory_accesses < Len(trace),
           trace' = trace, total_memory_accesses' = total_memory_accesses + 1
    PROVE  /\ Distance(p) \in Nat \ {0}
           /\ Distance(p)' = Distance(p) - 1
<1>1. /\ total_memory_accesses \in Nat /\ Len(trace) \in Nat /\ NextUse(p) \in Nat
      /\ NextUse(p)' = NextUse(p) /\ NextUse(p) >= total_memory_accesses + 2
  BY TraceNumbers, NextUseStays, NextUseIs
<1>2. PICK use : use = NextUse(p) /\ use = NextUse(p)'
  BY <1>1
<1>3. /\ Distance(p) = IF use <= Len(trace) THEN use - (total_memory_accesses + 1)
                                            ELSE Len(trace) + 1 - total_memory_accesses
      /\ Distance(p)' = IF use <= Len(trace) THEN use - (total_memory_accesses + 1 + 1)
                                             ELSE Len(trace) + 1 - (total_memory_accesses + 1)
  BY <1>2 DEF Distance
<1> QED
  BY <1>1, <1>2, <1>3

(* What such a counter counts down to while another page is accessed. *)
LEMMA CountedDownRight ==
    ASSUME SimInv, CountersRight, algorithm = "opt",
           total_memory_accesses < Len(trace),
           trace' = trace, total_memory_accesses' = total_memory_accesses + 1,
           NEW i \in InUse(table), NEW p \in Vpn \ reused, p = table[i].VPN,
           p # trace[total_memory_accesses + 1]
    PROVE  /\ UseOpt!CountedDown[i] = Distance(p)' /\ UseOpt!CountedDown[i] = Distance(p) - 1
           /\ Distance(p) \in Nat \ {0}
<1>1. i \in Ppn /\ table[i].in_use /\ rank[i] = Distance(p)
  BY DEF CountersRight, InUse
<1>2. Distance(p) \in Nat \ {0} /\ Distance(p)' = Distance(p) - 1
  BY DistanceCounts
<1>3. UseOpt!CountedDown[i] = IF rank[i] - 1 < -1 THEN UseOpt!TimeUntilNextAccess ELSE rank[i] - 1
  BY <1>1, SameTables DEF UseOpt!CountedDown
<1>4. UseOpt!CountedDown[i] = Distance(p) - 1
  BY <1>1, <1>2, <1>3
<1> QED
  BY <1>2, <1>4

LEMMA CountedDownBounded ==
    ASSUME SimInv, CountersRight, algorithm = "opt", total_memory_accesses < Len(trace)
    PROVE  \A i \in Ppn : UseOpt!CountedDown[i] <= Len(trace)
<1>1. /\ UseOpt!TimeUntilNextAccess \in Int /\ UseOpt!TimeUntilNextAccess <= Len(trace)
      /\ Len(trace) \in Nat
  BY OptCounts, TraceNumbers
<1>2. \A i \in Ppn : rank[i] \in Int /\ rank[i] <= Len(trace)
  BY DEF CountersRight, SimInv, SimType
<1>3. \A i \in Ppn : UseOpt!CountedDown[i] \in {rank[i], UseOpt!TimeUntilNextAccess, rank[i] - 1}
  BY SameTables DEF UseOpt!CountedDown
<1> QED
  BY <1>1, <1>2, <1>3

LEMMA CountersRightKept ==
    ASSUME SimInv, CountersRight, Next
    PROVE  CountersRight'
<1>1. PICK vpn \in Vpn : vpn = trace[total_memory_accesses + 1] /\ Moves(vpn)
  BY AccessMoves
<1>2. /\ algorithm' = algorithm /\ trace' = trace
      /\ total_memory_accesses < Len(trace)
      /\ total_memory_accesses' = total_memory_accesses + 1
      /\ page_faults \in Nat /\ total_memory_accesses \in Nat
  BY AccessMoves, TraceNumbers
<1>3. reused' = IF page_faults' = page_faults THEN reused \union {vpn} ELSE reused \ {vpn}
  BY <1>1 DEF Next
<1> SUFFICES ASSUME algorithm = "opt" PROVE CountersRight'
  BY <1>2 DEF CountersRight
<1>4. PICK mode \in Modes : UseOpt!Access(mode)
  BY DEF Next, Access
<1>5. UseOpt!CountedDown \in [Ppn -> Int] /\ UseOpt!TimeUntilNextAccess <= Len(trace)
  BY <1>2, OptCounts
<1>6. \A i \in Ppn : UseOpt!CountedDown[i] <= Len(trace)
  BY <1>2, CountedDownBounded
(* Every frame but the one that the access is to counts down. *)
<1>7. PICK k \in Ppn :
         /\ table'[k].VPN = vpn /\ \A j \in Ppn \ {k} : Same(j)
         /\ \A j \in InUse(table) : j # k => table[j].VPN # vpn
         /\ \/ page_faults' = page_faults /\ rank' = UseOpt!CountedDown
            \/ /\ page_faults' # page_faults
               /\ rank' = [UseOpt!CountedDown EXCEPT ![k] = UseOpt!TimeUntilNextAccess]
  <2>1. CASE UseOpt!Hit(mode)
    <3>1. PICK k \in Ppn : Hits(vpn, k)
      BY <1>1, <1>2, <2>1, OptHit
    <3>2. k \in InUse(table) /\ \A i, l \in InUse(table) : table[i].VPN = table[l].VPN => i = l
      BY <3>1, NoPageZero DEF SimInv, OneFrameEach, FramesNumbered, InUse, Hits
    <3>3. rank' = UseOpt!CountedDown
      BY <1>1, <1>2, <2>1, OptHit
    <3>4. /\ k \in Ppn /\ table'[k].VPN = vpn /\ \A j \in Ppn \ {k} : Same(j)
          /\ page_faults' = page_faults
      BY <3>1 DEF Hits, Gets
    <3>5. \A j \in InUse(table) : j # k => table[j].VPN # vpn
      BY <3>1, <3>2 DEF Hits
    <3> QED
      BY <3>3, <3>4, <3>5
  <2>2. CASE UseOpt!Load(mode)
    <3>1. PICK k \in Ppn :
             /\ Loads(vpn, {k})
             /\ rank' = [UseOpt!CountedDown EXCEPT ![k] = UseOpt!TimeUntilNextAccess]
      BY <1>1, <1>2, <2>2, OptLoad
    <3>2. /\ table'[k].VPN = vpn /\ \A j \in Ppn \ {k} : Same(j)
          /\ \A j \in InUse(table) : table[j].VPN # vpn
          /\ page_faults' # page_faults
      BY <1>2, <3>1 DEF Loads, Gets, InUse
    <3> QED
      BY <3>1, <3>2
  <2>3. CASE UseOpt!Replace(mode)
    <3>1. PICK k \in Ppn :
             /\ Replaces(vpn, k)
             /\ rank' = [UseOpt!CountedDown EXCEPT ![k] = UseOpt!TimeUntilNextAccess]
      BY <1>1, <1>2, <2>3, OptReplace
    <3>2. /\ table'[k].VPN = vpn /\ \A j \in Ppn \ {k} : Same(j)
          /\ \A j \in InUse(table) : table[j].VPN # vpn
          /\ page_faults' # page_faults
      BY <1>2, <3>1 DEF Replaces, Gets, InUse
    <3> QED
      BY <3>1, <3>2
  <2> QED
    BY <1>4, <2>1, <2>2, <2>3 DEF UseOpt!Access
<1>8. \A i \in Ppn : rank'[i] <= Len(trace')
  BY <1>2, <1>5, <1>6, <1>7
<1>9. ASSUME NEW i \in InUse(table'), NEW p \in Vpn \ reused', table'[i].VPN = p
      PROVE  rank'[i] = Distance(p)'
  <2>1. i \in Ppn
    BY <1>9 DEF InUse
  <2>2. CASE i = k
    <3>1. p = vpn /\ page_faults' # page_faults
      BY <1>3, <1>7, <1>9, <2>2
    <3>2. rank'[i] = UseOpt!TimeUntilNextAccess
      BY <1>5, <1>7, <2>1, <2>2, <3>1
    <3>3. UseOpt!TimeUntilNextAccess = Distance(p)'
      BY <1>1, <1>2, <3>1, DistanceSet
    <3> QED
      BY <3>2, <3>3
  <2>3. CASE i # k
    <3>1. i \in InUse(table) /\ table[i].VPN = p
      BY <1>7, <1>9, <2>1, <2>3 DEF Same, InUse
    <3>2. p # vpn /\ p \in Vpn \ reused
      BY <1>3, <1>7, <1>9, <2>3, <3>1
    <3>3. UseOpt!CountedDown[i] = Distance(p)'
      BY <1>1, <1>2, <3>1, <3>2, CountedDownRight
    <3>4. rank'[i] = UseOpt!CountedDown[i]
      BY <1>5, <1>7, <2>1, <2>3
    <3> QED
      BY <3>3, <3>4
  <2> QED
    BY <2>2, <2>3
<1> QED
  BY <1>8, <1>9 DEF CountersRight

(* Among numbers with a bound there is a highest. *)
LEMMA SomeHighest ==
    ASSUME NEW number \in [Ppn -> Int], NEW bound \in Nat,
           \A i \in Ppn : number[i] <= bound
    PROVE  \E i \in Ppn : \A j \in Ppn : number[j] <= number[i]
<1> DEFINE below == [i \in Ppn |-> bound - number[i]]
<1>1. below \in [Ppn -> Nat]
  OBVIOUS
<1>2. {i \in Ppn : \A j \in Ppn : below[i] <= below[j]} # {}
  <2> HIDE DEF below
  <2> QED
    BY <1>1, SomeLowest
<1>3. PICK i \in Ppn : \A j \in Ppn : below[i] <= below[j]
  BY <1>2
<1>4. \A j \in Ppn : number[j] <= number[i]
  BY <1>3
<1> QED
  BY <1>4

LEMMA LeavesFarthest ==
    ASSUME SimInv, CountersRight, Next, algorithm = "opt",
           NEW p \in Leaving \ reused, NEW q \in Resident(table) \ reused
    PROVE  NextUse(q) <= NextUse(p)
<1>1. PICK vpn \in Vpn : vpn = trace[total_memory_accesses + 1]
  BY AccessMoves
<1>2. /\ trace' = trace /\ total_memory_accesses < Len(trace)
      /\ total_memory_accesses' = total_memory_accesses + 1
      /\ total_memory_accesses \in Nat /\ Len(trace) \in Nat
  BY AccessMoves, TraceNumbers
<1>3. PICK mode \in Modes : UseOpt!Access(mode)
  BY DEF Next, Access
<1>4. PICK left : left = UseOpt!CountedDown
  OBVIOUS
<1>5. left \in [Ppn -> Int]
  BY <1>2, <1>4, OptCounts
<1>6. PICK v \in Ppn : Replaces(vpn, v) /\ v = UseOpt!Victim(left)
  <2>1. ~UseOpt!Hit(mode)
    <3>1. ASSUME UseOpt!Hit(mode) PROVE FALSE
      <4>1. PICK k \in Ppn : Hits(vpn, k)
        BY <1>1, <1>2, <3>1, OptHit
      <4> QED
        BY <4>1, HitsEffect DEF Leaving
    <3> QED
      BY <3>1
  <2>2. ~UseOpt!Load(mode)
    <3>1. ASSUME UseOpt!Load(mode) PROVE FALSE
      <4>1. PICK k \in Ppn : Loads(vpn, {k})
        BY <1>1, <1>2, <3>1, OptLoad
      <4>2. {k} \in SUBSET Ppn
        OBVIOUS
      <4> QED
        BY <4>1, <4>2, LoadsEffect DEF Leaving
    <3> QED
      BY <3>1
  <2> QED
    BY <1>1, <1>2, <1>3, <1>4, <2>1, <2>2, OptReplace DEF UseOpt!Access
<1>7. /\ InUse(table) = Ppn /\ \A j \in Ppn : table[j].VPN # vpn
      /\ \A j \in Ppn \ {v} : Same(j)
      /\ \A j \in Ppn : table[j].VPN \in Vpn
  BY <1>6 DEF Replaces, SimInv, SimType, FramesNumbered, InUse, Frame
<1>8. p = table[v].VPN
  <2>1. PICK j \in Ppn : table[j].VPN = p
    BY <1>7 DEF Leaving, Resident
  <2>2. j # v => p \in Resident(table')
    BY <1>6, <1>7, <2>1 DEF Same, Resident, InUse
  <2> QED
    BY <2>1, <2>2 DEF Leaving
<1>9. PICK k \in Ppn : table[k].VPN = q
  BY <1>7 DEF Resident
<1>10. \A j \in Ppn : \A r \in Vpn \ reused : table[j].VPN = r =>
           left[j] = Distance(r) - 1 /\ Distance(r) \in Nat \ {0}
  BY <1>1, <1>2, <1>4, <1>7, CountedDownRight
<1>11. p \in Vpn \ reused /\ q \in Vpn \ reused
  BY <1>7, <1>8, <1>9
<1>12. /\ left[v] = Distance(p) - 1 /\ Distance(p) \in Nat \ {0}
       /\ left[k] = Distance(q) - 1 /\ Distance(q) \in Nat \ {0}
  BY <1>8, <1>9, <1>10, <1>11
<1>13. Distance(q) <= Distance(p)
  <2> DEFINE most == {i \in Ppn : left[i] > 0 /\ \A j \in Ppn : left[j] <= left[i]}
  <2>1. v = IF most = {} THEN 0 ELSE First(most)
    <3>1. UseOpt!Victim(left) = IF most = {} THEN 0 ELSE UseOpt!First(most)
      BY SameTables, Zenon DEF UseOpt!Victim
    <3> QED
      BY <1>6, <3>1, SameFirst
  <2>2. CASE most # {}
    <3>1. most \subseteq Nat
      BY PpnIsNat
    <3>2. v \in most
      <4> HIDE DEF most
      <4> QED
        BY <2>1, <2>2, <3>1, FirstIsFirst
    <3>3. left[k] <= left[v]
      BY <3>2
    <3> QED
      BY <1>12, <3>3
  <2>3. CASE most = {}
    <3>1. \A j \in Ppn : left[j] <= Len(trace)
      BY <1>2, <1>4, CountedDownBounded
    <3>2. PICK i \in Ppn : \A j \in Ppn : left[j] <= left[i]
      BY <1>2, <1>5, <3>1, SomeHighest
    <3>3. ~(left[i] > 0)
      BY <2>3, <3>2
    <3>4. left[i] \in Int /\ left[k] \in Int /\ left[k] <= left[i]
      BY <1>5, <3>2
    <3> QED
      BY <1>12, <3>3, <3>4
  <2> QED
    BY <2>2, <2>3
<1>14. /\ NextUse(p) \in Nat /\ NextUse(q) \in Nat
       /\ NextUse(p) <= Len(trace) \/ NextUse(p) = Len(trace) + 1
       /\ NextUse(q) <= Len(trace) \/ NextUse(q) = Len(trace) + 1
  BY <1>2, NextUseIs
<1> QED
  BY <1>2, <1>13, <1>14 DEF Distance

(* Among the pages that were not used since they came in, Opt evicts the   *)
(* one that is not needed for the longest time: the counters of these      *)
(* pages are right through the hits of all others.                         *)
THEOREM SimulatorFarthestInFuture == Spec => FarthestInFuture
<1>1. Init => CountersRight
  BY DEF Init, CountersRight, InUse, NewFrame
<1>2. SimInv /\ CountersRight /\ [Next]_vars => CountersRight'
  <2> SUFFICES ASSUME SimInv, CountersRight, [Next]_vars PROVE CountersRight'
    OBVIOUS
  <2>1. CASE Next
    BY <2>1, CountersRightKept
  <2>2. CASE UNCHANGED vars
    BY <2>2 DEF vars, simulator, CountersRight, InUse, Distance, NextUse
  <2> QED
    BY <2>1, <2>2
<1>3. SimInv /\ CountersRight /\ [Next]_vars
         => [algorithm = "opt" =>
               \A p \in Leaving \ reused, q \in Resident(table) \ reused :
                   NextUse(q) <= NextUse(p)]_vars
  BY LeavesFarthest
<1> QED
  BY <1>1, <1>2, <1>3, SimulatorInvariant, PTL DEF Spec, FarthestInFuture

=============================================================================

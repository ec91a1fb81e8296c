----------------------------- MODULE ClockProofs -----------------------------
(***************************************************************************)
(* Theorems about the Clock, for any number of frames, any pages and any   *)
(* length of the trace.                                                    *)
(***************************************************************************)
EXTENDS Clock, FiniteSetTheorems, WellFoundedInduction, TLAPS

-----------------------------------------------------------------------------
(* Frames and the table *)

LEMMA FirstIsFirst ==
    ASSUME NEW S, S \subseteq Ppn, S # {}
    PROVE  First(S) \in S /\ \A j \in S : First(S) <= j
<1>1. S \subseteq Nat
  BY NumFramesAssumption DEF Ppn
<1>2. PICK n \in S : \A m \in S : n <= m
  <2>1. PICK n \in S : \A m \in S : ~(<<m, n>> \in OpToRel(<, Nat))
    BY <1>1, WFMin, NatLessThanWellFounded, Zenon
  <2>2. \A m \in S : ~(m < n)
    BY <1>1, <2>1 DEF OpToRel
  <2> QED
    BY <1>1, <2>2
<1> QED
  BY <1>2 DEF First

LEMMA FrameOps ==
    ASSUME NEW f \in Frame, NEW vpn \in Vpn, NEW mode \in Modes
    PROVE  /\ Marked(Used(f, vpn), mode) \in Frame
           /\ Marked(Used(f, vpn), mode).in_use
           /\ Marked(Used(f, vpn), mode).VPN = vpn
           /\ Removed(f) \in Frame
           /\ ~Removed(f).in_use
BY DEF Frame, Marked, Used, Removed

(* The hand moves on by one, or from the last frame to the first. *)
LEMMA AdvanceInCircle ==
    ASSUME pointer \in Ppn
    PROVE  /\ Advance \in Ppn
           /\ Advance = IF pointer + 1 = NumFrames THEN 0 ELSE pointer + 1
<1>1. pointer + 1 \in 1..NumFrames
  BY NumFramesAssumption DEF Ppn
<1>2. CASE pointer + 1 = NumFrames
  BY <1>2, NumFramesAssumption DEF Advance, Ppn
<1>3. CASE pointer + 1 # NumFrames
  BY <1>1, <1>3, NumFramesAssumption DEF Advance, Ppn
<1> QED
  BY <1>2, <1>3

(* What AddedOrUpdated changes: one frame, the first that is free or has   *)
(* the page.                                                               *)
LEMMA AddedOrUpdatedChanges ==
    ASSUME NEW table \in [Ppn -> Frame], NEW vpn \in Vpn, NEW mode \in Modes,
           Usable(table, vpn) # {}
    PROVE  LET i0  == First(Usable(table, vpn))
               new == AddedOrUpdated(table, vpn, mode)
           IN  /\ i0 \in Ppn
               /\ ~table[i0].in_use \/ table[i0].VPN = vpn
               /\ \A j \in Ppn : ~table[j].in_use \/ table[j].VPN = vpn => i0 <= j
               /\ new \in [Ppn -> Frame]
               /\ new[i0].in_use /\ new[i0].VPN = vpn
               /\ new[i0] = Marked(Used(table[i0], vpn), mode)
               /\ \A j \in Ppn : j # i0 => new[j] = table[j]
<1> DEFINE i0 == First(Usable(table, vpn))
           new == AddedOrUpdated(table, vpn, mode)
<1>1. i0 \in Usable(table, vpn) /\ \A j \in Usable(table, vpn) : i0 <= j
  BY FirstIsFirst DEF Usable
<1>2. i0 \in Ppn
  BY <1>1 DEF Usable
<1>3. new = [table EXCEPT ![i0] = Marked(Used(table[i0], vpn), mode)]
  BY DEF AddedOrUpdated
<1>4. new[i0] = Marked(Used(table[i0], vpn), mode) /\ \A j \in Ppn : j # i0 => new[j] = table[j]
  BY <1>2, <1>3
<1>5. new[i0] \in Frame /\ new[i0].in_use /\ new[i0].VPN = vpn
  <2>1. table[i0] \in Frame
    BY <1>2
  <2>2. /\ Marked(Used(table[i0], vpn), mode) \in Frame
        /\ Marked(Used(table[i0], vpn), mode).in_use
        /\ Marked(Used(table[i0], vpn), mode).VPN = vpn
    BY <2>1, FrameOps, Zenon
  <2> QED
    BY <1>4, <2>2, Zenon
<1>6. new \in [Ppn -> Frame]
  BY <1>2, <1>3, <1>4, <1>5
<1> QED
  BY <1>1, <1>2, <1>4, <1>5, <1>6 DEF Usable
-----------------------------------------------------------------------------
(* The inductive invariant *)

(* Frames are put into use in the order of the table and stay in use.      *)
(* Without this a page could be put into a free frame although a later     *)
(* frame has it.                                                           *)
FilledInOrder ==
    \A i, j \in Ppn : i < j /\ list[j].in_use => list[i].in_use

(* A frame in use has a page of the trace. *)
PagesOfTrace == \A i \in Ppn : list[i].in_use => list[i].VPN \in Vpn

(* How many frames the hand has passed since it was at i. *)
Behind(i) == IF i < pointer THEN pointer - i ELSE pointer - i + NumFrames

(* The hand stays at a frame that has to be written first. *)
Stuck == index > 0 /\ ~list[pointer].reference /\ list[pointer].dirty

(* While a victim is looked for, every frame is in use and none has the    *)
(* page that is to come.                                                   *)
SearchIsNeeded ==
    pc # "next" => InUse(list) = Ppn /\ request.vpn \notin Resident(list)

(* What the search has seen.  In the first round of it the frames that the *)
(* hand has passed are not referenced, unless it is stuck; at the end of   *)
(* the round the frame at the hand is not referenced, and after the swap   *)
(* daemon it is the victim.                                                *)
SearchProgress ==
    /\ pc = "find_victim" /\ flushes = 0 =>
          Stuck \/ \A i \in Ppn : Behind(i) <= index => ~list[i].reference
    /\ pc = "flush" => ~list[pointer].reference
    /\ pc = "find_victim" /\ flushes # 0 =>
          index = 0 /\ ~list[pointer].reference /\ ~list[pointer].dirty

(* What the search has cleared.  No frame becomes referenced meanwhile and *)
(* the hand, which clears the bits, has come past every frame that it was  *)
(* at since: all of them were referenced when the search began.            *)
Cleared(i) == i \in referenced /\ ~list[i].reference

ClearedInOrder ==
    pc # "next" =>
        /\ \A i \in Ppn : list[i].reference => i \in referenced
        /\ \A i, j \in Ppn : Cleared(i) /\ Behind(j) <= Behind(i) => j \in referenced

(* A search is for a page of the trace. *)
RequestInTrace == pc # "next" => request.vpn \in Vpn

ClockInv ==
    /\ TypeOK /\ PagesDistinct /\ SearchIsNeeded /\ OneFlushSuffices
    /\ FilledInOrder /\ PagesOfTrace /\ RequestInTrace /\ SearchProgress /\ ClearedInOrder

LEMMA InitClockInv == Init => ClockInv
<1> SUFFICES ASSUME Init PROVE ClockInv
  OBVIOUS
<1>1. TypeOK
  BY NumFramesAssumption DEF Init, TypeOK, NewFrame, Frame, Ppn, Modes
<1>2. PagesDistinct /\ FilledInOrder /\ PagesOfTrace
  BY DEF Init, PagesDistinct, FilledInOrder, PagesOfTrace, InUse, NewFrame
<1>3. SearchIsNeeded /\ OneFlushSuffices /\ RequestInTrace /\ SearchProgress /\ ClearedInOrder
  BY DEF Init, SearchIsNeeded, OneFlushSuffices, RequestInTrace, SearchProgress, ClearedInOrder
<1> QED
  BY <1>1, <1>2, <1>3 DEF ClockInv

(* A page that comes into a free frame, or is found in its own. *)
LEMMA AddOrUpdateKeeps ==
    ASSUME ClockInv, NEW vpn \in Vpn, NEW mode \in Modes, AddOrUpdate(vpn, mode)
    PROVE  ClockInv'
<1> DEFINE i0 == First(Usable(list, vpn))
<1>1. list \in [Ppn -> Frame] /\ list' = AddedOrUpdated(list, vpn, mode)
  BY DEF ClockInv, TypeOK, AddOrUpdate
<1>2. /\ i0 \in Ppn
      /\ ~list[i0].in_use \/ list[i0].VPN = vpn
      /\ \A j \in Ppn : ~list[j].in_use \/ list[j].VPN = vpn => i0 <= j
      /\ list' \in [Ppn -> Frame]
      /\ list'[i0].in_use /\ list'[i0].VPN = vpn
      /\ \A j \in Ppn : j # i0 => list'[j] = list[j]
  BY <1>1, AddedOrUpdatedChanges DEF AddOrUpdate
<1> HIDE DEF i0
<1>3. TypeOK'
  BY <1>2 DEF ClockInv, TypeOK, AddOrUpdate
<1>4. \A j \in Ppn : list[j].in_use /\ list[j].VPN = vpn => j = i0
  <2> SUFFICES ASSUME NEW j \in Ppn, list[j].in_use, list[j].VPN = vpn
               PROVE  j = i0
    OBVIOUS
  <2>1. i0 <= j
    BY <1>2
  <2>2. CASE list[i0].in_use
    BY <1>2, <2>2 DEF ClockInv, PagesDistinct, InUse
  <2>3. CASE ~list[i0].in_use
    BY <1>2, <2>1, <2>3, NumFramesAssumption DEF ClockInv, FilledInOrder, Ppn
  <2> QED
    BY <2>2, <2>3
<1>5. PagesDistinct'
  BY <1>2, <1>4 DEF ClockInv, PagesDistinct, InUse
<1>6. FilledInOrder' /\ PagesOfTrace'
  <2>1. FilledInOrder'
    BY <1>2, NumFramesAssumption DEF ClockInv, FilledInOrder, Ppn
  <2>2. PagesOfTrace'
    BY <1>2 DEF ClockInv, PagesOfTrace
  <2> QED
    BY <2>1, <2>2
<1>7. /\ SearchIsNeeded' /\ OneFlushSuffices' /\ RequestInTrace' /\ SearchProgress'
      /\ ClearedInOrder'
  BY DEF ClockInv, AddOrUpdate, SearchIsNeeded, OneFlushSuffices, RequestInTrace, SearchProgress,
         ClearedInOrder
<1> QED
  BY <1>3, <1>5, <1>6, <1>7 DEF ClockInv

LEMMA PageFaultKeeps ==
    ASSUME ClockInv, NEW vpn \in Vpn, NEW mode \in Modes, PageFault(vpn, mode)
    PROVE  ClockInv'
<1>1. TypeOK' /\ RequestInTrace'
  BY NumFramesAssumption DEF ClockInv, TypeOK, PageFault, RequestInTrace, counters
<1>2. PagesDistinct' /\ FilledInOrder' /\ PagesOfTrace'
  BY DEF ClockInv, PagesDistinct, FilledInOrder, PagesOfTrace, InUse, PageFault
<1>3. \A i \in Ppn : list[i].in_use /\ list[i].VPN # vpn
  BY DEF PageFault, Usable
<1>4. SearchIsNeeded'
  BY <1>3 DEF PageFault, SearchIsNeeded, InUse, Resident
<1>5. OneFlushSuffices'
  BY DEF ClockInv, OneFlushSuffices, PageFault
<1>6. SearchProgress'
  <2>1. \A i \in Ppn : ~(Behind(i)' <= 0)
    BY NumFramesAssumption DEF PageFault, Behind, Ppn, ClockInv, TypeOK
  <2> QED
    BY <2>1 DEF PageFault, SearchProgress
<1>7. ClearedInOrder'
  BY DEF PageFault, ClearedInOrder, Cleared
<1> QED
  BY <1>1, <1>2, <1>4, <1>5, <1>6, <1>7 DEF ClockInv

-----------------------------------------------------------------------------
(* The steps of the search *)

(* A step that moves no page keeps what is said of the pages. *)
LEMMA PagesStay ==
    ASSUME ClockInv, pc # "next", pc' # "next", request' = request,
           \A i \in Ppn : list'[i].VPN = list[i].VPN /\ list'[i].in_use = list[i].in_use
    PROVE  PagesDistinct' /\ FilledInOrder' /\ PagesOfTrace' /\ SearchIsNeeded' /\ RequestInTrace'
<1>1. PagesDistinct' /\ FilledInOrder' /\ PagesOfTrace'
  BY DEF ClockInv, PagesDistinct, FilledInOrder, PagesOfTrace, InUse
<1>2. InUse(list') = InUse(list) /\ Resident(list') = Resident(list)
  BY DEF InUse, Resident
<1>3. SearchIsNeeded' /\ RequestInTrace'
  BY <1>2 DEF ClockInv, SearchIsNeeded, RequestInTrace
<1> QED
  BY <1>1, <1>3

(* A step that leaves the hand and the reference bits alone keeps what is  *)
(* said of them.                                                           *)
LEMMA BitsStay ==
    ASSUME ClockInv, pc # "next", referenced' = referenced, pointer' = pointer,
           \A i \in Ppn : list'[i].reference = list[i].reference
    PROVE  ClearedInOrder'
<1>1. \A i \in Ppn : Behind(i)' = Behind(i)
  BY DEF Behind
<1> QED
  BY <1>1 DEF ClockInv, ClearedInOrder, Cleared

LEMMA SecondChanceKeeps ==
    ASSUME ClockInv, SecondChance
    PROVE  ClockInv'
<1>1. /\ list \in [Ppn -> Frame] /\ pointer \in Ppn /\ index \in 0..NumFrames
      /\ list' = [list EXCEPT ![pointer].reference = FALSE]
      /\ pointer' = Advance /\ index' = index + 1 /\ index < NumFrames
  BY DEF ClockInv, TypeOK, SecondChance
<1>2. \A i \in Ppn : /\ list'[i].VPN = list[i].VPN /\ list'[i].in_use = list[i].in_use
                     /\ i # pointer => list'[i] = list[i]
  BY <1>1 DEF Frame
<1>3. ~list'[pointer].reference
  BY <1>1 DEF Frame
<1>4. TypeOK'
  <2>1. list' \in [Ppn -> Frame]
    BY <1>1 DEF Frame
  <2>2. pointer' \in Ppn /\ index' \in 0..NumFrames
    BY <1>1, AdvanceInCircle, NumFramesAssumption
  <2> QED
    BY <2>1, <2>2 DEF ClockInv, TypeOK, SecondChance, counters
<1>5. PagesDistinct' /\ FilledInOrder' /\ PagesOfTrace' /\ SearchIsNeeded' /\ RequestInTrace'
  BY <1>2, PagesStay DEF SecondChance
<1>6. OneFlushSuffices'
  BY DEF ClockInv, OneFlushSuffices, SecondChance
<1>7. SearchProgress'
  <2>1. pc' = "find_victim" /\ flushes' = 0
    BY DEF ClockInv, SearchProgress, OneFlushSuffices, SecondChance
  <2>2. \A i \in Ppn : Behind(i) <= index => ~list[i].reference
    BY DEF ClockInv, SearchProgress, Stuck, SecondChance, OneFlushSuffices
  <2>3. ASSUME NEW i \in Ppn, Behind(i)' <= index' PROVE ~list'[i].reference
    <3>1. CASE i = pointer
      BY <1>3, <3>1
    <3>2. CASE i # pointer
      <4>1. Behind(i) <= index
        BY <1>1, <2>3, <3>2, AdvanceInCircle, NumFramesAssumption DEF Behind, Ppn
      <4> QED
        BY <1>2, <2>2, <3>2, <4>1
    <3> QED
      BY <3>1, <3>2
  <2> QED
    BY <2>1, <2>3 DEF SearchProgress
<1>8. ClearedInOrder'
  <2>1. /\ \A i \in Ppn : list[i].reference => i \in referenced
        /\ \A i, j \in Ppn : Cleared(i) /\ Behind(j) <= Behind(i) => j \in referenced
        /\ list[pointer].reference /\ referenced' = referenced
    BY DEF ClockInv, ClearedInOrder, SecondChance
  <2>2. \A i \in Ppn : list'[i].reference => list[i].reference
    BY <1>2, <1>3
  <2>3. ASSUME NEW i \in Ppn, NEW j \in Ppn, Cleared(i)', Behind(j)' <= Behind(i)'
        PROVE  j \in referenced
    <3>1. pointer \in referenced
      BY <1>1, <2>1
    <3>2. CASE i = pointer
      <4>1. j = pointer
        BY <1>1, <2>3, <3>2, AdvanceInCircle, NumFramesAssumption DEF Behind, Ppn
      <4> QED
        BY <3>1, <4>1
    <3>3. CASE i # pointer
      <4>1. Cleared(i)
        BY <1>2, <2>1, <2>3, <3>3 DEF Cleared
      <4>2. CASE j = pointer
        BY <3>1, <4>2
      <4>3. CASE j # pointer
        <5>1. /\ pointer \in Ppn
              /\ pointer' = IF pointer + 1 = NumFrames THEN 0 ELSE pointer + 1
          BY <1>1, AdvanceInCircle
        <5>2. Behind(i) \in Int /\ Behind(i)' = Behind(i) + 1
          BY <3>3, <5>1, NumFramesAssumption DEF Behind, Ppn
        <5>3. Behind(j) \in Int /\ Behind(j)' = Behind(j) + 1
          BY <4>3, <5>1, NumFramesAssumption DEF Behind, Ppn
        <5>4. Behind(j) <= Behind(i)
          BY <2>3, <5>2, <5>3
        <5> QED
          BY <2>1, <4>1, <5>4
      <4> QED
        BY <4>2, <4>3
    <3> QED
      BY <3>2, <3>3
  <2> QED
    BY <2>1, <2>2, <2>3 DEF ClearedInOrder
<1> QED
  BY <1>4, <1>5, <1>6, <1>7, <1>8 DEF ClockInv

LEMMA SkipDirtyKeeps ==
    ASSUME ClockInv, SkipDirty
    PROVE  ClockInv'
<1>1. index \in Nat /\ index' = index + 1 /\ index' \in 0..NumFrames
  BY NumFramesAssumption DEF ClockInv, TypeOK, SkipDirty
<1>2. TypeOK'
  BY <1>1 DEF ClockInv, TypeOK, SkipDirty, counters
<1>3. PagesDistinct' /\ FilledInOrder' /\ PagesOfTrace' /\ SearchIsNeeded' /\ RequestInTrace'
  BY PagesStay DEF SkipDirty
<1>4. OneFlushSuffices'
  BY DEF ClockInv, OneFlushSuffices, SkipDirty
<1>5. SearchProgress'
  <2>1. flushes = 0
    BY DEF ClockInv, SearchProgress, SkipDirty
  <2>2. Stuck'
    BY <1>1 DEF SkipDirty, Stuck
  <2> QED
    BY <2>1, <2>2 DEF SearchProgress, SkipDirty
<1>6. ClearedInOrder'
  BY BitsStay DEF SkipDirty
<1> QED
  BY <1>2, <1>3, <1>4, <1>5, <1>6 DEF ClockInv

LEMMA NoVictimKeeps ==
    ASSUME ClockInv, NoVictim
    PROVE  ClockInv'
<1>1. TypeOK'
  BY DEF ClockInv, TypeOK, NoVictim, counters
<1>2. PagesDistinct' /\ FilledInOrder' /\ PagesOfTrace' /\ SearchIsNeeded' /\ RequestInTrace'
  BY PagesStay DEF NoVictim
<1>3. flushes = 0
  BY NumFramesAssumption DEF ClockInv, SearchProgress, NoVictim
<1>4. ~list[pointer].reference
  <2>1. pointer \in Ppn /\ Behind(pointer) <= index
    BY NumFramesAssumption DEF ClockInv, TypeOK, NoVictim, Behind, Ppn
  <2> QED
    BY <1>3, <2>1 DEF ClockInv, SearchProgress, NoVictim, Stuck
<1>5. OneFlushSuffices' /\ SearchProgress'
  BY <1>3, <1>4 DEF OneFlushSuffices, SearchProgress, NoVictim
<1>6. ClearedInOrder'
  BY BitsStay DEF NoVictim
<1> QED
  BY <1>1, <1>2, <1>5, <1>6 DEF ClockInv

(* The swap daemon.  It leaves the frame at the hand clean, and that frame *)
(* is not referenced.                                                      *)
LEMMA FlushKeeps ==
    ASSUME ClockInv, Flush
    PROVE  ClockInv'
<1> DEFINE toFlush == {i \in Ppn : list[i].dirty /\ ~list[i].reference}
<1>1. /\ list \in [Ppn -> Frame] /\ pointer \in Ppn /\ pc = "flush"
      /\ list' = [i \in Ppn |-> IF i \in toFlush THEN [list[i] EXCEPT !.dirty = FALSE]
                                                ELSE list[i]]
      /\ pc' = "find_victim" /\ index' = 0 /\ pointer' = pointer
  BY DEF ClockInv, TypeOK, Flush
<1>2. \A i \in Ppn : /\ list'[i].VPN = list[i].VPN /\ list'[i].in_use = list[i].in_use
                     /\ list'[i].reference = list[i].reference
                     /\ list'[i].dirty => list[i].reference
  BY <1>1 DEF Frame
<1>3. flushes = 0 /\ flushes' = 1
  BY <1>1 DEF ClockInv, OneFlushSuffices, Flush
<1>4. TypeOK'
  <2>1. list' \in [Ppn -> Frame]
    BY <1>1 DEF Frame
  <2>2. writes_to_disk' \in Nat
    <3>1. IsFiniteSet(Ppn)
      BY FS_Interval, NumFramesAssumption DEF Ppn
    <3>2. Cardinality(toFlush) \in Nat
      BY <3>1, FS_Subset, FS_CardinalityType
    <3> QED
      BY <3>2 DEF ClockInv, TypeOK, Flush
  <2> QED
    BY <1>1, <1>3, <2>1, <2>2, NumFramesAssumption DEF ClockInv, TypeOK, Flush
<1>5. PagesDistinct' /\ FilledInOrder' /\ PagesOfTrace' /\ SearchIsNeeded' /\ RequestInTrace'
  BY <1>1, <1>2, PagesStay DEF Flush
<1>6. OneFlushSuffices'
  BY <1>1, <1>3 DEF OneFlushSuffices
<1>7. SearchProgress'
  BY <1>1, <1>2, <1>3 DEF ClockInv, SearchProgress
<1>8. ClearedInOrder'
  BY <1>1, <1>2, BitsStay DEF Flush
<1> QED
  BY <1>4, <1>5, <1>6, <1>7, <1>8 DEF ClockInv

(* The victim's frame is the only free one, and no other has the page that *)
(* comes.                                                                  *)
LEMMA EvictsAtHand ==
    ASSUME ClockInv, Evict
    PROVE  /\ pointer \in Ppn /\ request.vpn \in Vpn
           /\ \A j \in Ppn : list[j].in_use /\ list[j].VPN # request.vpn
           /\ list' \in [Ppn -> Frame]
           /\ list'[pointer].in_use /\ list'[pointer].VPN = request.vpn
           /\ \A j \in Ppn : j # pointer => list'[j] = list[j]
<1> DEFINE removed == [list EXCEPT ![pointer] = Removed(list[pointer])]
           i0      == First(Usable(removed, request.vpn))
<1>1. /\ list \in [Ppn -> Frame] /\ pointer \in Ppn
      /\ request.vpn \in Vpn /\ request.mode \in Modes
      /\ list' = AddedOrUpdated(removed, request.vpn, request.mode)
  BY DEF ClockInv, TypeOK, RequestInTrace, Evict
<1>2. /\ removed \in [Ppn -> Frame] /\ ~removed[pointer].in_use
      /\ \A j \in Ppn : j # pointer => removed[j] = list[j]
  <2>1. list[pointer] \in Frame
    BY <1>1
  <2>2. Removed(list[pointer]) \in Frame /\ ~Removed(list[pointer]).in_use
    BY <2>1 DEF Removed, Frame
  <2> QED
    BY <1>1, <2>2
<1>3. \A j \in Ppn : list[j].in_use /\ list[j].VPN # request.vpn
  BY DEF ClockInv, SearchIsNeeded, Evict, InUse, Resident
<1>4. Usable(removed, request.vpn) = {pointer}
  BY <1>1, <1>2, <1>3 DEF Usable
<1> HIDE DEF removed
<1>5. /\ i0 \in Ppn
      /\ ~removed[i0].in_use \/ removed[i0].VPN = request.vpn
      /\ list' \in [Ppn -> Frame]
      /\ list'[i0].in_use /\ list'[i0].VPN = request.vpn
      /\ \A j \in Ppn : j # i0 => list'[j] = removed[j]
  <2>1. Usable(removed, request.vpn) # {}
    BY <1>4
  <2> QED
    BY <1>1, <1>2, <2>1, AddedOrUpdatedChanges
<1>6. i0 = pointer
  BY <1>2, <1>3, <1>5
<1> HIDE DEF i0
<1>7. \A j \in Ppn : j # pointer => list'[j] = list[j]
  BY <1>2, <1>5, <1>6
<1> QED
  BY <1>1, <1>3, <1>5, <1>6, <1>7

LEMMA EvictKeeps ==
    ASSUME ClockInv, Evict
    PROVE  ClockInv'
<1>1. /\ pointer \in Ppn /\ request.vpn \in Vpn
      /\ \A j \in Ppn : list[j].in_use /\ list[j].VPN # request.vpn
      /\ list' \in [Ppn -> Frame]
      /\ list'[pointer].in_use /\ list'[pointer].VPN = request.vpn
      /\ \A j \in Ppn : j # pointer => list'[j] = list[j]
  BY EvictsAtHand
<1>2. TypeOK'
  <2>1. /\ pc' = "next" /\ total_memory_accesses' = total_memory_accesses + 1
        /\ UNCHANGED <<pointer, index, request, referenced, flushes, page_faults, writes_to_disk>>
    BY DEF Evict
  <2> QED
    BY <1>1, <2>1 DEF ClockInv, TypeOK
<1>3. PagesDistinct'
  BY <1>1 DEF ClockInv, PagesDistinct, InUse
<1>4. FilledInOrder' /\ PagesOfTrace'
  BY <1>1 DEF ClockInv, FilledInOrder, PagesOfTrace
<1>5. /\ SearchIsNeeded' /\ OneFlushSuffices' /\ RequestInTrace' /\ SearchProgress'
      /\ ClearedInOrder'
  BY DEF ClockInv, Evict, SearchIsNeeded, OneFlushSuffices, RequestInTrace, SearchProgress,
         ClearedInOrder
<1> QED
  BY <1>2, <1>3, <1>4, <1>5 DEF ClockInv

-----------------------------------------------------------------------------
(* Theorems *)

(* The conjunction is an invariant of the Clock: pages sit in one frame,   *)
(* frames fill in order, and the search for a victim makes progress.       *)
THEOREM ClockInvariant == Spec => []ClockInv
<1>1. ClockInv /\ [Next]_vars => ClockInv'
  <2> SUFFICES ASSUME ClockInv, [Next]_vars PROVE ClockInv'
    OBVIOUS
  <2>1. ASSUME NEW vpn \in Vpn, NEW mode \in Modes, AddOrUpdate(vpn, mode) PROVE ClockInv'
    BY <2>1, AddOrUpdateKeeps
  <2>2. ASSUME NEW vpn \in Vpn, NEW mode \in Modes, PageFault(vpn, mode) PROVE ClockInv'
    BY <2>2, PageFaultKeeps
  <2>3. CASE SecondChance
    BY <2>3, SecondChanceKeeps
  <2>4. CASE SkipDirty
    BY <2>4, SkipDirtyKeeps
  <2>5. CASE Evict
    BY <2>5, EvictKeeps
  <2>6. CASE NoVictim
    BY <2>6, NoVictimKeeps
  <2>7. CASE Flush
    BY <2>7, FlushKeeps
  <2>8. CASE UNCHANGED vars
    BY <2>8 DEF vars, counters, ClockInv, TypeOK, PagesDistinct, SearchIsNeeded, OneFlushSuffices,
                FilledInOrder, PagesOfTrace, RequestInTrace, SearchProgress, ClearedInOrder, Cleared,
                Stuck, Behind, InUse, Resident
  <2> QED
    BY <2>1, <2>2, <2>3, <2>4, <2>5, <2>6, <2>7, <2>8 DEF Next, NextAddress, FindVictim
<1> QED
  BY InitClockInv, <1>1, PTL DEF Spec

(* Every variable keeps its type; the hand stays on the circle. *)
THEOREM ClockType == Spec => []TypeOK
<1>1. ClockInv => TypeOK
  BY DEF ClockInv
<1> QED
  BY ClockInvariant, <1>1, PTL

(* add_or_update_successful never puts a page into a second frame. *)
THEOREM ClockPagesDistinct == Spec => []PagesDistinct
<1>1. ClockInv => PagesDistinct
  BY DEF ClockInv
<1> QED
  BY ClockInvariant, <1>1, PTL

(* The second chance: a page that was referenced when the search for a     *)
(* victim began is the victim only if every page was referenced then.      *)
THEOREM ClockSecondChance == Spec => SecondChanceKept
<1>1. ClockInv /\ [Next]_vars =>
         [pc # "next" => \A i \in referenced : list'[i].VPN # list[i].VPN => referenced = Ppn]_vars
  <2> SUFFICES ASSUME ClockInv, Next, pc # "next",
                      NEW i \in referenced, list'[i].VPN # list[i].VPN
               PROVE  referenced = Ppn
    OBVIOUS
  <2>1. i \in Ppn /\ referenced \subseteq Ppn /\ list \in [Ppn -> Frame] /\ pointer \in Ppn
    BY DEF ClockInv, TypeOK
  <2>2. ~SecondChance /\ ~SkipDirty /\ ~NoVictim /\ ~Flush
    BY <2>1 DEF SecondChance, SkipDirty, NoVictim, Flush, Frame
  <2>3. Evict
    BY <2>2 DEF Next, NextAddress, FindVictim, AddOrUpdate, PageFault
  <2>4. i = pointer
    BY <2>1, <2>3, EvictsAtHand
  <2>5. Cleared(pointer)
    BY <2>3, <2>4 DEF Cleared, Evict
  <2>6. \A j \in Ppn : Behind(j) <= Behind(pointer)
    BY <2>1, NumFramesAssumption DEF Behind, Ppn
  <2> QED
    BY <2>1, <2>5, <2>6 DEF ClockInv, ClearedInOrder
<1> QED
  BY ClockInvariant, <1>1, PTL DEF Spec, SecondChanceKept

(* After one run of the swap daemon find_victim does not fail again, as    *)
(* the comment in clock.py has it, whatever the number of frames.          *)
THEOREM ClockOneFlushSuffices == Spec => []OneFlushSuffices
<1>1. ClockInv => OneFlushSuffices
  BY DEF ClockInv
<1> QED
  BY ClockInvariant, <1>1, PTL

-----------------------------------------------------------------------------
(* The promise of a page replacement algorithm *)

LEMMA FramesFinite ==
    /\ IsFiniteSet(Ppn) /\ Cardinality(Ppn) = NumFrames
    /\ \A S \in SUBSET Ppn : /\ IsFiniteSet(S) /\ Cardinality(S) \in Nat
                             /\ S # Ppn => Cardinality(S) < NumFrames
<1>1. IsFiniteSet(Ppn) /\ Cardinality(Ppn) = NumFrames
  BY FS_Interval, NumFramesAssumption DEF Ppn
<1>2. ASSUME NEW S \in SUBSET Ppn
      PROVE  /\ IsFiniteSet(S) /\ Cardinality(S) \in Nat
             /\ S # Ppn => Cardinality(S) < NumFrames
  <2>1. IsFiniteSet(S) /\ Cardinality(S) <= NumFrames /\ (Cardinality(S) = NumFrames => S = Ppn)
    BY <1>1, FS_Subset
  <2>2. Cardinality(S) \in Nat
    BY <2>1, FS_CardinalityType
  <2> QED
    BY <2>1, <2>2, NumFramesAssumption
<1> QED
  BY <1>1, <1>2

(* What the abstract specification counts with. *)
LEMMA SameCardinality == \A S : Memory!Cardinality(S) = Cardinality(S)
BY DEF Memory!Cardinality, Cardinality

(* Frames with different pages are as many as their pages. *)
LEMMA PagesCounted ==
    ASSUME NEW table, NEW S \in SUBSET Ppn,
           \A i, j \in S : table[i].VPN = table[j].VPN => i = j
    PROVE  Cardinality({table[i].VPN : i \in S}) = Cardinality(S)
<1> DEFINE T == {table[i].VPN : i \in S}
           f == [i \in S |-> table[i].VPN]
<1>1. f \in Bijection(S, T)
  BY DEF Bijection, Injection, Surjection, IsInjective
<1>2. ExistsBijection(S, T)
  BY <1>1 DEF ExistsBijection
<1>3. IsFiniteSet(S)
  BY FramesFinite
<1> QED
  BY <1>2, <1>3, FS_Bijection

(* A page comes into a frame that is free or has it already. *)
LEMMA PageComes ==
    ASSUME NEW table \in [Ppn -> Frame], NEW new \in [Ppn -> Frame], NEW i0 \in Ppn,
           NEW vpn \in Vpn, NEW mode \in Modes,
           new[i0] = Marked(Used(table[i0], vpn), mode),
           \A j \in Ppn : j # i0 => new[j] = table[j],
           ~table[i0].in_use \/ table[i0].VPN = vpn
    PROVE  \E written \in {{}, {vpn}} : /\ Resident(new) = Resident(table) \union {vpn}
                                        /\ Unsaved(new) = Unsaved(table) \union written
<1>1. table[i0] \in Frame
  OBVIOUS
<1>2. /\ new[i0].in_use /\ new[i0].VPN = vpn
      /\ table[i0].dirty => new[i0].dirty
      /\ mode = "R" => new[i0].dirty = table[i0].dirty
  BY <1>1 DEF Marked, Used, Frame, Modes
<1>3. InUse(new) = InUse(table) \union {i0}
  BY <1>2 DEF InUse
<1>4. Resident(new) = Resident(table) \union {vpn}
  BY <1>2, <1>3 DEF Resident, InUse
<1> DEFINE written == IF new[i0].dirty THEN {vpn} ELSE {}
<1>5. Unsaved(new) = Unsaved(table) \union written
  <2>1. ASSUME NEW p \in Unsaved(new) PROVE p \in Unsaved(table) \union written
    <3>1. PICK i \in Ppn : new[i].in_use /\ new[i].dirty /\ new[i].VPN = p
      BY <2>1 DEF Unsaved, InUse
    <3>2. i # i0 => p \in Unsaved(table)
      BY <3>1 DEF Unsaved, InUse
    <3> QED
      BY <3>1, <3>2, <1>2
  <2>2. ASSUME NEW p \in Unsaved(table) PROVE p \in Unsaved(new)
    <3>1. PICK i \in Ppn : table[i].in_use /\ table[i].dirty /\ table[i].VPN = p
      BY <2>2 DEF Unsaved, InUse
    <3>2. new[i].in_use /\ new[i].dirty /\ new[i].VPN = p
      BY <3>1, <1>2
    <3> QED
      BY <3>2 DEF Unsaved, InUse
  <2>3. written \subseteq Unsaved(new)
    BY <1>2 DEF Unsaved, InUse
  <2> QED
    BY <2>1, <2>2, <2>3
<1> QED
  BY <1>4, <1>5

LEMMA AddOrUpdatePromised ==
    ASSUME ClockInv, NEW vpn \in Vpn, NEW mode \in Modes, AddOrUpdate(vpn, mode)
    PROVE  Memory!Next
<1> DEFINE i0 == First(Usable(list, vpn))
<1>1. /\ list \in [Ppn -> Frame] /\ list' = AddedOrUpdated(list, vpn, mode)
      /\ pc = "next" /\ pc' = "next" /\ Usable(list, vpn) # {}
      /\ UNCHANGED <<page_faults, writes_to_disk>> /\ page_faults \in Nat
      /\ (page_faults - (IF pc = "next" THEN 0 ELSE 1))'
            = page_faults - (IF pc = "next" THEN 0 ELSE 1)
  BY DEF ClockInv, TypeOK, AddOrUpdate
<1>2. /\ i0 \in Ppn
      /\ ~list[i0].in_use \/ list[i0].VPN = vpn
      /\ \A j \in Ppn : ~list[j].in_use \/ list[j].VPN = vpn => i0 <= j
      /\ list' \in [Ppn -> Frame]
      /\ list'[i0] = Marked(Used(list[i0], vpn), mode)
      /\ \A j \in Ppn : j # i0 => list'[j] = list[j]
  BY <1>1, AddedOrUpdatedChanges
<1> HIDE DEF i0
<1>3. PICK written \in {{}, {vpn}} : /\ Resident(list') = Resident(list) \union {vpn}
                                     /\ Unsaved(list') = Unsaved(list) \union written
  BY <1>1, <1>2, PageComes
<1>4. CASE list[i0].in_use
  <2>1. vpn \in Resident(list)
    BY <1>2, <1>4 DEF Resident, InUse
  <2>2. Resident(list') = Resident(list)
    BY <1>3, <2>1
  <2>3. Memory!Hit(vpn, written)
    BY <1>1, <1>3, <2>1, <2>2 DEF Memory!Hit
  <2> QED
    BY <2>3 DEF Memory!Next
<1>5. CASE ~list[i0].in_use
  <2>1. vpn \notin Resident(list)
    <3>1. ASSUME NEW j \in Ppn, list[j].in_use, list[j].VPN = vpn PROVE FALSE
      <4>1. i0 <= j /\ i0 # j
        BY <1>2, <1>5, <3>1
      <4>2. i0 < j
        BY <1>2, <4>1, NumFramesAssumption DEF Ppn
      <4> QED
        BY <1>2, <1>5, <3>1, <4>2 DEF ClockInv, FilledInOrder
    <3> QED
      BY <3>1 DEF Resident, InUse
  <2>2. Cardinality(Resident(list)) < NumFrames
    <3>1. InUse(list) \in SUBSET Ppn /\ InUse(list) # Ppn
      BY <1>2, <1>5 DEF InUse
    <3>2. Cardinality(InUse(list)) < NumFrames
      BY <3>1, FramesFinite
    <3>3. \A i, j \in InUse(list) : list[i].VPN = list[j].VPN => i = j
      BY DEF ClockInv, PagesDistinct
    <3> QED
      BY <3>1, <3>2, <3>3, PagesCounted DEF Resident
  <2>3. Memory!Load(vpn, written)
    BY <1>1, <1>3, <2>1, <2>2, SameCardinality DEF Memory!Load
  <2> QED
    BY <2>3 DEF Memory!Next
<1> QED
  BY <1>4, <1>5

LEMMA EvictPromised ==
    ASSUME ClockInv, Evict
    PROVE  Memory!Next
<1> DEFINE removed == [list EXCEPT ![pointer] = Removed(list[pointer])]
           i0      == First(Usable(removed, request.vpn))
           victim  == list[pointer].VPN
           vpn     == request.vpn
<1>1. /\ list \in [Ppn -> Frame] /\ pointer \in Ppn
      /\ vpn \in Vpn /\ request.mode \in Modes
      /\ list' = AddedOrUpdated(removed, request.vpn, request.mode)
      /\ pc = "find_victim" /\ pc' = "next" /\ UNCHANGED <<page_faults, writes_to_disk>>
      /\ page_faults \in Nat /\ writes_to_disk \in Nat
      /\ ~list[pointer].dirty
      /\ (page_faults - (IF pc = "next" THEN 0 ELSE 1))'
            = page_faults - (IF pc = "next" THEN 0 ELSE 1) + 1
  BY DEF ClockInv, TypeOK, RequestInTrace, Evict
<1>2. InUse(list) = Ppn /\ vpn \notin Resident(list)
  BY <1>1 DEF ClockInv, SearchIsNeeded
<1>3. \A j \in Ppn : list[j].in_use /\ list[j].VPN # vpn
  BY <1>2 DEF InUse, Resident
<1>4. \A i, j \in Ppn : list[i].VPN = list[j].VPN => i = j
  BY <1>2 DEF ClockInv, PagesDistinct
<1>5. /\ removed \in [Ppn -> Frame] /\ ~removed[pointer].in_use
      /\ \A j \in Ppn : j # pointer => removed[j] = list[j]
  <2>1. list[pointer] \in Frame
    BY <1>1
  <2>2. Removed(list[pointer]) \in Frame /\ ~Removed(list[pointer]).in_use
    BY <2>1 DEF Removed, Frame
  <2> QED
    BY <1>1, <2>2
<1> HIDE DEF removed
<1>6. Resident(removed) = Resident(list) \ {victim}
  <2>1. InUse(removed) = Ppn \ {pointer}
    BY <1>1, <1>3, <1>5 DEF InUse
  <2>2. Resident(removed) = {list[i].VPN : i \in Ppn \ {pointer}}
    BY <1>5, <2>1 DEF Resident
  <2>3. Resident(list) = {list[i].VPN : i \in Ppn}
    BY <1>2 DEF Resident
  <2> QED
    BY <1>1, <1>4, <2>2, <2>3
<1>7. Unsaved(removed) = Unsaved(list) \ {victim} /\ victim \notin Unsaved(list)
  <2>1. Unsaved(list) = {list[i].VPN : i \in {j \in Ppn : list[j].dirty}}
    BY <1>2 DEF Unsaved
  <2>2. victim \notin Unsaved(list)
    BY <1>1, <1>4, <2>1
  <2>3. {j \in InUse(removed) : removed[j].dirty} = {j \in Ppn : list[j].dirty}
    BY <1>1, <1>3, <1>5 DEF InUse
  <2>4. Unsaved(removed) = {list[i].VPN : i \in {j \in Ppn : list[j].dirty}}
    <3>1. \A i \in {j \in Ppn : list[j].dirty} : removed[i].VPN = list[i].VPN
      BY <1>1, <1>5
    <3> QED
      BY <2>3, <3>1 DEF Unsaved
  <2> QED
    BY <2>1, <2>2, <2>4
<1>8. /\ i0 \in Ppn
      /\ ~removed[i0].in_use \/ removed[i0].VPN = vpn
      /\ list' \in [Ppn -> Frame]
      /\ list'[i0] = Marked(Used(removed[i0], vpn), request.mode)
      /\ \A j \in Ppn : j # i0 => list'[j] = removed[j]
  <2>1. Usable(removed, vpn) # {}
    BY <1>1, <1>5 DEF Usable
  <2> QED
    BY <1>1, <1>5, <2>1, AddedOrUpdatedChanges
<1> HIDE DEF i0
<1>9. PICK written \in {{}, {vpn}} : /\ Resident(list') = Resident(removed) \union {vpn}
                                     /\ Unsaved(list') = Unsaved(removed) \union written
  BY <1>1, <1>5, <1>8, PageComes
<1>10. Cardinality(Resident(list)) = NumFrames
  BY <1>2, <1>4, FramesFinite, PagesCounted DEF Resident
<1>11. victim \in Resident(list) /\ victim \in Vpn
  BY <1>1, <1>2, <1>3 DEF Resident, ClockInv, PagesOfTrace
<1>12. Memory!Replace(victim, vpn, written)
  <2>1. /\ Resident(list') = (Resident(list) \ {victim}) \union {vpn}
        /\ Unsaved(list') = (Unsaved(list) \ {victim}) \union written
    BY <1>6, <1>7, <1>9
  <2>2. writes_to_disk' = writes_to_disk + (IF victim \in Unsaved(list) THEN 1 ELSE 0)
    BY <1>1, <1>7
  <2> QED
    BY <1>1, <1>2, <1>10, <1>11, <2>1, <2>2, SameCardinality DEF Memory!Replace
<1>13. vpn \in Vpn /\ victim \in Vpn /\ written \in {{}, {vpn}}
  BY <1>1, <1>11
<1> HIDE DEF vpn, victim
<1> QED
  BY <1>12, <1>13 DEF Memory!Next

(* The swap daemon writes the pages of the frames that it cleans. *)
LEMMA FlushPromised ==
    ASSUME ClockInv, Flush
    PROVE  Memory!Next
<1> DEFINE toFlush == {i \in Ppn : list[i].dirty /\ ~list[i].reference}
           dirty   == {i \in Ppn : list[i].dirty}
           pages   == {list[i].VPN : i \in toFlush}
<1>1. /\ list \in [Ppn -> Frame] /\ pc = "flush" /\ pc' = "find_victim"
      /\ list' = [i \in Ppn |-> IF i \in toFlush THEN [list[i] EXCEPT !.dirty = FALSE]
                                                ELSE list[i]]
      /\ writes_to_disk' = writes_to_disk + Cardinality(toFlush)
      /\ page_faults' = page_faults
  BY DEF ClockInv, TypeOK, Flush
<1>2. InUse(list) = Ppn
  BY <1>1 DEF ClockInv, SearchIsNeeded
<1>3. \A i, j \in Ppn : list[i].VPN = list[j].VPN => i = j
  BY <1>2 DEF ClockInv, PagesDistinct
<1>4. \A i \in Ppn : /\ list'[i].VPN = list[i].VPN /\ list'[i].in_use = list[i].in_use
                     /\ list'[i].dirty <=> list[i].dirty /\ i \notin toFlush
  BY <1>1 DEF Frame
<1>5. Resident(list') = Resident(list)
  BY <1>4 DEF Resident, InUse
<1>6. Unsaved(list) = {list[i].VPN : i \in dirty}
  BY <1>2 DEF Unsaved
<1>7. Unsaved(list') = {list[i].VPN : i \in dirty \ toFlush}
  <2>1. {j \in InUse(list') : list'[j].dirty} = dirty \ toFlush
    BY <1>2, <1>4 DEF InUse
  <2> QED
    BY <1>4, <2>1 DEF Unsaved
<1>8. pages \subseteq Unsaved(list) /\ Unsaved(list') = Unsaved(list) \ pages
  BY <1>3, <1>6, <1>7
<1>9. Cardinality(pages) = Cardinality(toFlush)
  <2>1. toFlush \in SUBSET Ppn
    OBVIOUS
  <2> QED
    BY <1>3, <2>1, PagesCounted
<1>10. pages \in SUBSET Vpn
  BY <1>2 DEF ClockInv, PagesOfTrace, InUse
<1> HIDE DEF pages
<1>11. (page_faults - (IF pc = "next" THEN 0 ELSE 1))'
            = page_faults - (IF pc = "next" THEN 0 ELSE 1)
  BY <1>1
<1>12. Memory!WriteBack(pages)
  BY <1>1, <1>5, <1>8, <1>9, <1>11, SameCardinality DEF Memory!WriteBack
<1> QED
  BY <1>10, <1>12 DEF Memory!Next

(* The other steps change nothing of what is promised; the fault that      *)
(* begins a search is counted at its end.                                  *)
LEMMA SearchUnseen ==
    ASSUME ClockInv,
           (\E vpn \in Vpn, mode \in Modes : PageFault(vpn, mode))
              \/ SecondChance \/ SkipDirty \/ NoVictim \/ UNCHANGED vars
    PROVE  UNCHANGED Memory!vars
<1>1. Resident(list') = Resident(list) /\ Unsaved(list') = Unsaved(list)
  <2>1. CASE SecondChance
    <3>1. \A i \in Ppn : /\ list'[i].VPN = list[i].VPN /\ list'[i].in_use = list[i].in_use
                         /\ list'[i].dirty = list[i].dirty
      BY <2>1 DEF SecondChance, ClockInv, TypeOK, Frame
    <3>2. InUse(list') = InUse(list)
      BY <3>1 DEF InUse
    <3>3. {j \in InUse(list') : list'[j].dirty} = {j \in InUse(list) : list[j].dirty}
      BY <3>1, <3>2 DEF InUse
    <3> QED
      BY <3>1, <3>2, <3>3 DEF Resident, Unsaved, InUse
  <2>2. CASE ~SecondChance
    <3>1. list' = list
      BY <2>2 DEF PageFault, SkipDirty, NoVictim, vars
    <3> QED
      BY <3>1
  <2> QED
    BY <2>1, <2>2
<1>2. /\ writes_to_disk' = writes_to_disk
      /\ (page_faults - (IF pc = "next" THEN 0 ELSE 1))'
            = page_faults - (IF pc = "next" THEN 0 ELSE 1)
  BY DEF PageFault, SecondChance, SkipDirty, NoVictim, vars, counters, ClockInv, TypeOK
<1> QED
  BY <1>1, <1>2 DEF Memory!vars

(* The Clock implements the abstract page replacement algorithm for any    *)
(* number of frames: no page with changes leaves memory without a counted  *)
(* write, and one fault is counted for each page that had to make room.    *)
THEOREM ClockImplementsPagedMemory == Spec => ImplementsPagedMemory
<1>1. Init => Memory!Init
  <2> SUFFICES ASSUME Init PROVE Memory!Init
    OBVIOUS
  <2>1. InUse(list) = {}
    BY DEF Init, InUse, NewFrame
  <2>2. Resident(list) = {} /\ Unsaved(list) = {}
    BY <2>1 DEF Resident, Unsaved
  <2> QED
    BY <2>2 DEF Init, Memory!Init
<1>2. ClockInv /\ [Next]_vars => [Memory!Next]_(Memory!vars)
  <2> SUFFICES ASSUME ClockInv, [Next]_vars PROVE Memory!Next \/ UNCHANGED Memory!vars
    OBVIOUS
  <2>1. ASSUME NEW vpn \in Vpn, NEW mode \in Modes, AddOrUpdate(vpn, mode) PROVE Memory!Next
    BY <2>1, AddOrUpdatePromised
  <2>2. CASE Evict
    BY <2>2, EvictPromised
  <2>3. CASE Flush
    BY <2>3, FlushPromised
  <2>4. CASE \/ \E vpn \in Vpn, mode \in Modes : PageFault(vpn, mode)
             \/ SecondChance \/ SkipDirty \/ NoVictim \/ UNCHANGED vars
    BY <2>4, SearchUnseen
  <2> QED
    BY <2>1, <2>2, <2>3, <2>4 DEF Next, NextAddress, FindVictim
<1> QED
  BY <1>1, <1>2, ClockInvariant, PTL DEF Spec, ImplementsPagedMemory, Memory!Spec

=============================================================================

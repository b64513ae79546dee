------------------------- MODULE SettingsStoreProofs -------------------------
(***************************************************************************)
(* Proofs about SettingsStore for every record length, sector size and     *)
(* set of versions.                                                        *)
(*                                                                         *)
(* The record read_settings_from_flash accepts depends on the pages only,  *)
(* and a step of write_in_non_volatile changes one sector or one page: to  *)
(* know what the read gives after the step we must know what the pages    *)
(* before it hold.  WriteProgress says it: while a write is in progress    *)
(* the sectors already erased hold erased pages, except the pages already  *)
(* programmed, which hold the version being written.  It follows that      *)
(* from the first erase to the last program the read rejects the record   *)
(* (page 1 is erased, or the last page is), and that the last program      *)
(* commits a whole record.  FlaggedWhole says that an accepted record is   *)
(* always one version: a flag word is only written by the program of the  *)
(* first page, after every sector was erased.                              *)
(*                                                                         *)
(* Both need a torn erase or program to leave erased pages only           *)
(* (TornKeepsFlag = FALSE); the run settings_store_torn shows the store    *)
(* fails otherwise.                                                        *)
(***************************************************************************)
EXTENDS SettingsStore, TLAPS

\* The last page of the sectors a write erases.
RegionEnd == Sectors * SegmentSize

\* The pages a write in progress has erased, and those it has programmed.
ErasedUpTo(stp) ==
  IF stp - 1 <= Sectors THEN (stp - 1) * SegmentSize ELSE RegionEnd
ProgrammedUpTo(stp) == IF stp - 1 <= Sectors THEN 0 ELSE stp - 1 - Sectors

\* The pages pg of a write of w that has reached step stp.
WP(pg, stp, w) ==
  stp # 0 =>
    \A p \in 1..Pages :
      /\ p <= ProgrammedUpTo(stp) => pg[p] = w
      /\ ProgrammedUpTo(stp) < p /\ p <= ErasedUpTo(stp) => pg[p] = "erased"

WriteProgress == WP(page, step, writing)

\* A write runs only on a booted node.
UpIdle == ~up => step = 0

\* A record with both flag words is one version in every page.
FlaggedWhole ==
  HasFlag(page[1]) /\ HasFlag(page[Pages]) =>
    \E v \in Versions : \A p \in 1..Pages : page[p] = v

\* The node runs with the record it read, or the defaults.
SettingsWhole == settings \in Versions \cup {None}

IInv == TypeOK /\ UpIdle /\ WriteProgress /\ FlaggedWhole /\ SettingsWhole

-----------------------------------------------------------------------------
(* The sizes of a write.                                                   *)

\* number_of_segments rounds up: the sectors erased cover the record.
LEMMA SizeFacts ==
  /\ Pages = RecordLen
  /\ Pages \in Nat \ {0}
  /\ Sectors \in Nat \ {0}
  /\ RegionEnd \in Nat
  /\ Pages <= RegionEnd
  /\ Region = 1..RegionEnd
  /\ LastStep = Sectors + Pages
  <1>1. Pages = RecordLen
    BY StoreAssumption DEF Pages, NumberOfSegments
  <1>2. /\ Sectors \in Nat
        /\ RecordLen <= Sectors * SegmentSize
    BY StoreAssumption DEF Sectors, NumberOfSegments
  <1>3. Sectors # 0
    BY <1>2, StoreAssumption
  <1>4. QED
    BY <1>1, <1>2, <1>3, StoreAssumption DEF Region, LastStep, Sectors,
       RegionEnd

\* Each sector erased lies in the region, and erasing sector s after the
\* ones before it leaves the first s * SegmentSize pages erased.
LEMMA SectorFacts ==
  ASSUME NEW s \in 1..Sectors
  PROVE  /\ SectorPages(s) \subseteq Region
         /\ \A p \in Nat : p <= s * SegmentSize =>
              p <= (s - 1) * SegmentSize \/ p \in SectorPages(s)
         /\ 1 \in SectorPages(s) <=> s = 1
  <1>1. /\ s * SegmentSize = (s - 1) * SegmentSize + SegmentSize
        /\ (s - 1) * SegmentSize \in Nat
        /\ s * SegmentSize <= RegionEnd
    BY SizeFacts, StoreAssumption DEF RegionEnd
  <1>2. QED
    BY <1>1, SizeFacts, StoreAssumption DEF SectorPages

-----------------------------------------------------------------------------
(* Type correctness.                                                       *)

LEMMA ReadSettingsType ==
  ASSUME NEW pg
  PROVE  ReadSettings(pg) \in Versions \cup {None, Mixed}
  BY DEF ReadSettings

LEMMA InitTypeOK == Init => TypeOK
  <1> SUFFICES ASSUME Init PROVE TypeOK
    OBVIOUS
  <1>1. page \in [Region -> PageStates]
    BY DEF Init, PageStates
  <1>2. 0 \in 0..LastStep /\ 0 \in 0..MaxDowns
    BY SizeFacts, StoreAssumption
  <1>3. QED
    BY <1>1, <1>2, StoreAssumption DEF Init, TypeOK

LEMMA NextTypeOK == TypeOK /\ [Next]_vars => TypeOK'
  <1> SUFFICES ASSUME TypeOK, [Next]_vars PROVE TypeOK'
    OBVIOUS
  <1>0. /\ up \in BOOLEAN
        /\ step \in Nat /\ step <= Sectors + Pages
    BY SizeFacts DEF TypeOK, LastStep
  <1>1. CASE WriteStep
    <2>1. CASE step <= Sectors
      <3>1. step \in 1..Sectors
        BY <1>1, <1>0, <2>1 DEF WriteStep
      <3>2. page' \in [Region -> PageStates]
        BY <1>1, <2>1 DEF WriteStep, TypeOK, PageStates
      <3>3. QED
        BY <1>0, <1>1, <3>2, SizeFacts DEF WriteStep, TypeOK, LastStep
    <2>2. CASE ~(step <= Sectors)
      <3>1. step - Sectors \in Region
        <4>1. step - Sectors \in 1..Pages
          BY <1>0, <2>2, SizeFacts
        <4>2. QED
          BY <4>1, SizeFacts
      <3>2. Programmed(page[step - Sectors], writing) \in PageStates
        BY <3>1 DEF Programmed, PageStates, TypeOK
      <3>3. page' \in [Region -> PageStates]
        BY <1>1, <2>2, <3>2 DEF WriteStep, TypeOK
      <3>4. QED
        BY <1>0, <1>1, <3>3, SizeFacts DEF WriteStep, TypeOK, LastStep
    <2>3. QED
      BY <2>1, <2>2
  <1>2. CASE Boot
    <2>1. ReadSettings(page) \in Versions \cup {None, Mixed}
      BY ReadSettingsType
    <2>2. 1 \in 0..LastStep
      BY SizeFacts
    <2>3. QED
      BY <1>2, <2>1, <2>2, StoreAssumption DEF Boot, StartWrite, TypeOK
  <1>3. CASE \E v \in Versions : Save(v)
    <2>1. 1 \in 0..LastStep
      BY SizeFacts
    <2>2. QED
      BY <1>3, <2>1 DEF Save, StartWrite, TypeOK
  <1>4. CASE Down
    <2>1. TornStates \subseteq PageStates
      BY StoreAssumption DEF TornStates, PageStates
    <2>2. PICK t \in TornStates :
            page' = IF step = 0 THEN page
                    ELSE IF step <= Sectors
                    THEN [p \in Region |-> IF p \in SectorPages(step) THEN t
                                                                    ELSE page[p]]
                    ELSE [page EXCEPT ![step - Sectors] = t]
      BY <1>4 DEF Down
    <2>3. page' \in [Region -> PageStates]
      BY <2>1, <2>2 DEF TypeOK
    <2>4. 0 \in 0..LastStep /\ downs + 1 \in 0..MaxDowns
      BY <1>4, SizeFacts, StoreAssumption DEF Down, TypeOK
    <2>5. QED
      BY <1>4, <2>3, <2>4 DEF Down, TypeOK
  <1>5. CASE UNCHANGED vars
    BY <1>5 DEF vars, TypeOK
  <1>6. QED
    BY <1>1, <1>2, <1>3, <1>4, <1>5 DEF Next

\* The flash pages, write_in_non_volatile's progress and the RAM settings
\* always have their types: in particular no erase or program touches a
\* page outside the sectors number_of_segments counted, for every record
\* length and sector size.
THEOREM TypeCorrect == Spec => []TypeOK
  BY InitTypeOK, NextTypeOK, PTL DEF Spec

-----------------------------------------------------------------------------
(* read_settings_from_flash.                                               *)

\* An erased first or last page holds no flag word: the record is rejected.
LEMMA ReadErased ==
  ASSUME NEW pg, pg[1] = "erased" \/ pg[Pages] = "erased"
  PROVE  ReadSettings(pg) = None
  BY StoreAssumption DEF ReadSettings, HasFlag

\* A record whose every page holds version v is read as v.
LEMMA ReadWhole ==
  ASSUME NEW pg, NEW v \in Versions, \A p \in 1..Pages : pg[p] = v
  PROVE  ReadSettings(pg) = v
  <1>1. 1 \in 1..Pages /\ Pages \in 1..Pages
    BY SizeFacts
  <1>2. HasFlag(pg[1]) /\ HasFlag(pg[Pages])
    BY <1>1 DEF HasFlag
  <1>3. \A w \in Versions : (\A p \in 1..Pages : pg[p] = w) => w = v
    BY <1>1
  <1>4. QED
    BY <1>2, <1>3 DEF ReadSettings

\* With FlaggedWhole the read never yields a mixed record.
LEMMA ReadNotMixed ==
  ASSUME FlaggedWhole
  PROVE  ReadSettings(page) \in Versions \cup {None}
  <1>1. CASE HasFlag(page[1]) /\ HasFlag(page[Pages])
    <2>1. PICK v \in Versions : \A p \in 1..Pages : page[p] = v
      BY <1>1 DEF FlaggedWhole
    <2>2. QED
      BY <2>1, ReadWhole
  <1>2. CASE ~(HasFlag(page[1]) /\ HasFlag(page[Pages]))
    BY <1>2 DEF ReadSettings
  <1>3. QED
    BY <1>1, <1>2

-----------------------------------------------------------------------------
(* The inductive invariant, when a torn erase or program leaves erased    *)
(* pages.                                                                  *)

LEMMA InitIInv == Init => IInv
  <1> SUFFICES ASSUME Init PROVE IInv
    OBVIOUS
  <1>1. PICK s \in Versions \cup {"erased"} : page = [p \in Region |-> s]
    BY DEF Init
  <1>2. \A p \in 1..Pages : page[p] = s
    BY <1>1, SizeFacts
  <1>3. FlaggedWhole
    <2>1. CASE s \in Versions
      BY <1>2, <2>1 DEF FlaggedWhole
    <2>2. CASE s = "erased"
      BY <1>2, <2>2, SizeFacts, StoreAssumption DEF FlaggedWhole, HasFlag
    <2>3. QED
      BY <1>1, <2>1, <2>2
  <1>4. QED
    BY <1>3, InitTypeOK, StoreAssumption
       DEF Init, IInv, UpIdle, WriteProgress, WP, SettingsWhole

\* What WP says of the pages that decide the read, as the write goes on:
\* from the second step to the last, page 1 or the last page is erased.
LEMMA ProgressFacts ==
  ASSUME NEW pg, NEW stp \in 1..LastStep, NEW w, WP(pg, stp, w)
  PROVE  /\ stp \in 2..Sectors => pg[1] = "erased"
         /\ stp \in (Sectors + 1)..LastStep =>
              /\ \A p \in (stp - Sectors)..Pages : pg[p] = "erased"
              /\ \A p \in 1..(stp - Sectors - 1) : pg[p] = w
         /\ stp \in 2..LastStep => ReadSettings(pg) = None
  <1>0. stp \in Nat /\ stp <= Sectors + Pages
    BY SizeFacts DEF LastStep
  <1>1. stp \in 2..Sectors => pg[1] = "erased"
    <2> SUFFICES ASSUME stp \in 2..Sectors PROVE pg[1] = "erased"
      OBVIOUS
    <2>1. /\ ProgrammedUpTo(stp) = 0
          /\ ErasedUpTo(stp) = (stp - 1) * SegmentSize
          /\ 1 <= (stp - 1) * SegmentSize
      BY SizeFacts, StoreAssumption DEF ProgrammedUpTo, ErasedUpTo
    <2>2. QED
      BY <2>1, SizeFacts DEF WP
  <1>2. stp \in (Sectors + 1)..LastStep =>
          /\ \A p \in (stp - Sectors)..Pages : pg[p] = "erased"
          /\ \A p \in 1..(stp - Sectors - 1) : pg[p] = w
    <2> SUFFICES ASSUME stp \in (Sectors + 1)..LastStep
                 PROVE  /\ \A p \in (stp - Sectors)..Pages : pg[p] = "erased"
                        /\ \A p \in 1..(stp - Sectors - 1) : pg[p] = w
      OBVIOUS
    <2>1. /\ ProgrammedUpTo(stp) = stp - Sectors - 1
          /\ ErasedUpTo(stp) = RegionEnd
          /\ stp - Sectors \in 1..Pages
      BY <1>0, SizeFacts DEF ProgrammedUpTo, ErasedUpTo, RegionEnd
    <2>2. QED
      BY <2>1, SizeFacts DEF WP
  <1>3. stp \in 2..LastStep => ReadSettings(pg) = None
    <2> SUFFICES ASSUME stp \in 2..LastStep PROVE ReadSettings(pg) = None
      OBVIOUS
    <2>1. pg[1] = "erased" \/ pg[Pages] = "erased"
      <3>1. Pages \in (stp - Sectors)..Pages \/ stp \in 2..Sectors
        BY <1>0, SizeFacts
      <3>2. QED
        BY <1>1, <1>2, <3>1, SizeFacts DEF LastStep
    <2>2. QED
      BY <2>1, ReadErased
  <1>4. QED
    BY <1>1, <1>2, <1>3

LEMMA WriteStepIInv == IInv /\ WriteStep => IInv'
  <1> SUFFICES ASSUME IInv, WriteStep PROVE IInv'
    OBVIOUS
  <1>0. /\ TypeOK /\ WriteProgress /\ FlaggedWhole
        /\ TypeOK'
        /\ step \in 1..(Sectors + Pages)
        /\ up /\ up'
        /\ UNCHANGED <<writing, settings, up, downs>>
    BY NextTypeOK, SizeFacts DEF IInv, WriteStep, Next, TypeOK, LastStep
  <1>1. CASE step <= Sectors
    <2>1. /\ step \in 1..Sectors
          /\ step' = step + 1
          /\ page' = [p \in Region |-> IF p \in SectorPages(step) THEN "erased"
                                                                ELSE page[p]]
      BY <1>0, <1>1, SizeFacts DEF WriteStep, LastStep
    <2>2. /\ ProgrammedUpTo(step') = 0
          /\ ErasedUpTo(step') = step * SegmentSize
      BY <2>1 DEF ProgrammedUpTo, ErasedUpTo
    <2>3. \A p \in 1..Pages : p <= step * SegmentSize => page'[p] = "erased"
      <3> SUFFICES ASSUME NEW p \in 1..Pages, p <= step * SegmentSize
                   PROVE  page'[p] = "erased"
        OBVIOUS
      <3>1. p \in Region
        BY SizeFacts
      <3>2. CASE p \in SectorPages(step)
        BY <2>1, <3>1, <3>2
      <3>3. CASE p <= (step - 1) * SegmentSize
        <4>1. step \in 2..Sectors
          BY <2>1, <3>3, StoreAssumption
        <4>2. /\ ProgrammedUpTo(step) = 0
              /\ ErasedUpTo(step) = (step - 1) * SegmentSize
          BY <4>1, SizeFacts DEF ProgrammedUpTo, ErasedUpTo
        <4>3. page[p] = "erased"
          BY <1>0, <3>3, <4>2 DEF WriteProgress, WP
        <4>4. QED
          BY <2>1, <3>1, <4>3
      <3>4. QED
        BY <2>1, <3>2, <3>3, SectorFacts
    <2>4. WriteProgress'
      BY <2>2, <2>3 DEF WriteProgress, WP
    <2>5. page'[1] = "erased"
      <3>1. 1 \in 1..Pages /\ 1 <= step * SegmentSize
        BY <2>1, SizeFacts, StoreAssumption
      <3>2. QED
        BY <2>3, <3>1
    <2>6. FlaggedWhole'
      BY <2>5, StoreAssumption DEF FlaggedWhole, HasFlag
    <2>7. QED
      BY <1>0, <2>4, <2>6 DEF IInv, UpIdle, SettingsWhole
  <1>2. CASE ~(step <= Sectors)
    <2> DEFINE k == step - Sectors
    <2>1. /\ step \in (Sectors + 1)..LastStep
          /\ k \in 1..Pages
          /\ page' = [page EXCEPT ![k] = Programmed(page[k], writing)]
      BY <1>0, <1>2, SizeFacts DEF WriteStep, LastStep
    <2>2. /\ \A p \in k..Pages : page[p] = "erased"
          /\ \A p \in 1..(k - 1) : page[p] = writing
      BY <1>0, <2>1, ProgressFacts DEF IInv, WriteProgress
    <2>3. /\ k \in Region
          /\ page'[k] = writing
          /\ \A p \in 1..Pages : p # k => page'[p] = page[p]
      BY <1>0, <2>1, <2>2, SizeFacts DEF Programmed, TypeOK
    <2>4. CASE k = Pages
      <3>1. step' = 0
        BY <1>0, <2>4, SizeFacts DEF WriteStep, LastStep
      <3>2. \A p \in 1..Pages : page'[p] = writing
        <4> SUFFICES ASSUME NEW p \in 1..Pages PROVE page'[p] = writing
          OBVIOUS
        <4>1. CASE p = k
          BY <2>3, <4>1
        <4>2. CASE p # k
          <5>1. p \in 1..(k - 1)
            BY <2>1, <2>4, <4>2
          <5>2. QED
            BY <2>2, <2>3, <4>2, <5>1
        <4>3. QED
          BY <4>1, <4>2
      <3>3. FlaggedWhole'
        BY <1>0, <3>2 DEF FlaggedWhole, TypeOK
      <3>4. QED
        BY <1>0, <3>1, <3>3 DEF IInv, UpIdle, SettingsWhole, WriteProgress, WP
    <2>5. CASE k # Pages
      <3>1. /\ step' = step + 1
            /\ ProgrammedUpTo(step') = k
            /\ ErasedUpTo(step') = RegionEnd
        BY <1>0, <2>1, <2>5, SizeFacts DEF WriteStep, LastStep,
           ProgrammedUpTo, ErasedUpTo
      <3>2. /\ \A p \in 1..Pages : p <= k => page'[p] = writing
            /\ \A p \in 1..Pages : k < p => page'[p] = "erased"
        BY <2>1, <2>2, <2>3
      <3>3. WriteProgress'
        BY <1>0, <3>1, <3>2, SizeFacts DEF WriteProgress, WP
      <3>4. page'[Pages] = "erased"
        BY <2>1, <2>5, <3>2, SizeFacts
      <3>5. FlaggedWhole'
        BY <3>4, StoreAssumption DEF FlaggedWhole, HasFlag
      <3>6. QED
        BY <1>0, <3>3, <3>5 DEF IInv, UpIdle, SettingsWhole
    <2>6. QED
      BY <2>4, <2>5
  <1>3. QED
    BY <1>1, <1>2

\* A power loss during a write leaves the record rejected: the page it cuts
\* is left erased, and page 1 or the last page is erased already.
LEMMA DownRejects ==
  ASSUME ~TornKeepsFlag, IInv, Down, step # 0
  PROVE  page'[1] = "erased" \/ page'[Pages] = "erased"
  <1>0. /\ TypeOK /\ WriteProgress
        /\ step \in 1..(Sectors + Pages)
        /\ 1 \in Region /\ Pages \in Region
    BY SizeFacts DEF IInv, TypeOK, LastStep
  <1>1. TornStates = {"erased"}
    BY DEF TornStates
  <1>2. PICK t \in TornStates :
          page' = IF step <= Sectors
                  THEN [p \in Region |-> IF p \in SectorPages(step) THEN t
                                                                  ELSE page[p]]
                  ELSE [page EXCEPT ![step - Sectors] = t]
    BY DEF Down
  <1>3. CASE step = 1
    <2>1. 1 \in SectorPages(1)
      BY SectorFacts, SizeFacts
    <2>2. QED
      BY <1>0, <1>1, <1>2, <1>3, <2>1, SizeFacts
  <1>4. CASE step \in 2..Sectors
    <2>1. ~(1 \in SectorPages(step)) /\ page[1] = "erased"
      BY <1>0, <1>4, SectorFacts, SizeFacts, ProgressFacts DEF WriteProgress
    <2>2. QED
      BY <1>0, <1>2, <1>4, <2>1, SizeFacts
  <1>5. CASE step \in (Sectors + 1)..(Sectors + Pages)
    <2>1. page[Pages] = "erased"
      BY <1>0, <1>5, SizeFacts, ProgressFacts DEF WriteProgress
    <2>2. QED
      BY <1>0, <1>1, <1>2, <1>5, <2>1, SizeFacts DEF TypeOK
  <1>6. QED
    BY <1>0, <1>3, <1>4, <1>5, SizeFacts

LEMMA DownIInv ==
  ASSUME ~TornKeepsFlag, IInv, Down
  PROVE  IInv'
  <1>0. /\ TypeOK'
        /\ step' = 0 /\ up' = FALSE /\ settings' = None
    BY NextTypeOK DEF IInv, Down, Next
  <1>1. FlaggedWhole'
    <2>1. CASE step = 0
      BY <2>1 DEF Down, IInv, FlaggedWhole
    <2>2. CASE step # 0
      BY <2>2, DownRejects, StoreAssumption DEF FlaggedWhole, HasFlag
    <2>3. QED
      BY <2>1, <2>2
  <1>2. QED
    BY <1>0, <1>1 DEF IInv, UpIdle, WriteProgress, WP, SettingsWhole

LEMMA BootIInv == IInv /\ Boot => IInv'
  <1> SUFFICES ASSUME IInv, Boot PROVE IInv'
    OBVIOUS
  <1>0. /\ TypeOK'
        /\ up' = TRUE /\ UNCHANGED page
        /\ ReadSettings(page) \in Versions \cup {None}
    BY NextTypeOK, ReadNotMixed DEF IInv, Boot, Next
  <1>1. /\ step' \in {0, 1}
        /\ settings' \in Versions
    BY <1>0, StoreAssumption DEF Boot, StartWrite, IInv, UpIdle
  <1>2. WriteProgress'
    <2>1. step' = 1 => ProgrammedUpTo(step') = 0 /\ ErasedUpTo(step') = 0
      BY SizeFacts, StoreAssumption DEF ProgrammedUpTo, ErasedUpTo
    <2>2. QED
      BY <1>1, <2>1 DEF WriteProgress, WP
  <1>3. QED
    BY <1>0, <1>1, <1>2 DEF IInv, UpIdle, FlaggedWhole, SettingsWhole

LEMMA SaveIInv ==
  ASSUME IInv, NEW v \in Versions, Save(v)
  PROVE  IInv'
  <1>0. TypeOK' /\ step' = 1 /\ up' /\ UNCHANGED <<page, settings>>
    BY NextTypeOK DEF IInv, Save, StartWrite, Next
  <1>1. ProgrammedUpTo(step') = 0 /\ ErasedUpTo(step') = 0
    BY <1>0, SizeFacts, StoreAssumption DEF ProgrammedUpTo, ErasedUpTo
  <1>2. QED
    BY <1>0, <1>1 DEF IInv, UpIdle, WriteProgress, WP, FlaggedWhole, SettingsWhole

LEMMA NextIInv ==
  ASSUME ~TornKeepsFlag
  PROVE  IInv /\ [Next]_vars => IInv'
  <1> SUFFICES ASSUME IInv, [Next]_vars PROVE IInv'
    OBVIOUS
  <1>1. CASE UNCHANGED vars
    BY <1>1 DEF vars, IInv, TypeOK, UpIdle, WriteProgress, WP, ProgrammedUpTo,
       ErasedUpTo, FlaggedWhole, SettingsWhole
  <1>2. QED
    BY <1>1, WriteStepIInv, BootIInv, SaveIInv, DownIInv DEF Next

LEMMA AlwaysIInv ==
  ASSUME ~TornKeepsFlag
  PROVE  Spec => []IInv
  BY InitIInv, NextIInv, PTL DEF Spec

-----------------------------------------------------------------------------
(* The refinement of AtomicSettings, under the mapping                    *)
(* record <- ReadSettings(page).                                           *)

LEMMA InitRefines == Init => Abstract!AInit
  <1> SUFFICES ASSUME Init PROVE Abstract!AInit
    OBVIOUS
  <1>1. PICK s \in Versions \cup {"erased"} : page = [p \in Region |-> s]
    BY DEF Init
  <1>2. \A p \in 1..Pages : page[p] = s
    BY <1>1, SizeFacts
  <1>3. ReadSettings(page) \in Versions \cup {None}
    <2>1. CASE s \in Versions
      BY <1>2, <2>1, ReadWhole
    <2>2. CASE s = "erased"
      <3>1. page[1] = "erased"
        BY <1>2, <2>2, SizeFacts
      <3>2. QED
        BY <3>1, ReadErased
    <2>3. QED
      BY <1>1, <2>1, <2>2
  <1>4. QED
    BY <1>3 DEF Init, Abstract!AInit

\* A step of write_in_non_volatile invalidates the record with its first
\* erase, commits it with its last program, and leaves it rejected between.
LEMMA WriteStepRefines ==
  ASSUME IInv, IInv', WriteStep
  PROVE  [Abstract!ANext]_Abstract!absVars
  <1>0. /\ TypeOK /\ WriteProgress /\ WriteProgress'
        /\ step \in 1..LastStep /\ up
        /\ UNCHANGED <<writing, settings, up>>
        /\ LastStep = Sectors + Pages /\ Sectors + Pages >= 2
    BY SizeFacts DEF IInv, TypeOK, WriteStep
  <1>a. WP(page, step, writing) /\ WP(page', step', writing)
    BY <1>0 DEF WriteProgress
  <1>1. CASE step = 1
    <2>1. step' = 2 /\ 2 \in 1..LastStep
      BY <1>0, <1>1, SizeFacts DEF WriteStep
    <2>2. ReadSettings(page') = None
      <3>1. WP(page', 2, writing)
        BY <1>a, <2>1
      <3>2. QED
        BY <2>1, <3>1, ProgressFacts
    <2>3. QED
      BY <1>0, <2>2 DEF Abstract!ANext, Abstract!AInvalidate
  <1>2. CASE step \in 2..(LastStep - 1)
    <2>1. /\ step' = step + 1
          /\ step + 1 \in 2..LastStep /\ step + 1 \in 1..LastStep
          /\ step \in 2..LastStep /\ step \in 1..LastStep
      BY <1>0, <1>2, SizeFacts DEF WriteStep
    <2>2. ReadSettings(page) = None
      BY <1>a, <2>1, ProgressFacts
    <2>3. ReadSettings(page') = None
      <3>1. WP(page', step + 1, writing)
        BY <1>a, <2>1
      <3>2. QED
        BY <2>1, <3>1, ProgressFacts
    <2>4. QED
      BY <1>0, <2>2, <2>3 DEF Abstract!absVars
  <1>3. CASE step = LastStep
    <2>1. /\ step \in (Sectors + 1)..LastStep /\ step \in 2..LastStep
          /\ step - Sectors = Pages
          /\ page' = [page EXCEPT ![Pages] = Programmed(page[Pages], writing)]
      BY <1>0, <1>3, SizeFacts DEF WriteStep
    <2>2. /\ ReadSettings(page) = None
          /\ page[Pages] = "erased"
          /\ \A p \in 1..(Pages - 1) : page[p] = writing
      <3>1. /\ ReadSettings(page) = None
            /\ \A p \in (step - Sectors)..Pages : page[p] = "erased"
            /\ \A p \in 1..(step - Sectors - 1) : page[p] = writing
        BY <1>0, <1>a, <2>1, ProgressFacts
      <3>2. QED
        BY <2>1, <3>1, SizeFacts
    <2>3. \A p \in 1..Pages : page'[p] = writing
      BY <1>0, <2>1, <2>2, SizeFacts DEF Programmed, TypeOK
    <2>4. ReadSettings(page') = writing /\ writing \in Versions
      BY <1>0, <2>3, ReadWhole DEF TypeOK
    <2>5. QED
      BY <1>0, <2>2, <2>4 DEF Abstract!ANext, Abstract!ACommit
  <1>4. QED
    BY <1>0, <1>1, <1>2, <1>3

LEMMA StepRefines ==
  ASSUME ~TornKeepsFlag, IInv, IInv', [Next]_vars
  PROVE  [Abstract!ANext]_Abstract!absVars
  <1>1. CASE WriteStep
    BY <1>1, WriteStepRefines
  <1>2. CASE Boot
    BY <1>2 DEF Boot, StartWrite, Abstract!ANext, Abstract!ABoot
  <1>3. CASE \E v \in Versions : Save(v)
    BY <1>3 DEF Save, Abstract!absVars
  <1>4. CASE Down
    <2>1. CASE step = 0
      BY <1>4, <2>1 DEF Down, Abstract!ANext, Abstract!ADown
    <2>2. CASE step # 0
      <3>1. ReadSettings(page') = None
        BY <1>4, <2>2, DownRejects, ReadErased
      <3>2. QED
        BY <1>4, <3>1 DEF Down, Abstract!ANext, Abstract!ADown
    <2>3. QED
      BY <2>1, <2>2
  <1>5. CASE UNCHANGED vars
    BY <1>5 DEF vars, Abstract!absVars
  <1>6. QED
    BY <1>1, <1>2, <1>3, <1>4, <1>5 DEF Next

\* The flash store implements AtomicSettings: what read_settings_from_flash
\* accepts is at every moment one version written whole, or nothing; the
\* first erase of write_in_non_volatile invalidates the old record, its
\* last program commits the new one, and a power loss at any point of a
\* write leaves the old record or none.  This holds for every record length
\* and sector size, provided an interrupted erase or program leaves erased
\* pages (the run settings_store_torn shows the store fails otherwise).
THEOREM StoreRefinesAtomicSettings ==
  ASSUME ~TornKeepsFlag
  PROVE  Spec => RefinesAtomicSettings
  <1>1. Spec => []IInv
    BY AlwaysIInv
  <1>2. IInv /\ IInv' /\ [Next]_vars => [Abstract!ANext]_Abstract!absVars
    BY StepRefines
  <1>3. QED
    BY <1>1, <1>2, InitRefines, PTL
       DEF Spec, RefinesAtomicSettings, Abstract!ASpec

\* core1_entry never runs with settings that were not written whole: the
\* record it accepts is a version, or it falls back to the defaults.
THEOREM WrittenSettingsOnly ==
  ASSUME ~TornKeepsFlag
  PROVE  Spec => []RunsWithWrittenSettings
  <1>1. IInv => RunsWithWrittenSettings
    BY DEF IInv, SettingsWhole, RunsWithWrittenSettings
  <1>2. QED
    BY <1>1, AlwaysIInv, PTL

====

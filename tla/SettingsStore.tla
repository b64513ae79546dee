---------------------------- MODULE SettingsStore ----------------------------
(***************************************************************************)
(* The settings record in flash (src/non_volatile.c,                       *)
(* src/runtime_settings.c) and its use at boot (core1_entry) and at the    *)
(* save that ends the configuration portal (httpd_ap_mode).                *)
(*                                                                         *)
(* write_in_non_volatile erases the sectors that hold the record, then     *)
(* programs it page by page, with interrupts off and core0 locked out, but *)
(* power can still be lost at any point.  read_settings_from_flash accepts *)
(* the record when its first word (flag) and last word (end_flag) both     *)
(* hold SETTINGS_FLAG; flag is in the first page, end_flag in the last.    *)
(*                                                                         *)
(* Sizes are in units of a page.  A page holds one version of the          *)
(* settings, is erased, or is garbled: bits left neither old nor new by an *)
(* interrupted erase or program, or by programming over data that was not  *)
(* erased (NOR flash can only clear bits).  A garbled page at the start or *)
(* end may still show the flag word.                                       *)
(***************************************************************************)
EXTENDS Naturals

CONSTANTS
  Versions,      \* contents of the settings (Defaults among them)
  Defaults,      \* initialize_default_settings
  None,          \* read_settings_from_flash rejected the record
  Mixed,         \* an accepted record that is no version written
  RecordLen,     \* sizeof(tls_mqtt_settings), in pages
  SegmentSize,   \* NON_VOL_SEGMENT_SIZE (the erase sector), in pages
  TornKeepsFlag, \* an interrupted erase or program may leave flag words
                 \* readable (TRUE), or always leaves them erased (FALSE)
  MaxDowns       \* bound: power losses and resets over a run

ASSUME StoreAssumption ==
  /\ Defaults \in Versions
  /\ None \notin Versions /\ Mixed \notin Versions /\ None # Mixed
  /\ "erased" \notin Versions /\ "garbled" \notin Versions
  /\ RecordLen \in Nat \ {0}
  /\ SegmentSize \in Nat \ {0}
  /\ TornKeepsFlag \in BOOLEAN
  /\ MaxDowns \in Nat

VARIABLES
  page,     \* flash contents, per page of the erased region
  step,     \* write_in_non_volatile in progress: 0 idle, then one step per
            \* sector erased and per page programmed
  writing,  \* the version being written
  settings, \* mqtt_settings in RAM, or None before boot
  up,       \* the node has booted since the last power loss or reset
  downs     \* power losses and resets so far

vars == <<page, step, writing, settings, up, downs>>

PageStates == Versions \cup {"erased", "garbled"}

-----------------------------------------------------------------------------
(* Sizes of a write.                                                      *)

\* number_of_segments: how many units of a given size hold length.
NumberOfSegments(length, segment) == (length + segment - 1) \div segment

Sectors == NumberOfSegments(RecordLen, SegmentSize)
Pages == NumberOfSegments(RecordLen, 1)
Region == 1..(NumberOfSegments(RecordLen, SegmentSize) * SegmentSize)
SectorPages(s) == ((s - 1) * SegmentSize + 1)..(s * SegmentSize)
LastStep == Sectors + Pages

-----------------------------------------------------------------------------
(* read_settings_from_flash, and what a page holds after a program.       *)

\* The record read back: rejected unless both flag words read SETTINGS_FLAG;
\* an accepted record is a version only if every page holds it.
HasFlag(s) == s \in Versions \/ s = "garbled"

\* Plausible bug of the read, used to show that the refinement can fail:
\* the end_flag test dropped.
Mutant_ReadSettingsNoEndFlag(pg) ==
  IF HasFlag(pg[1])
  THEN IF \E v \in Versions : \A p \in 1..Pages : pg[p] = v
       THEN CHOOSE v \in Versions : \A p \in 1..Pages : pg[p] = v
       ELSE Mixed
  ELSE None

ReadSettings(pg) ==
  IF HasFlag(pg[1]) /\ HasFlag(pg[Pages])
  THEN IF \E v \in Versions : \A p \in 1..Pages : pg[p] = v
       THEN CHOOSE v \in Versions : \A p \in 1..Pages : pg[p] = v
       ELSE Mixed
  ELSE None

\* flash_range_program on one page: only an erased page takes the new data.
Programmed(old, v) == IF old = "erased" \/ old = v THEN v ELSE "garbled"

\* What an interrupted erase or program leaves in a page it was changing.
TornStates == IF TornKeepsFlag THEN {"erased", "garbled"} ELSE {"erased"}

-----------------------------------------------------------------------------
(* Plausible bug of the write loop, used to show that TypeOK can fail:    *)
(* one page programmed past the record.                                    *)

Mutant_WriteStepOnePageMore ==
  /\ up
  /\ step # 0
  /\ IF step <= Sectors
     THEN page' = [p \in Region |-> IF p \in SectorPages(step) THEN "erased"
                                                            ELSE page[p]]
     ELSE page' = [page EXCEPT ![step - Sectors] = Programmed(@, writing)]
  /\ step' = IF step = LastStep + 1 THEN 0 ELSE step + 1
  /\ UNCHANGED <<writing, settings, up, downs>>

-----------------------------------------------------------------------------
(* Actions.                                                               *)

Init ==
  /\ \E s \in Versions \cup {"erased"} : page = [p \in Region |-> s]
  /\ step = 0
  /\ writing = Defaults
  /\ settings = None
  /\ up = FALSE
  /\ downs = 0

\* write_settings_in_flash(v): stamp the flags and start
\* write_in_non_volatile.
StartWrite(v) ==
  /\ step' = 1
  /\ writing' = v

\* One step of write_in_non_volatile: flash_range_erase of the next sector,
\* then flash_range_program of the next page.
WriteStep ==
  /\ up
  /\ step # 0
  /\ IF step <= Sectors
     THEN page' = [p \in Region |-> IF p \in SectorPages(step) THEN "erased"
                                                            ELSE page[p]]
     ELSE page' = [page EXCEPT ![step - Sectors] = Programmed(@, writing)]
  /\ step' = IF step = LastStep THEN 0 ELSE step + 1
  /\ UNCHANGED <<writing, settings, up, downs>>

\* core1_entry: read the record; if it is rejected use the defaults and
\* write them.
Boot ==
  /\ ~up
  /\ up' = TRUE
  /\ LET r == ReadSettings(page) IN
       IF r = None
       THEN /\ settings' = Defaults
            /\ StartWrite(Defaults)
       ELSE /\ settings' = r
            /\ UNCHANGED <<step, writing>>
  /\ UNCHANGED <<page, downs>>

\* The end of httpd_ap_mode: the posted settings v are written.
Save(v) ==
  /\ up
  /\ step = 0
  /\ StartWrite(v)
  /\ UNCHANGED <<page, settings, up, downs>>

\* Power loss or watchdog reset.  A write in progress stops, and the pages
\* its current erase or program was changing are left torn.
Down ==
  /\ downs < MaxDowns
  /\ downs' = downs + 1
  /\ up' = FALSE
  /\ settings' = None
  /\ step' = 0
  /\ \E t \in TornStates :
       page' = IF step = 0 THEN page
               ELSE IF step <= Sectors
               THEN [p \in Region |-> IF p \in SectorPages(step) THEN t
                                                               ELSE page[p]]
               ELSE [page EXCEPT ![step - Sectors] = t]
  /\ UNCHANGED writing

Next == WriteStep \/ Boot \/ (\E v \in Versions : Save(v)) \/ Down

Spec == Init /\ [][Next]_vars

-----------------------------------------------------------------------------
(* Properties.                                                            *)

TypeOK ==
  /\ page \in [Region -> PageStates]
  /\ step \in 0..LastStep
  /\ writing \in Versions
  /\ settings \in Versions \cup {None, Mixed}
  /\ up \in BOOLEAN
  /\ downs \in 0..MaxDowns

\* The store implements AtomicSettings: the record read_settings_from_flash
\* accepts is always one version written whole, or none; each write
\* invalidates the old record at its first erase and commits the new one
\* with its last page, whatever power losses interrupt it.
Abstract == INSTANCE AtomicSettings WITH record <- ReadSettings(page)
RefinesAtomicSettings == Abstract!ASpec

\* Spec (SettingsRecord): the node never runs with settings that were not
\* written as a whole (boot uses a complete record or the defaults).
RunsWithWrittenSettings == settings \in Versions \cup {None}

=============================================================================

--------------------------- MODULE AtomicSettings ---------------------------
(***************************************************************************)
(* What the settings store promises its users (core1_entry at boot and the *)
(* save at the end of httpd_ap_mode): the record in flash is at any time   *)
(* one complete version of the settings, or no valid record at all.  A     *)
(* write first invalidates the old record and later commits the new one;  *)
(* a power loss in between leaves no valid record, and boot then falls     *)
(* back to the compiled-in defaults and writes them.                       *)
(***************************************************************************)
CONSTANTS
  Versions,  \* settings contents
  Defaults,  \* the compiled-in defaults (initialize_default_settings)
  None       \* no valid record

VARIABLES
  record,    \* the valid record in flash, or None
  settings,  \* the settings the node runs with, or None before boot
  up         \* the node has booted since the last power loss or reset

absVars == <<record, settings, up>>

AInit ==
  /\ record \in Versions \cup {None}
  /\ settings = None
  /\ up = FALSE

\* Boot: use the record if there is one, else the defaults.
ABoot ==
  /\ ~up
  /\ up' = TRUE
  /\ settings' = IF record # None THEN record ELSE Defaults
  /\ UNCHANGED record

\* A write starts: the old record is no longer valid.
AInvalidate ==
  /\ up
  /\ record' = None
  /\ UNCHANGED <<settings, up>>

\* A write completes with the version v.
ACommit(v) ==
  /\ up
  /\ record = None
  /\ record' = v
  /\ UNCHANGED <<settings, up>>

\* Power loss or watchdog reset: the RAM copy is gone, and a write that had
\* started may be cut off before it invalidated the old record or after.
ADown ==
  /\ up' = FALSE
  /\ settings' = None
  /\ record' \in {record, None}

ANext == ABoot \/ AInvalidate \/ (\E v \in Versions : ACommit(v)) \/ ADown

ASpec == AInit /\ [][ANext]_absVars

=============================================================================

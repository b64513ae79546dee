--------------------------- MODULE MC_SettingsStore ---------------------------
(***************************************************************************)
(* Model-checking instance of SettingsStore.  The record is 7 pages long   *)
(* and a sector 4 pages, the proportions of the real record (about 6960    *)
(* bytes with the certificates) against 4096-byte sectors: the record      *)
(* spans two sectors, the second one only in part.  Two user versions      *)
(* besides the defaults, so that a save overwrites a different version.   *)
(***************************************************************************)
EXTENDS SettingsStore

CONSTANTS dflt, user1, user2

MCVersions == {dflt, user1, user2}

=============================================================================

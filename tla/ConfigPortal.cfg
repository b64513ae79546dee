\* The poll build: POSTs, the store-flag loop, the save and the restart.
CONSTANTS
  MaxLen = 3
  MaxPosts = 2
  Background = FALSE
SPECIFICATION Spec
\* core1_entry returns after httpd_ap_mode and core1 stops; core0 then only
\* repeats iterations that change nothing, or waits for the watchdog.
CHECK_DEADLOCK FALSE
INVARIANTS
  TypeOK
  RebootOnlyAfterSave
PROPERTIES
  PostedChangeSaved

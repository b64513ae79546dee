----------------------------- MODULE ConfigPortal -----------------------------
(***************************************************************************)
(* The configuration portal of AP mode and the restart that follows a     *)
(* save: httpd_ap_mode (src/main.c), the POST callbacks of                 *)
(* src/access_point_httpd/http_control.c, and core0's reset_core check in  *)
(* main.                                                                   *)
(*                                                                         *)
(* lwIP's httpd serves several connections at once; all of them append to  *)
(* the one static post_data_buffer at the one post_data_index.  A byte of  *)
(* the buffer is 0 (NUL) or the id of the POST that wrote it; the keys and *)
(* values themselves are abstracted to whether the parse changed a field.  *)
(* As I understand lwIP's httpd: a POST whose Content-Length is too large  *)
(* is refused at begin; data arrives in chunks whose last one may carry    *)
(* bytes past Content-Length; an error from the receive callback ends the  *)
(* POST and httpd_post_finished is called; a connection closed in the      *)
(* middle may or may not be finished (both are allowed).                   *)
(*                                                                         *)
(* Callbacks run on core1: with the poll architecture only inside          *)
(* cyw43_arch_poll, with the background architecture between any two       *)
(* statements of the loop until cyw43_arch_deinit.                          *)
(***************************************************************************)
EXTENDS Naturals

CONSTANTS
  MaxLen,      \* MAX_POST_DATA_LEN, the size of post_data_buffer
  MaxPosts,    \* bound: POST requests over a run (ids 1..MaxPosts)
  Background   \* TRUE: pico_cyw43_arch_lwip_threadsafe_background build

ASSUME PortalAssumption ==
  /\ MaxLen \in Nat \ {0}
  /\ MaxPosts \in Nat
  /\ Background \in BOOLEAN

VARIABLES
  buf,         \* post_data_buffer: 0 or the id of the POST that wrote it
  idx,         \* post_data_index
  left,        \* per POST: Content-Length bytes still to come (0: not open)
  nextPost,    \* POST ids used so far
  changed,     \* settings_changed
  store_flag,  \* store_settings_flag
  pc,          \* core1's place in httpd_ap_mode
  httpd,       \* the AP and its httpd are up
  saved,       \* write_settings_in_flash has run
  reset_core,  \* reset_core (under reset_core_mutex)
  rebooting,   \* core0 saw reset_core and waits for the watchdog
  foreign      \* ghost: a parse read bytes of another POST

vars == <<buf, idx, left, nextPost, changed, store_flag, pc, httpd, saved,
          reset_core, rebooting, foreign>>

PostIds == 1..MaxPosts
Cells == 1..MaxLen
Empty == [k \in Cells |-> 0]

-----------------------------------------------------------------------------
(* The POST callbacks.                                                    *)

\* Whether an lwIP callback may run in core1's current place.
CallbacksMayRun ==
  /\ httpd
  /\ \/ pc = "loop"
     \/ Background /\ pc \in {"changed", "clear", "deinit"}

\* parse_buffer on the contents b, for POST i: strtok reads from the start
\* to the first NUL; each key=value pair found may change a field
\* (process_post_field sets settings_changed).
Read(b) == {k \in Cells : \A j \in 1..k : b[j] # 0}
ParseBuffer(i, b) ==
  /\ foreign' = (foreign \/ \E k \in Read(b) : b[k] # i)
  /\ changed' \in IF Read(b) = {} THEN {changed} ELSE {changed, TRUE}

\* httpd_post_finished: parse, set the store flag, clear the buffer.
PostFinished(i, b) ==
  /\ ParseBuffer(i, b)
  /\ store_flag' = TRUE
  /\ buf' = Empty

\* httpd_post_begin: refuse a Content-Length over MAX_POST_DATA_LEN, else
\* reset the index (the buffer is not cleared).
PostBegin(i) ==
  /\ CallbacksMayRun
  /\ i = nextPost + 1
  /\ i <= MaxPosts
  /\ nextPost' = i
  /\ \E len \in 1..(MaxLen + 1) :
       IF len > MaxLen
       THEN UNCHANGED <<idx, left>>
       ELSE /\ idx' = 0
            /\ left' = [left EXCEPT ![i] = len]
  /\ UNCHANGED <<buf, changed, store_flag, pc, httpd, saved, reset_core,
                 rebooting, foreign>>

Mutant_ReceiveDataOffByOne(i, len) ==
  /\ CallbacksMayRun
  /\ left[i] > 0
  /\ IF idx + len > MaxLen + 1
     THEN /\ left' = [left EXCEPT ![i] = 0]
          /\ PostFinished(i, buf)
          /\ UNCHANGED idx
     ELSE LET b == [k \in Cells |-> IF idx < k /\ k <= idx + len THEN i
                                                            ELSE buf[k]]
              rest == IF len >= left[i] THEN 0 ELSE left[i] - len
          IN /\ idx' = idx + len
             /\ left' = [left EXCEPT ![i] = rest]
             /\ IF rest = 0
                THEN PostFinished(i, b)
                ELSE /\ buf' = b
                     /\ UNCHANGED <<changed, store_flag, foreign>>
  /\ UNCHANGED <<nextPost, pc, httpd, saved, reset_core, rebooting>>

\* httpd_post_receive_data with a chunk of len bytes of POST i: refuse it
\* if it would pass the end of the buffer (ERR_MEM; lwIP then ends the POST
\* and calls httpd_post_finished), else append it.  When the last byte of
\* Content-Length has come, lwIP calls httpd_post_finished.
ReceiveData(i, len) ==
  /\ CallbacksMayRun
  /\ left[i] > 0
  /\ IF idx + len > MaxLen
     THEN /\ left' = [left EXCEPT ![i] = 0]
          /\ PostFinished(i, buf)
          /\ UNCHANGED idx
     ELSE LET b == [k \in Cells |-> IF idx < k /\ k <= idx + len THEN i
                                                            ELSE buf[k]]
              rest == IF len >= left[i] THEN 0 ELSE left[i] - len
          IN /\ idx' = idx + len
             /\ left' = [left EXCEPT ![i] = rest]
             /\ IF rest = 0
                THEN PostFinished(i, b)
                ELSE /\ buf' = b
                     /\ UNCHANGED <<changed, store_flag, foreign>>
  /\ UNCHANGED <<nextPost, pc, httpd, saved, reset_core, rebooting>>

\* The client closes the connection in the middle of POST i.
PostAborted(i) ==
  /\ CallbacksMayRun
  /\ left[i] > 0
  /\ left' = [left EXCEPT ![i] = 0]
  /\ \/ PostFinished(i, buf)
     \/ UNCHANGED <<buf, changed, store_flag, foreign>>
  /\ UNCHANGED <<idx, nextPost, pc, httpd, saved, reset_core, rebooting>>

-----------------------------------------------------------------------------
(* httpd_ap_mode on core1 and the reset_core check of core0.              *)

PostVars == <<buf, idx, left, nextPost, changed, foreign>>

\* The start of httpd_ap_mode: return at once if the copy of the settings
\* cannot be allocated; otherwise the loop runs, with the AP and httpd up
\* unless setup_ap failed.
ApStart ==
  /\ pc = "start"
  /\ \/ pc' = "done" /\ UNCHANGED httpd
     \/ pc' = "loop" /\ httpd' \in BOOLEAN
  /\ UNCHANGED <<store_flag, saved, reset_core, rebooting>>
  /\ UNCHANGED PostVars

\* if (store_settings_flag) ...
CheckStoreFlag ==
  /\ pc = "loop"
  /\ store_flag
  /\ pc' = "changed"
  /\ UNCHANGED <<httpd, store_flag, saved, reset_core, rebooting>>
  /\ UNCHANGED PostVars

\* ... if (settings_changed) break; else store_settings_flag = false;
CheckChanged ==
  /\ pc = "changed"
  /\ pc' = IF changed THEN "deinit" ELSE "clear"
  /\ UNCHANGED <<httpd, store_flag, saved, reset_core, rebooting>>
  /\ UNCHANGED PostVars

\* ... store_settings_flag = false (settings_changed was clear).
ClearStoreFlag ==
  /\ pc = "clear"
  /\ pc' = "loop"
  /\ store_flag' = FALSE
  /\ UNCHANGED <<httpd, saved, reset_core, rebooting>>
  /\ UNCHANGED PostVars

\* After the loop: free the copy, stop the DNS and DHCP servers and
\* cyw43_arch_deinit; no callback runs after this.
Deinit ==
  /\ pc = "deinit"
  /\ pc' = "store"
  /\ httpd' = FALSE
  /\ UNCHANGED <<store_flag, saved, reset_core, rebooting>>
  /\ UNCHANGED PostVars

\* Plausible bugs of the exit path and of core0's check, used to show that
\* the properties below can fail: the restart requested without the write,
\* and core0 clearing reset_core without restarting.
Mutant_StoreNoWrite ==
  /\ pc = "store"
  /\ IF store_flag
     THEN /\ store_flag' = FALSE
          /\ reset_core' = TRUE
          /\ pc' = "done"
     ELSE /\ pc' = "done"
          /\ UNCHANGED <<store_flag, reset_core>>
  /\ UNCHANGED <<httpd, saved, rebooting>>
  /\ UNCHANGED PostVars

\* if (store_settings_flag) { clear it; write_settings_in_flash; ...
StoreSettings ==
  /\ pc = "store"
  /\ IF store_flag
     THEN /\ store_flag' = FALSE
          /\ saved' = TRUE
          /\ pc' = "reset"
     ELSE /\ pc' = "done"
          /\ UNCHANGED <<store_flag, saved>>
  /\ UNCHANGED <<httpd, reset_core, rebooting>>
  /\ UNCHANGED PostVars

\* ... reset_core = true under reset_core_mutex }; httpd_ap_mode and
\* core1_entry return.
SetResetCore ==
  /\ pc = "reset"
  /\ pc' = "done"
  /\ reset_core' = TRUE
  /\ UNCHANGED <<httpd, store_flag, saved, rebooting>>
  /\ UNCHANGED PostVars

Mutant_Core0CheckClearOnly ==
  /\ ~rebooting
  /\ reset_core
  /\ reset_core' = FALSE
  /\ UNCHANGED <<buf, idx, left, nextPost, changed, store_flag, pc, httpd,
                 saved, rebooting, foreign>>

\* core0, once per iteration of main: under reset_core_mutex take the flag
\* and clear it, then wait for the watchdog.  (An iteration that finds the
\* flag clear changes nothing.)
Core0CheckReset ==
  /\ ~rebooting
  /\ reset_core
  /\ reset_core' = FALSE
  /\ rebooting' = TRUE
  /\ UNCHANGED <<buf, idx, left, nextPost, changed, store_flag, pc, httpd,
                 saved, foreign>>

Init ==
  /\ buf = Empty
  /\ idx = 0
  /\ left = [i \in PostIds |-> 0]
  /\ nextPost = 0
  /\ changed = FALSE
  /\ store_flag = FALSE
  /\ pc = "start"
  /\ httpd = FALSE
  /\ saved = FALSE
  /\ reset_core = FALSE
  /\ rebooting = FALSE
  /\ foreign = FALSE

Callback ==
  \E i \in PostIds :
    \/ PostBegin(i)
    \/ \E len \in 1..MaxLen : ReceiveData(i, len)
    \/ PostAborted(i)

Core1 ==
  \/ ApStart \/ CheckStoreFlag \/ CheckChanged \/ ClearStoreFlag
  \/ Deinit \/ StoreSettings \/ SetResetCore

Next == Callback \/ Core1 \/ Core0CheckReset

\* core1's loop never blocks and core0 checks reset_core every iteration;
\* the browser owes nothing, so callbacks get no fairness.
Fairness ==
  /\ WF_vars(Core1)
  /\ WF_vars(Core0CheckReset)

Spec == Init /\ [][Next]_vars /\ Fairness

-----------------------------------------------------------------------------
(* Properties.                                                            *)

TypeOK ==
  /\ buf \in [Cells -> {0} \cup PostIds]
  /\ idx \in 0..MaxLen
  /\ left \in [PostIds -> 0..MaxLen]
  /\ nextPost \in 0..MaxPosts
  /\ {changed, store_flag, httpd, saved, reset_core, rebooting,
      foreign} \subseteq BOOLEAN
  /\ pc \in {"start", "loop", "changed", "clear", "deinit", "store",
             "reset", "done"}

\* Spec (RestartHandshake): core0 only reboots once the settings are
\* durably written: httpd_ap_mode sets reset_core after
\* write_settings_in_flash returns.
RebootOnlyAfterSave == rebooting => saved

\* A POST that changed a setting is eventually saved and followed by the
\* restart, whatever other POSTs do meanwhile; the loop's read of
\* settings_changed and its clearing of store_settings_flag must not lose
\* a request that completes between them.
PostedChangeSaved == changed ~> (saved /\ rebooting)

\* The fields applied at the end of a POST come from that POST alone.
ParsesOnlyOwnPost == ~foreign

=============================================================================

-------------------------- MODULE ConfigPortalProofs --------------------------
(***************************************************************************)
(* Proofs about ConfigPortal for every buffer size, number of POSTs and    *)
(* build: the receive callback never moves post_data_index past the end   *)
(* of post_data_buffer (TypeOK), and core0 only restarts once the settings *)
(* are written.                                                            *)
(*                                                                         *)
(* RebootOnlyAfterSave is not inductive: a state where httpd_ap_mode is    *)
(* about to set reset_core, or where reset_core is already set, without    *)
(* the write would lead to a reboot without a save.  The strengthening    *)
(* says that the write precedes the place before reset_core = true and     *)
(* reset_core itself.                                                      *)
(***************************************************************************)
EXTENDS ConfigPortal, TLAPS

SaveBeforeReset == (pc = "reset" \/ reset_core \/ rebooting) => saved

IInv == TypeOK /\ SaveBeforeReset

\* The variables the POST callbacks do not touch.
CoreVars == <<pc, httpd, saved, reset_core, rebooting>>

-----------------------------------------------------------------------------
\* The initial state satisfies the inductive invariant.
LEMMA InitIInv == Init => IInv
  <1> SUFFICES ASSUME Init PROVE IInv
    OBVIOUS
  <1>1. buf \in [Cells -> {0} \cup PostIds]
    BY DEF Init, Empty
  <1>2. idx \in 0..MaxLen /\ nextPost \in 0..MaxPosts
    BY PortalAssumption DEF Init
  <1>3. left \in [PostIds -> 0..MaxLen]
    BY PortalAssumption DEF Init
  <1>4. QED
    BY <1>1, <1>2, <1>3 DEF Init, IInv, TypeOK, SaveBeforeReset

\* TypeOK states the flags as one set of booleans; each is a boolean.
LEMMA FlagsBoolean ==
  ASSUME TypeOK
  PROVE  /\ changed \in BOOLEAN /\ store_flag \in BOOLEAN
         /\ httpd \in BOOLEAN /\ saved \in BOOLEAN
         /\ reset_core \in BOOLEAN /\ rebooting \in BOOLEAN
         /\ foreign \in BOOLEAN
  BY Zenon DEF TypeOK

\* What httpd_post_finished leaves: a boolean ghost, a boolean
\* settings_changed, a set store flag and an empty buffer.
LEMMA PostFinishedType ==
  ASSUME TypeOK, NEW i \in PostIds, NEW b, PostFinished(i, b)
  PROVE  /\ buf' \in [Cells -> {0} \cup PostIds]
         /\ changed' \in BOOLEAN /\ store_flag' = TRUE /\ foreign' \in BOOLEAN
  BY FlagsBoolean DEF PostFinished, ParseBuffer, Empty, TypeOK

\* httpd_post_begin keeps the types: the index is reset, or nothing changes.
LEMMA PostBeginIInv ==
  ASSUME IInv, NEW i \in PostIds, PostBegin(i)
  PROVE  IInv'
  <1>1. UNCHANGED <<buf, changed, store_flag, foreign>> /\ UNCHANGED CoreVars
    BY DEF PostBegin, CoreVars
  <1>2. nextPost' \in 0..MaxPosts
    BY DEF PostBegin, PostIds
  <1>3. idx' \in 0..MaxLen /\ left' \in [PostIds -> 0..MaxLen]
    BY PortalAssumption DEF PostBegin, IInv, TypeOK
  <1>4. QED
    BY <1>1, <1>2, <1>3 DEF IInv, TypeOK, SaveBeforeReset, CoreVars

\* httpd_post_receive_data: a chunk that fits is appended and the index
\* stays within the buffer; one that does not ends the POST.
LEMMA ReceiveDataIInv ==
  ASSUME IInv, NEW i \in PostIds, NEW len \in 1..MaxLen, ReceiveData(i, len)
  PROVE  IInv'
  <1>1. UNCHANGED nextPost /\ UNCHANGED CoreVars
    BY DEF ReceiveData, CoreVars
  <1>2. CASE idx + len > MaxLen
    <2>1. idx' = idx /\ left' = [left EXCEPT ![i] = 0] /\ PostFinished(i, buf)
      BY <1>2 DEF ReceiveData
    <2>2. /\ buf' \in [Cells -> {0} \cup PostIds]
          /\ changed' \in BOOLEAN /\ store_flag' \in BOOLEAN
          /\ foreign' \in BOOLEAN
      BY <2>1, PostFinishedType DEF IInv
    <2>3. idx' \in 0..MaxLen /\ left' \in [PostIds -> 0..MaxLen]
      BY <2>1, PortalAssumption DEF IInv, TypeOK
    <2>4. QED
      BY <1>1, <2>2, <2>3 DEF IInv, TypeOK, SaveBeforeReset, CoreVars
  <1>3. CASE idx + len <= MaxLen
    <2> DEFINE b == [k \in Cells |-> IF idx < k /\ k <= idx + len THEN i
                                                              ELSE buf[k]]
               rest == IF len >= left[i] THEN 0 ELSE left[i] - len
    <2>1. /\ idx' = idx + len
          /\ left' = [left EXCEPT ![i] = rest]
          /\ IF rest = 0
             THEN PostFinished(i, b)
             ELSE /\ buf' = b
                  /\ UNCHANGED <<changed, store_flag, foreign>>
      <3>1. ~(idx + len > MaxLen)
        BY <1>3, PortalAssumption DEF IInv, TypeOK
      <3>2. QED
        BY <3>1 DEF ReceiveData
    <2>2. b \in [Cells -> {0} \cup PostIds]
      BY DEF IInv, TypeOK
    <2>3. idx' \in 0..MaxLen /\ left' \in [PostIds -> 0..MaxLen]
      BY <1>3, <2>1, PortalAssumption DEF IInv, TypeOK
    <2>4. /\ buf' \in [Cells -> {0} \cup PostIds]
          /\ changed' \in BOOLEAN /\ store_flag' \in BOOLEAN
          /\ foreign' \in BOOLEAN
      <3>1. CASE rest = 0
        BY <2>1, <3>1, PostFinishedType DEF IInv
      <3>2. CASE rest # 0
        BY <2>1, <2>2, <3>2, FlagsBoolean DEF IInv
      <3>3. QED
        BY <3>1, <3>2
    <2>5. QED
      BY <1>1, <2>3, <2>4 DEF IInv, TypeOK, SaveBeforeReset, CoreVars
  <1>4. QED
    BY <1>2, <1>3, PortalAssumption DEF IInv, TypeOK

\* A connection closed in the middle: the POST is finished or forgotten.
LEMMA PostAbortedIInv ==
  ASSUME IInv, NEW i \in PostIds, PostAborted(i)
  PROVE  IInv'
  <1>1. UNCHANGED <<idx, nextPost>> /\ UNCHANGED CoreVars
        /\ left' = [left EXCEPT ![i] = 0]
    BY DEF PostAborted, CoreVars
  <1>2. /\ buf' \in [Cells -> {0} \cup PostIds]
        /\ changed' \in BOOLEAN /\ store_flag' \in BOOLEAN
        /\ foreign' \in BOOLEAN
    <2>1. CASE PostFinished(i, buf)
      BY <2>1, PostFinishedType DEF IInv
    <2>2. CASE UNCHANGED <<buf, changed, store_flag, foreign>>
      BY <2>2, FlagsBoolean DEF IInv, TypeOK
    <2>3. QED
      BY <2>1, <2>2 DEF PostAborted
  <1>3. left' \in [PostIds -> 0..MaxLen]
    BY <1>1, PortalAssumption DEF IInv, TypeOK
  <1>4. QED
    BY <1>1, <1>2, <1>3 DEF IInv, TypeOK, SaveBeforeReset, CoreVars

\* Every callback keeps the invariant.
LEMMA CallbackIInv == IInv /\ Callback => IInv'
  <1> SUFFICES ASSUME IInv, Callback PROVE IInv'
    OBVIOUS
  <1>1. PICK i \in PostIds :
          \/ PostBegin(i)
          \/ \E len \in 1..MaxLen : ReceiveData(i, len)
          \/ PostAborted(i)
    BY DEF Callback
  <1>2. QED
    BY <1>1, PostBeginIInv, ReceiveDataIInv, PostAbortedIInv

\* The steps of httpd_ap_mode keep the types; the write happens in the step
\* that leads to the place before reset_core = true, and reset_core is set
\* only from that place.
LEMMA Core1IInv == IInv /\ Core1 => IInv'
  <1> SUFFICES ASSUME IInv, Core1 PROVE IInv'
    OBVIOUS
  <1>1. UNCHANGED PostVars /\ UNCHANGED rebooting
    BY DEF Core1, ApStart, CheckStoreFlag, CheckChanged, ClearStoreFlag,
           Deinit, StoreSettings, SetResetCore
  <1>2. /\ idx' \in 0..MaxLen /\ left' \in [PostIds -> 0..MaxLen]
        /\ buf' \in [Cells -> {0} \cup PostIds] /\ nextPost' \in 0..MaxPosts
        /\ changed' \in BOOLEAN /\ foreign' \in BOOLEAN
        /\ rebooting' \in BOOLEAN
    BY <1>1, FlagsBoolean DEF IInv, TypeOK, PostVars
  <1>3. CASE ApStart
    BY <1>2, <1>3, FlagsBoolean DEF ApStart, IInv, TypeOK, SaveBeforeReset
  <1>4. CASE CheckStoreFlag
    BY <1>2, <1>4, FlagsBoolean DEF CheckStoreFlag, IInv, TypeOK,
                                    SaveBeforeReset
  <1>5. CASE CheckChanged
    BY <1>2, <1>5, FlagsBoolean DEF CheckChanged, IInv, TypeOK,
                                    SaveBeforeReset
  <1>6. CASE ClearStoreFlag
    BY <1>2, <1>6, FlagsBoolean DEF ClearStoreFlag, IInv, TypeOK,
                                    SaveBeforeReset
  <1>7. CASE Deinit
    BY <1>2, <1>7, FlagsBoolean DEF Deinit, IInv, TypeOK, SaveBeforeReset
  <1>8. CASE StoreSettings
    BY <1>2, <1>8, FlagsBoolean DEF StoreSettings, IInv, TypeOK,
                                    SaveBeforeReset
  <1>9. CASE SetResetCore
    BY <1>2, <1>9, FlagsBoolean DEF SetResetCore, IInv, TypeOK,
                                    SaveBeforeReset
  <1>10. QED
    BY <1>3, <1>4, <1>5, <1>6, <1>7, <1>8, <1>9 DEF Core1

\* core0's check: it takes reset_core only when it is set, and then the
\* settings were written.
LEMMA Core0CheckResetIInv == IInv /\ Core0CheckReset => IInv'
  <1> SUFFICES ASSUME IInv, Core0CheckReset PROVE IInv'
    OBVIOUS
  <1>1. saved /\ saved' = saved
    BY DEF Core0CheckReset, IInv, SaveBeforeReset
  <1>2. TypeOK'
    <2>1. /\ changed \in BOOLEAN /\ store_flag \in BOOLEAN
          /\ httpd \in BOOLEAN /\ foreign \in BOOLEAN
      BY FlagsBoolean DEF IInv
    <2>2. QED
      BY <1>1, <2>1 DEF Core0CheckReset, IInv, TypeOK
  <1>3. QED
    BY <1>1, <1>2 DEF Core0CheckReset, IInv, SaveBeforeReset

\* Every step, or a stutter, keeps the invariant.
LEMMA NextIInv == IInv /\ [Next]_vars => IInv'
  <1> SUFFICES ASSUME IInv, [Next]_vars PROVE IInv'
    OBVIOUS
  <1>1. CASE Callback
    BY <1>1, CallbackIInv
  <1>2. CASE Core1
    BY <1>2, Core1IInv
  <1>3. CASE Core0CheckReset
    BY <1>3, Core0CheckResetIInv
  <1>4. CASE UNCHANGED vars
    BY <1>4, FlagsBoolean DEF IInv, TypeOK, SaveBeforeReset, vars
  <1>5. QED
    BY <1>1, <1>2, <1>3, <1>4 DEF Next

\* The inductive invariant holds in every reachable state.
LEMMA AlwaysIInv == Spec => []IInv
  BY InitIInv, NextIInv, PTL DEF Spec

-----------------------------------------------------------------------------
\* httpd_post_receive_data never moves post_data_index past
\* MAX_POST_DATA_LEN, whatever the chunks and the connections sharing the
\* buffer, and the portal's state keeps its types.
THEOREM TypeCorrect == Spec => []TypeOK
  <1>1. IInv => TypeOK
    BY DEF IInv
  <1>2. QED
    BY <1>1, AlwaysIInv, PTL

\* core0 waits for the watchdog only after httpd_ap_mode has written the
\* settings (reset_core is set after write_settings_in_flash), in either
\* build and whatever the POSTs do.
THEOREM RestartAfterWrite == Spec => []RebootOnlyAfterSave
  <1>1. IInv => RebootOnlyAfterSave
    BY DEF IInv, SaveBeforeReset, RebootOnlyAfterSave
  <1>2. QED
    BY <1>1, AlwaysIInv, PTL

====

-------------------------- MODULE PanicHookProofs --------------------------
(***************************************************************************)
(* The properties of PanicHook that hold under every interleaving, proved  *)
(* for any finite set of runs and any nesting.  The invariant says what a  *)
(* drop whose fetch_sub saw 1 but which has not yet locked SAVED (a        *)
(* "pending" drop) can still find there: that is the window the race with  *)
(* a new install lives in.  Last, that without overlap the code keeps the  *)
(* promise of HookPromise.                                                 *)
(***************************************************************************)
EXTENDS PanicHook, FiniteSetTheorems, TLAPS

\* REFCOUNT is the number of runs between their fetch_add and fetch_sub.
RefcountCounts == refcount = Cardinality(Counted)

\* SAVED's mutex is held by one drop at a time.
OneRestorer == \A r, s \in Restoring : r = s

\* A run carries a hook exactly while it moves one, and never std's default.
HandHoldsHook ==
    \A r \in Runs : /\ hand[r] # "default"
                    /\ (hand[r] # "none") <=> (pc[r] \in {"save", "restore"})

\* Some run is inside install and has not yet stored what it took.
AboutToSave == \E r \in Runs : pc[r] \in {"take", "save"}

\* The original hook, a Box that is moved, is in one place at most.
OriginalNotCopied ==
    /\ hook = "original" => saved # "original" /\ \A r \in Runs : hand[r] # "original"
    /\ saved = "original" => \A r \in Runs : hand[r] # "original"
    /\ \A r, s \in Runs : hand[r] = "original" /\ hand[s] = "original" => r = s

\* std's default hook, which take_hook leaves behind, is a transient of an
\* install in progress and is never what SAVED would give back.
DefaultIsTransient ==
    /\ hook = "default" => \E r \in Runs : pc[r] \in {"save", "silence"}
    /\ saved # "default"

\* Counted guards whose installer is done mean silence, pending drops or not.
InstalledIsSilent == (refcount > 0 /\ Installing = {}) => hook = "silent"

\* A pending drop has not restored anything: the original hook is not
\* installed, and no install in progress has taken it.
PendingIsSilenced ==
    Pending # {} => /\ hook # "original"
                    /\ \A r \in Runs : pc[r] = "save" => hand[r] # "original"

\* The original hook, in SAVED or on its way back, has one drop to restore it,
\* and the guards that came after that drop are still being installed.
OneDropForOriginal ==
    /\ saved = "original" =>
         /\ \A r, s \in Pending : r = s
         /\ Pending # {} => (refcount = 0 \/ AboutToSave)
    /\ \A s \in Restoring : hand[s] = "original" =>
         /\ Pending = {}
         /\ refcount = 0 \/ AboutToSave

\* SAVED is non-empty only while somebody will still empty it.
SlotHasOwner == (refcount = 0 /\ Pending = {}) => saved = "none"

IInv ==
    /\ TypeOK
    /\ RefcountCounts
    /\ OneInstaller
    /\ OneRestorer
    /\ HandHoldsHook
    /\ OriginalNotCopied
    /\ DefaultIsTransient
    /\ InstalledIsSilent
    /\ PendingIsSilenced
    /\ OneDropForOriginal
    /\ SlotHasOwner

-----------------------------------------------------------------------------
(* The reference count and the set it counts.                              *)

LEMMA CountedFinite == IsFiniteSet(Counted)
  BY RunsAssumption, FS_Subset DEF Counted

LEMMA CountZero ==
  ASSUME RefcountCounts
  PROVE  refcount = 0 <=> Counted = {}
  BY CountedFinite, FS_EmptySet DEF RefcountCounts

LEMMA CountOne ==
  ASSUME RefcountCounts, refcount = 1,
         NEW r \in Counted, NEW s \in Counted
  PROVE  r = s
  <1>1. PICK x : Counted = {x}
    BY CountedFinite, FS_Singleton DEF RefcountCounts
  <1> QED BY <1>1

\* An action that moves a run within Counted, or outside it, keeps the count.
LEMMA CountKept ==
  ASSUME RefcountCounts, refcount' = refcount, Counted' = Counted
  PROVE  RefcountCounts'
  BY DEF RefcountCounts

LEMMA InitIInv == Init => IInv
  <1> SUFFICES ASSUME Init PROVE IInv
    OBVIOUS
  <1>1. TypeOK
    BY DEF Init, TypeOK, Hooks, Slot, Steps
  <1>2. Counted = {} /\ Installing = {} /\ Pending = {} /\ Restoring = {}
    BY DEF Init, Counted, Installing, Pending, Restoring
  <1>3. RefcountCounts
    BY <1>2, FS_EmptySet DEF Init, RefcountCounts
  <1>4. OneInstaller /\ OneRestorer /\ InstalledIsSilent /\ PendingIsSilenced
        /\ OneDropForOriginal /\ SlotHasOwner
    BY <1>2 DEF Init, OneInstaller, OneRestorer, InstalledIsSilent,
       PendingIsSilenced, OneDropForOriginal, SlotHasOwner
  <1>5. HandHoldsHook /\ OriginalNotCopied /\ DefaultIsTransient
    BY DEF Init, HandHoldsHook, OriginalNotCopied, DefaultIsTransient
  <1> QED BY <1>1, <1>3, <1>4, <1>5 DEF IInv

-----------------------------------------------------------------------------
(* One lemma per action.  FetchAdd: the run that sees 0 becomes the only   *)
(* installer, since nobody else is counted.                                *)

LEMMA FetchAddIInv ==
  ASSUME IInv, NEW r \in Runs, FetchAdd(r)
  PROVE  IInv'
  <1> USE DEF IInv
  <1>1. pc[r] = "idle" /\ pc' = [pc EXCEPT ![r] = IF refcount = 0 THEN "take" ELSE "live"]
        /\ refcount' = refcount + 1 /\ UNCHANGED <<hook, saved, hand, unwinding, aborted>>
    BY DEF FetchAdd
  <1>2. TypeOK'
    BY <1>1 DEF TypeOK, Steps
  <1>3. RefcountCounts'
    <2>1. Counted' = Counted \cup {r} /\ r \notin Counted
      BY <1>1 DEF Counted, TypeOK
    <2> QED BY <1>1, <2>1, CountedFinite, FS_AddElement DEF RefcountCounts
  <1>4. Pending' = Pending /\ Restoring' = Restoring
    BY <1>1 DEF Pending, Restoring, TypeOK
  <1>5. \/ refcount = 0 /\ Counted = {} /\ Installing' = {r} /\ AboutToSave'
        \/ refcount > 0 /\ Installing' = Installing /\ (AboutToSave => AboutToSave')
    <2>1. CASE refcount = 0
      <3>1. Counted = {}
        BY <2>1, CountZero
      <3> QED BY <1>1, <2>1, <3>1 DEF Counted, Installing, AboutToSave, TypeOK
    <2>2. CASE refcount > 0
      BY <1>1, <2>2 DEF Installing, AboutToSave, TypeOK
    <2> QED BY <2>1, <2>2 DEF TypeOK
  <1>6. OneInstaller'
    BY <1>5 DEF OneInstaller
  <1>7. OneRestorer' /\ HandHoldsHook' /\ OriginalNotCopied' /\ DefaultIsTransient'
    BY <1>1, <1>4 DEF OneRestorer, HandHoldsHook, OriginalNotCopied,
       DefaultIsTransient, TypeOK
  <1>8. InstalledIsSilent'
    BY <1>1, <1>5 DEF InstalledIsSilent
  <1>9. PendingIsSilenced'
    BY <1>1, <1>4 DEF PendingIsSilenced, TypeOK
  <1>10. OneDropForOriginal'
    BY <1>1, <1>4, <1>5 DEF OneDropForOriginal
  <1>11. SlotHasOwner'
    BY <1>1, <1>2 DEF SlotHasOwner, TypeOK
  <1> QED BY <1>2, <1>3, <1>6, <1>7, <1>8, <1>9, <1>10, <1>11

LEMMA TakeHookIInv ==
  ASSUME IInv, NEW r \in Runs, TakeHook(r)
  PROVE  IInv'
  <1> USE DEF IInv
  <1>1. pc[r] = "take" /\ pc' = [pc EXCEPT ![r] = "save"]
        /\ hook' = "default" /\ hand' = [hand EXCEPT ![r] = hook]
        /\ UNCHANGED <<saved, refcount, unwinding, aborted>>
    BY DEF TakeHook
  <1>2. hook # "default"   \* r would not be the only installer
    BY <1>1 DEF DefaultIsTransient, OneInstaller, Installing
  <1>3. TypeOK'
    BY <1>1 DEF TypeOK, Steps, Slot, Hooks
  <1>4. Counted' = Counted /\ Installing' = Installing /\ Pending' = Pending
        /\ Restoring' = Restoring /\ r \in Installing /\ AboutToSave'
    BY <1>1 DEF Counted, Installing, Pending, Restoring, AboutToSave, TypeOK
  <1>5. RefcountCounts'
    BY <1>1, <1>4, CountKept
  <1>6. OneInstaller' /\ OneRestorer'
    BY <1>4 DEF OneInstaller, OneRestorer
  <1>7. HandHoldsHook'
    BY <1>1, <1>2 DEF HandHoldsHook, TypeOK, Hooks
  <1>8. OriginalNotCopied'
    BY <1>1 DEF OriginalNotCopied, TypeOK
  <1>9. DefaultIsTransient'
    BY <1>1 DEF DefaultIsTransient, TypeOK
  <1>10. InstalledIsSilent'
    BY <1>4 DEF InstalledIsSilent
  <1>11. PendingIsSilenced'
    BY <1>1, <1>4 DEF PendingIsSilenced, TypeOK
  <1>12. OneDropForOriginal'
    BY <1>1, <1>4 DEF OneDropForOriginal, Restoring, TypeOK
  <1>13. SlotHasOwner'
    BY <1>1, <1>4 DEF SlotHasOwner
  <1> QED BY <1>3, <1>5, <1>6, <1>7, <1>8, <1>9, <1>10, <1>11, <1>12, <1>13

LEMMA SavePreviousIInv ==
  ASSUME IInv, NEW r \in Runs, SavePrevious(r)
  PROVE  IInv'
  <1> USE DEF IInv
  <1>1. pc[r] = "save" /\ Restoring = {} /\ pc' = [pc EXCEPT ![r] = "silence"]
        /\ saved' = hand[r] /\ hand' = [hand EXCEPT ![r] = "none"]
        /\ UNCHANGED <<hook, refcount, unwinding, aborted>>
    BY DEF SavePrevious
  <1>2. TypeOK'
    BY <1>1 DEF TypeOK, Steps, Slot
  <1>3. Counted' = Counted /\ Installing' = Installing /\ Pending' = Pending
        /\ Restoring' = {} /\ r \in Installing /\ r \in Counted
    BY <1>1 DEF Counted, Installing, Pending, Restoring, TypeOK
  <1>4. RefcountCounts'
    BY <1>1, <1>3, CountKept
  <1>5. OneInstaller' /\ OneRestorer'
    BY <1>3 DEF OneInstaller, OneRestorer
  <1>6. HandHoldsHook'
    BY <1>1 DEF HandHoldsHook, TypeOK
  <1>7. OriginalNotCopied'
    BY <1>1 DEF OriginalNotCopied, TypeOK
  <1>8. DefaultIsTransient'
    BY <1>1 DEF DefaultIsTransient, HandHoldsHook, TypeOK
  <1>9. InstalledIsSilent'
    BY <1>3 DEF InstalledIsSilent
  <1>10. PendingIsSilenced'
    BY <1>1, <1>3 DEF PendingIsSilenced, TypeOK
  <1>11. OneDropForOriginal'   \* with a drop pending, r holds no original hook
    BY <1>1, <1>3 DEF OneDropForOriginal, PendingIsSilenced
  <1>12. SlotHasOwner'
    BY <1>1, <1>3, CountZero DEF SlotHasOwner
  <1> QED BY <1>2, <1>4, <1>5, <1>6, <1>7, <1>8, <1>9, <1>10, <1>11, <1>12

LEMMA SilenceIInv ==
  ASSUME IInv, NEW r \in Runs, Silence(r)
  PROVE  IInv'
  <1> USE DEF IInv
  <1>1. pc[r] = "silence" /\ pc' = [pc EXCEPT ![r] = "live"] /\ hook' = "silent"
        /\ UNCHANGED <<saved, refcount, hand, unwinding, aborted>>
    BY DEF Silence
  <1>2. TypeOK'
    BY <1>1 DEF TypeOK, Steps, Hooks
  <1>3. Counted' = Counted /\ Installing' = Installing \ {r} /\ Pending' = Pending
        /\ Restoring' = Restoring /\ (AboutToSave => AboutToSave')
    BY <1>1 DEF Counted, Installing, Pending, Restoring, AboutToSave, TypeOK
  <1>4. RefcountCounts'
    BY <1>1, <1>3, CountKept
  <1>5. OneInstaller' /\ OneRestorer'
    BY <1>3 DEF OneInstaller, OneRestorer
  <1>6. HandHoldsHook' /\ OriginalNotCopied' /\ DefaultIsTransient'
    BY <1>1 DEF HandHoldsHook, OriginalNotCopied, DefaultIsTransient, TypeOK
  <1>7. InstalledIsSilent'
    BY <1>1 DEF InstalledIsSilent
  <1>8. PendingIsSilenced'
    BY <1>1, <1>3 DEF PendingIsSilenced, TypeOK
  <1>9. OneDropForOriginal'
    BY <1>1, <1>3 DEF OneDropForOriginal
  <1>10. SlotHasOwner'
    BY <1>1, <1>3 DEF SlotHasOwner
  <1> QED BY <1>2, <1>4, <1>5, <1>6, <1>7, <1>8, <1>9, <1>10

\* fetch_sub: a run that sees 1 was the only counted one, so no install is in
\* progress, the hook is silent and no other drop waits for the original hook.
LEMMA FetchSubIInv ==
  ASSUME IInv, NEW r \in Runs, NEW panics \in BOOLEAN, FetchSub(r, panics)
  PROVE  IInv'
  <1> USE DEF IInv
  <1>1. pc[r] = "live" /\ refcount' = refcount - 1
        /\ pc' = [pc EXCEPT ![r] = IF refcount = 1 THEN "lock" ELSE "idle"]
        /\ UNCHANGED <<hook, saved, hand, aborted>>
    BY DEF FetchSub
  <1>2. r \in Counted /\ Counted' = Counted \ {r} /\ Installing' = Installing
        /\ Restoring' = Restoring /\ AboutToSave' = AboutToSave
    BY <1>1 DEF Counted, Installing, Restoring, AboutToSave, TypeOK
  <1>3. refcount > 0 /\ refcount' \in Nat
    BY <1>1, <1>2, CountZero DEF TypeOK
  <1>4. TypeOK'
    BY <1>1, <1>3 DEF TypeOK, Steps, FetchSub
  <1>5. RefcountCounts'
    BY <1>1, <1>2, CountedFinite, FS_RemoveElement DEF RefcountCounts
  <1>6. OneInstaller' /\ OneRestorer'
    BY <1>2 DEF OneInstaller, OneRestorer
  <1>7. HandHoldsHook' /\ OriginalNotCopied' /\ DefaultIsTransient'
    BY <1>1 DEF HandHoldsHook, OriginalNotCopied, DefaultIsTransient, TypeOK
  <1>8. InstalledIsSilent'
    BY <1>1, <1>2, <1>3 DEF InstalledIsSilent
  <1>9. CASE refcount = 1
    <2>1. Pending' = Pending \cup {r} /\ refcount' = 0
      BY <1>1, <1>9 DEF Pending, TypeOK
    <2>2. \A s \in Counted : s = r
      BY <1>2, <1>9, CountOne
    <2>3. Installing = {} /\ ~AboutToSave /\ hook = "silent"
      BY <1>1, <1>9, <2>2 DEF Counted, Installing, AboutToSave, InstalledIsSilent
    <2>4. PendingIsSilenced'
      BY <1>1, <2>3 DEF PendingIsSilenced, AboutToSave, TypeOK
    <2>5. OneDropForOriginal'
      BY <1>1, <1>2, <1>9, <2>1, <2>3 DEF OneDropForOriginal
    <2>6. SlotHasOwner'
      BY <2>1 DEF SlotHasOwner
    <2> QED BY <1>4, <1>5, <1>6, <1>7, <1>8, <2>4, <2>5, <2>6
  <1>10. CASE refcount # 1
    <2>1. Pending' = Pending /\ refcount' # 0 /\ refcount # 0
      BY <1>1, <1>3, <1>10 DEF Pending, TypeOK
    <2>2. PendingIsSilenced'
      BY <1>1, <2>1 DEF PendingIsSilenced, TypeOK
    <2>3. OneDropForOriginal'
      BY <1>1, <1>2, <2>1 DEF OneDropForOriginal
    <2>4. SlotHasOwner'
      BY <2>1 DEF SlotHasOwner
    <2> QED BY <1>4, <1>5, <1>6, <1>7, <1>8, <2>2, <2>3, <2>4
  <1> QED BY <1>9, <1>10

LEMMA LockAndTakeIInv ==
  ASSUME IInv, NEW r \in Runs, LockAndTake(r)
  PROVE  IInv'
  <1> USE DEF IInv
  <1>1. pc[r] = "lock" /\ Restoring = {} /\ saved' = "none"
        /\ hand' = [hand EXCEPT ![r] = saved]
        /\ pc' = [pc EXCEPT ![r] = IF saved = "none" THEN "idle" ELSE "restore"]
        /\ UNCHANGED <<hook, refcount, aborted>>
    BY DEF LockAndTake
  <1>2. TypeOK'
    BY <1>1 DEF TypeOK, Steps, Slot, LockAndTake
  <1>3. Counted' = Counted /\ Installing' = Installing /\ Pending' = Pending \ {r}
        /\ r \in Pending /\ Restoring' \subseteq {r} /\ AboutToSave' = AboutToSave
    BY <1>1 DEF Counted, Installing, Pending, Restoring, AboutToSave, TypeOK
  <1>4. RefcountCounts'
    BY <1>1, <1>3, CountKept
  <1>5. OneInstaller' /\ OneRestorer'
    BY <1>3 DEF OneInstaller, OneRestorer
  <1>6. HandHoldsHook'
    BY <1>1 DEF HandHoldsHook, DefaultIsTransient, TypeOK
  <1>7. OriginalNotCopied' /\ DefaultIsTransient'
    BY <1>1 DEF OriginalNotCopied, DefaultIsTransient, TypeOK
  <1>8. InstalledIsSilent'
    BY <1>1, <1>3 DEF InstalledIsSilent
  <1>9. PendingIsSilenced'
    BY <1>1, <1>3 DEF PendingIsSilenced, TypeOK
  <1>10. OneDropForOriginal'
    <2>1. ASSUME NEW s \in Restoring', hand'[s] = "original"
          PROVE  Pending' = {} /\ (refcount' = 0 \/ AboutToSave')
      <3>1. s = r /\ saved = "original"
        BY <1>1, <1>3, <2>1 DEF TypeOK
      <3> QED BY <1>1, <1>3, <3>1 DEF OneDropForOriginal
    <2> QED BY <1>1, <2>1 DEF OneDropForOriginal
  <1>11. SlotHasOwner'
    BY <1>1 DEF SlotHasOwner
  <1> QED BY <1>2, <1>4, <1>5, <1>6, <1>7, <1>8, <1>9, <1>10, <1>11

\* set_hook(prev): putting the original hook back while a later install is in
\* progress is harmless for silence, that install silences after it.
LEMMA RestoreIInv ==
  ASSUME IInv, NEW r \in Runs, Restore(r)
  PROVE  IInv'
  <1> USE DEF IInv
  <1>1. pc[r] = "restore" /\ hook' = hand[r] /\ hand' = [hand EXCEPT ![r] = "none"]
        /\ pc' = [pc EXCEPT ![r] = "idle"]
        /\ UNCHANGED <<saved, refcount, unwinding, aborted>>
    BY DEF Restore
  <1>2. r \in Restoring /\ hand[r] \in {"original", "silent"}
    BY <1>1 DEF Restoring, HandHoldsHook, TypeOK, Slot, Hooks
  <1>3. TypeOK'
    BY <1>1, <1>2 DEF TypeOK, Steps, Slot, Hooks
  <1>4. Counted' = Counted /\ Installing' = Installing /\ Pending' = Pending
        /\ Restoring' = Restoring \ {r} /\ AboutToSave' = AboutToSave
    BY <1>1 DEF Counted, Installing, Pending, Restoring, AboutToSave, TypeOK
  <1>5. RefcountCounts'
    BY <1>1, <1>4, CountKept
  <1>6. OneInstaller' /\ OneRestorer'
    BY <1>4 DEF OneInstaller, OneRestorer
  <1>7. HandHoldsHook'
    BY <1>1 DEF HandHoldsHook, TypeOK
  <1>8. OriginalNotCopied'
    BY <1>1 DEF OriginalNotCopied, TypeOK
  <1>9. DefaultIsTransient'
    BY <1>1, <1>2 DEF DefaultIsTransient
  <1>10. InstalledIsSilent'
    BY <1>1, <1>2, <1>4 DEF InstalledIsSilent, OneDropForOriginal, AboutToSave, Installing
  <1>11. PendingIsSilenced'
    BY <1>1, <1>2, <1>4 DEF PendingIsSilenced, OneDropForOriginal, TypeOK
  <1>12. OneDropForOriginal'
    <2>1. \A s \in Restoring' : hand'[s] = hand[s]
      BY <1>1, <1>4 DEF Restoring, TypeOK
    <2> QED BY <1>1, <1>4, <2>1 DEF OneDropForOriginal
  <1>13. SlotHasOwner'
    BY <1>1, <1>4 DEF SlotHasOwner
  <1> QED BY <1>3, <1>5, <1>6, <1>7, <1>8, <1>9, <1>10, <1>11, <1>12, <1>13

\* Stuttering, and the abort, which stops everything where it is.
LEMMA StillIInv ==
  ASSUME IInv, UNCHANGED <<hook, saved, refcount, pc, hand, unwinding>>,
         aborted' \in BOOLEAN
  PROVE  IInv'
  BY DEF IInv, TypeOK, RefcountCounts, OneInstaller, OneRestorer, HandHoldsHook,
     OriginalNotCopied, DefaultIsTransient, InstalledIsSilent, PendingIsSilenced,
     OneDropForOriginal, SlotHasOwner, Counted, Installing, Pending, Restoring,
     AboutToSave

LEMMA NextIInv == IInv /\ [Next]_vars => IInv'
  <1> SUFFICES ASSUME IInv, [Next]_vars PROVE IInv'
    OBVIOUS
  <1>1. ASSUME NEW r \in Runs, Install(r) PROVE IInv'
    BY <1>1, FetchAddIInv, TakeHookIInv, SavePreviousIInv, SilenceIInv DEF Install
  <1>2. ASSUME NEW r \in Runs, Drop(r) PROVE IInv'
    <2>1. ASSUME RestoreWhileUnwinding(r) PROVE IInv'
      BY <2>1, StillIInv DEF RestoreWhileUnwinding
    <2> QED BY <1>2, <2>1, FetchSubIInv, LockAndTakeIInv, RestoreIInv DEF Drop
  <1>3. ASSUME UNCHANGED vars PROVE IInv'
    BY <1>3, StillIInv DEF vars, IInv, TypeOK
  <1> QED BY <1>1, <1>2, <1>3 DEF Next, ProcessDead

-----------------------------------------------------------------------------
(* The theorems.                                                           *)

\* The invariant holds in every state of every interleaving.
THEOREM Invariant == Spec => []IInv
  BY InitIInv, NextIInv, PTL DEF Spec

\* Every variable keeps its type, and REFCOUNT never goes below 0.
THEOREM TypeCorrect == Spec => []TypeOK
  <1>1. IInv => TypeOK
    BY DEF IInv
  <1> QED BY <1>1, Invariant, PTL

\* The take_hook .. set_hook window of install has one run in it at most.
THEOREM InstallersExclude == Spec => []OneInstaller
  <1>1. IInv => OneInstaller
    BY DEF IInv
  <1> QED BY <1>1, Invariant, PTL

\* However installs and drops raced, a settled live guard means silence.
THEOREM SilenceWhenSettled == Spec => []SettledSilence
  <1>1. IInv => SettledSilence
    BY DEF IInv, SettledSilence, InstalledIsSilent, Settled, Installing
  <1> QED BY <1>1, Invariant, PTL

\* However installs and drops raced, when all guards are gone and all drops are
\* over SAVED is empty and the hook is the original one or silent.
THEOREM RaceLeavesSilenceAtWorst == Spec => []LeftAtRest
  <1>1. IInv => LeftAtRest
    BY DEF IInv, LeftAtRest, SlotHasOwner, DefaultIsTransient, TypeOK, Hooks, Settled, Pending
  <1> QED BY <1>1, Invariant, PTL

-----------------------------------------------------------------------------
(* The promise: without overlap, install and drop are atomic.              *)

Moving(r) == pc[r] \notin {"idle", "live"}

\* What the one run that is installing or dropping finds and leaves, and what
\* is there while none is.
WhereTheHookIs ==
    /\ Settled => IF refcount = 0 THEN hook = "original" /\ saved = "none"
                                  ELSE hook = "silent" /\ saved = "original"
    /\ \A r \in Runs :
         /\ pc[r] \in {"take", "save", "silence"} => refcount = 1
         /\ pc[r] \in {"lock", "restore"} => refcount = 0
         /\ pc[r] = "take"    => hook = "original" /\ saved = "none"
         /\ pc[r] = "save"    => hook = "default" /\ hand[r] = "original" /\ saved = "none"
         /\ pc[r] = "silence" => hook = "default" /\ saved = "original"
         /\ pc[r] = "lock"    => hook = "silent" /\ saved = "original"
         /\ pc[r] = "restore" => hook = "silent" /\ hand[r] = "original" /\ saved = "none"

\* Without overlap one run moves at a time.
InTurn ==
    ~overlap => /\ \A r, s \in Runs : Moving(r) /\ Moving(s) => r = s
                /\ WhereTheHookIs

LEMMA InitInTurn == Init => InTurn
  BY DEF Init, InTurn, Moving, WhereTheHookIs

\* A run starts to move when no other does, and goes on moving alone.
LEMMA OneMoves ==
  ASSUME IInv, InTurn, ~overlap, NEW r \in Runs, Install(r) \/ Drop(r)
  PROVE  /\ \A s \in Runs \ {r} : pc[s] \in {"idle", "live"} /\ pc'[s] = pc[s]
                                  /\ hand'[s] = hand[s]
         /\ \/ RestoreWhileUnwinding(r) /\ UNCHANGED pc
            \/ pc' = [pc EXCEPT ![r] = pc'[r]]
  <1>1. pc \in [Runs -> Steps] /\ hand \in [Runs -> Slot]
    BY DEF IInv, TypeOK
  <1>2. /\ \/ RestoreWhileUnwinding(r) /\ UNCHANGED <<pc, hand>>
           \/ \E p, h : pc' = [pc EXCEPT ![r] = p] /\ hand' = [hand EXCEPT ![r] = h]
    <2>1. CASE Install(r)
      <3>1. hand = [hand EXCEPT ![r] = hand[r]]
        BY <1>1
      <3> QED BY <2>1, <3>1 DEF Install, FetchAdd, TakeHook, SavePrevious, Silence
    <2>2. CASE Drop(r)
      <3>1. hand = [hand EXCEPT ![r] = hand[r]]
        BY <1>1
      <3>2. ASSUME NEW panics \in BOOLEAN, FetchSub(r, panics)
            PROVE  pc' = [pc EXCEPT ![r] = IF refcount = 1 THEN "lock" ELSE "idle"]
                   /\ hand' = hand
        BY <3>2 DEF FetchSub
      <3>3. ASSUME LockAndTake(r)
            PROVE  pc' = [pc EXCEPT ![r] = IF saved = "none" THEN "idle" ELSE "restore"]
                   /\ hand' = [hand EXCEPT ![r] = saved]
        BY <3>3 DEF LockAndTake
      <3>4. ASSUME Restore(r)
            PROVE  pc' = [pc EXCEPT ![r] = "idle"] /\ hand' = [hand EXCEPT ![r] = "none"]
        BY <3>4 DEF Restore
      <3>5. ASSUME RestoreWhileUnwinding(r) PROVE UNCHANGED <<pc, hand>>
        BY <3>5 DEF RestoreWhileUnwinding
      <3> QED BY <2>2, <3>1, <3>2, <3>3, <3>4, <3>5 DEF Drop
    <2> QED BY <2>1, <2>2
  <1>3. Settled \/ Moving(r)
    BY DEF Install, Drop, FetchAdd, TakeHook, SavePrevious, Silence, FetchSub, LockAndTake,
           Restore, RestoreWhileUnwinding, MayTransit, Moving
  <1>4. \A s \in Runs \ {r} : pc[s] \in {"idle", "live"}
    BY <1>3 DEF InTurn, Settled, Moving
  <1> QED BY <1>1, <1>2, <1>4

\* The guards of the promise, and what counts as silence.
Guards  == {r \in Runs : pc[r] \in {"save", "silence", "live", "lock", "restore"}}
Visible == hook = "original"

PromiseStep ==
    \/ \E r \in Runs : /\ r \notin Guards /\ Guards' = Guards \cup {r} /\ ~Visible'
    \/ \E r \in Runs : /\ r \in Guards /\ Guards' = Guards \ {r}
                       /\ (Visible' <=> Guards' = {})
    \/ Guards' = Guards /\ (Visible' <=> Visible)

\* A run that keeps its guard, or keeps having none, shows nothing of it.
LEMMA GuardsAfter ==
  ASSUME TypeOK, NEW r \in Runs, NEW q \in Steps, pc' = [pc EXCEPT ![r] = q]
  PROVE  Guards' = IF q \in {"idle", "take"} THEN Guards \ {r} ELSE Guards \cup {r}
  BY DEF TypeOK, Guards, Steps

\* The first guard finds the original hook, a later one silence.
LEMMA FetchAddInTurn ==
  ASSUME IInv, InTurn, ~overlap, overlap' = overlap, NEW r \in Runs, FetchAdd(r)
  PROVE  InTurn' /\ PromiseStep
  <1>1. /\ Settled /\ pc[r] = "idle" /\ refcount' = refcount + 1
        /\ pc' = [pc EXCEPT ![r] = IF refcount = 0 THEN "take" ELSE "live"]
        /\ UNCHANGED <<hook, saved, hand>>
    BY DEF FetchAdd, MayTransit
  <1>2. TypeOK /\ WhereTheHookIs
    BY DEF IInv, InTurn
  <1>3. \A s \in Runs \ {r} : pc'[s] = pc[s] /\ pc[s] \in {"idle", "live"}
    BY <1>1, <1>2 DEF TypeOK, Settled
  <1>4. CASE refcount = 0
    <2>1. pc'[r] = "take" /\ Guards' = Guards \ {r} /\ r \notin Guards
      BY <1>1, <1>2, <1>4, GuardsAfter DEF TypeOK, Steps, Guards
    <2>2. InTurn'
      BY <1>1, <1>2, <1>3, <1>4, <2>1 DEF InTurn, Moving, WhereTheHookIs, Settled
    <2> QED BY <1>1, <2>1, <2>2 DEF PromiseStep, Visible
  <1>5. CASE refcount # 0
    <2>1. pc'[r] = "live" /\ Guards' = Guards \cup {r} /\ r \notin Guards
      BY <1>1, <1>2, <1>5, GuardsAfter DEF TypeOK, Steps, Guards
    <2>2. hook = "silent" /\ saved = "original" /\ refcount + 1 # 0
      BY <1>1, <1>2, <1>5 DEF WhereTheHookIs, TypeOK
    <2>3. InTurn'
      BY <1>1, <1>3, <2>1, <2>2 DEF InTurn, Moving, WhereTheHookIs, Settled
    <2> QED BY <1>1, <2>1, <2>2, <2>3 DEF PromiseStep, Visible
  <1> QED BY <1>4, <1>5

\* take_hook is where the first guard takes effect.
LEMMA InstallInTurn ==
  ASSUME IInv, InTurn, ~overlap, overlap' = overlap, NEW r \in Runs,
         TakeHook(r) \/ SavePrevious(r) \/ Silence(r)
  PROVE  InTurn' /\ PromiseStep
  <1>1. TypeOK /\ WhereTheHookIs
    BY DEF IInv, InTurn
  <1>2. \A s \in Runs \ {r} : pc'[s] = pc[s] /\ hand'[s] = hand[s] /\ pc[s] \in {"idle", "live"}
    BY OneMoves DEF Install
  <1>3. CASE TakeHook(r)
    <2>1. pc[r] = "take" /\ pc' = [pc EXCEPT ![r] = "save"] /\ hook' = "default"
          /\ hand'[r] = hook /\ UNCHANGED <<saved, refcount>>
      BY <1>1, <1>3 DEF TakeHook, TypeOK
    <2>2. hook = "original" /\ saved = "none" /\ refcount = 1
      BY <1>1, <2>1 DEF WhereTheHookIs
    <2>3. pc'[r] = "save" /\ Guards' = Guards \cup {r} /\ r \notin Guards
      BY <1>1, <2>1, GuardsAfter DEF TypeOK, Steps, Guards
    <2>4. InTurn'
      BY <1>2, <2>1, <2>2, <2>3 DEF InTurn, Moving, WhereTheHookIs, Settled
    <2> QED BY <2>1, <2>3, <2>4 DEF PromiseStep, Visible
  <1>4. CASE SavePrevious(r)
    <2>1. pc[r] = "save" /\ pc' = [pc EXCEPT ![r] = "silence"] /\ saved' = hand[r]
          /\ UNCHANGED <<hook, refcount>>
      BY <1>4 DEF SavePrevious
    <2>2. hook = "default" /\ hand[r] = "original" /\ refcount = 1
      BY <1>1, <2>1 DEF WhereTheHookIs
    <2>3. pc'[r] = "silence" /\ Guards' = Guards \cup {r} /\ r \in Guards
      BY <1>1, <2>1, GuardsAfter DEF TypeOK, Steps, Guards
    <2>4. InTurn'
      BY <1>2, <2>1, <2>2, <2>3 DEF InTurn, Moving, WhereTheHookIs, Settled
    <2> QED BY <2>1, <2>3, <2>4 DEF PromiseStep, Visible
  <1>5. CASE Silence(r)
    <2>1. pc[r] = "silence" /\ pc' = [pc EXCEPT ![r] = "live"] /\ hook' = "silent"
          /\ UNCHANGED <<saved, refcount>>
      BY <1>5 DEF Silence
    <2>2. hook = "default" /\ saved = "original" /\ refcount = 1
      BY <1>1, <2>1 DEF WhereTheHookIs
    <2>3. pc'[r] = "live" /\ Guards' = Guards \cup {r} /\ r \in Guards
      BY <1>1, <2>1, GuardsAfter DEF TypeOK, Steps, Guards
    <2>4. InTurn'
      BY <1>2, <2>1, <2>2, <2>3 DEF InTurn, Moving, WhereTheHookIs, Settled
    <2> QED BY <2>1, <2>2, <2>3, <2>4 DEF PromiseStep, Visible
  <1> QED BY <1>3, <1>4, <1>5

\* A guard that others outlive leaves without a trace; the last one goes on.
LEMMA FetchSubInTurn ==
  ASSUME IInv, InTurn, ~overlap, overlap' = overlap, NEW r \in Runs,
         NEW panics \in BOOLEAN, FetchSub(r, panics)
  PROVE  InTurn' /\ PromiseStep
  <1>1. /\ Settled /\ pc[r] = "live" /\ refcount' = refcount - 1
        /\ pc' = [pc EXCEPT ![r] = IF refcount = 1 THEN "lock" ELSE "idle"]
        /\ UNCHANGED <<hook, saved, hand>>
    BY DEF FetchSub, MayTransit
  <1>2. TypeOK /\ WhereTheHookIs /\ RefcountCounts
    BY DEF IInv, InTurn
  <1>3. \A s \in Runs \ {r} : pc'[s] = pc[s] /\ pc[s] \in {"idle", "live"}
    BY <1>1, <1>2 DEF TypeOK, Settled
  <1>4. refcount \in Nat /\ refcount # 0
    BY <1>1, <1>2, CountZero DEF Counted, TypeOK
  <1>5. hook = "silent" /\ saved = "original"
    BY <1>1, <1>2, <1>4 DEF WhereTheHookIs
  <1>6. CASE refcount = 1
    <2>1. pc'[r] = "lock" /\ Guards' = Guards \cup {r} /\ r \in Guards
      BY <1>1, <1>2, <1>6, GuardsAfter DEF TypeOK, Steps, Guards
    <2>2. InTurn'
      BY <1>1, <1>3, <1>5, <1>6, <2>1 DEF InTurn, Moving, WhereTheHookIs, Settled
    <2> QED BY <1>1, <2>1, <2>2 DEF PromiseStep, Visible
  <1>7. CASE refcount # 1
    <2>1. pc'[r] = "idle" /\ Guards' = Guards \ {r} /\ r \in Guards
      BY <1>1, <1>2, <1>7, GuardsAfter DEF TypeOK, Steps, Guards
    <2>2. refcount' # 0 /\ refcount' \in Nat
      BY <1>1, <1>4, <1>7
    <2>3. InTurn'
      BY <1>1, <1>3, <1>5, <2>1, <2>2 DEF InTurn, Moving, WhereTheHookIs, Settled
    <2>4. Guards' # {}
      <3>1. \E s \in Runs \ {r} : pc[s] = "live"
        <4>1. Counted # {r}
          BY <1>2, <1>7, FS_Singleton DEF RefcountCounts
        <4>2. r \in Counted
          BY <1>1 DEF Counted
        <4>3. PICK s \in Counted : s # r
          BY <4>1, <4>2
        <4> QED BY <1>3, <4>3 DEF Counted
      <3> QED BY <1>3, <3>1 DEF Guards
    <2> QED BY <1>1, <1>5, <2>1, <2>3, <2>4 DEF PromiseStep, Visible
  <1> QED BY <1>6, <1>7

\* set_hook(prev) is where the last guard ends.
LEMMA RestoreInTurn ==
  ASSUME IInv, InTurn, ~overlap, overlap' = overlap, NEW r \in Runs,
         LockAndTake(r) \/ Restore(r)
  PROVE  InTurn' /\ PromiseStep
  <1>1. TypeOK /\ WhereTheHookIs /\ RefcountCounts
    BY DEF IInv, InTurn
  <1>2. \A s \in Runs \ {r} : pc'[s] = pc[s] /\ hand'[s] = hand[s] /\ pc[s] \in {"idle", "live"}
    BY OneMoves DEF Drop
  <1>3. CASE LockAndTake(r)
    <2>1. pc[r] = "lock" /\ saved' = "none" /\ hand'[r] = saved /\ UNCHANGED <<hook, refcount>>
          /\ pc' = [pc EXCEPT ![r] = IF saved = "none" THEN "idle" ELSE "restore"]
      BY <1>1, <1>3 DEF LockAndTake, TypeOK
    <2>2. hook = "silent" /\ saved = "original" /\ refcount = 0
      BY <1>1, <2>1 DEF WhereTheHookIs
    <2>3. pc'[r] = "restore" /\ Guards' = Guards \cup {r} /\ r \in Guards
      BY <1>1, <2>1, <2>2, GuardsAfter DEF TypeOK, Steps, Guards
    <2>4. InTurn'
      BY <1>2, <2>1, <2>2, <2>3 DEF InTurn, Moving, WhereTheHookIs, Settled
    <2> QED BY <2>1, <2>3, <2>4 DEF PromiseStep, Visible
  <1>4. CASE Restore(r)
    <2>1. pc[r] = "restore" /\ pc' = [pc EXCEPT ![r] = "idle"] /\ hook' = hand[r]
          /\ UNCHANGED <<saved, refcount>>
      BY <1>4 DEF Restore
    <2>2. hand[r] = "original" /\ saved = "none" /\ refcount = 0
      BY <1>1, <2>1 DEF WhereTheHookIs
    <2>3. pc'[r] = "idle" /\ Guards' = Guards \ {r} /\ r \in Guards
      BY <1>1, <2>1, GuardsAfter DEF TypeOK, Steps, Guards
    <2>4. InTurn'
      BY <1>2, <2>1, <2>2, <2>3 DEF InTurn, Moving, WhereTheHookIs, Settled
    <2>5. Guards' = {}
      <3>1. Counted = {}
        BY <1>1, <2>2, CountZero
      <3> QED BY <1>2, <2>3, <3>1 DEF Guards, Counted
    <2> QED BY <2>1, <2>2, <2>3, <2>4, <2>5 DEF PromiseStep, Visible
  <1> QED BY <1>3, <1>4

LEMMA NextInTurn == IInv /\ InTurn /\ [Next]_vars => InTurn' /\ (overlap \/ PromiseStep)
  <1> SUFFICES ASSUME IInv, InTurn, [Next]_vars PROVE InTurn' /\ (overlap \/ PromiseStep)
    OBVIOUS
  <1>1. overlap' = overlap
    BY DEF Next, vars
  <1>2. CASE overlap
    BY <1>1, <1>2 DEF InTurn
  <1>3. CASE ~overlap
    <2>1. ASSUME UNCHANGED <<hook, saved, refcount, pc, hand>> PROVE InTurn' /\ PromiseStep
      BY <1>1, <2>1 DEF InTurn, Moving, WhereTheHookIs, Settled, PromiseStep, Guards, Visible
    <2>2. ASSUME NEW r \in Runs, Install(r) PROVE InTurn' /\ PromiseStep
      BY <1>1, <1>3, <2>2, FetchAddInTurn, InstallInTurn DEF Install
    <2>3. ASSUME NEW r \in Runs, Drop(r) PROVE InTurn' /\ PromiseStep
      <3>1. ASSUME RestoreWhileUnwinding(r) PROVE InTurn' /\ PromiseStep
        BY <2>1, <3>1 DEF RestoreWhileUnwinding
      <3> QED BY <1>1, <1>3, <2>3, <3>1, FetchSubInTurn, RestoreInTurn DEF Drop
    <2> QED BY <2>1, <2>2, <2>3 DEF Next, ProcessDead, vars
  <1> QED BY <1>2, <1>3

\* As long as no install or drop overlaps another, the guards keep the promise
\* of the module comment: the first one replaces the hook, the last one puts
\* it back, and in between panics are silent.
THEOREM PromiseKept == Spec => ImplementsPromise
  <1>1. Init => Promise!PromiseInit
    BY DEF Init, Promise!PromiseInit
  <1>2. IInv /\ InTurn /\ [Next]_vars => InTurn'
    BY NextInTurn
  <1>3. IInv /\ InTurn /\ [Next]_vars
        => [overlap \/ Promise!PromiseNext]_(Promise!promiseVars)
    <2> SUFFICES ASSUME PromiseStep
                 PROVE  [Promise!PromiseNext]_(Promise!promiseVars)
      BY NextInTurn
    <2> QED BY DEF PromiseStep, Guards, Visible, Promise!PromiseNext, Promise!Acquire,
                   Promise!Release, Promise!promiseVars
  <1> QED BY <1>1, <1>2, <1>3, InitInTurn, Invariant, PTL DEF Spec, ImplementsPromise
=============================================================================

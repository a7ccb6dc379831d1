--------------------------- MODULE BlockOnProofs ---------------------------
(***************************************************************************)
(* Parker loses no wake-up and implements a token, for every number of     *)
(* sources and every future that keeps the contract of poll.               *)
(***************************************************************************)
EXTENDS BlockOn, FiniteSetTheorems, TLAPS

\* A source found finished is finished, and one that holds a waker has
\* progress left to call it for.
PollSound ==
    /\ observed \subseteq Finished
    /\ \A s \in registered : left[s] > 0 /\ s \notin Inline

\* Each source the current poll has looked at was finished then, or still
\* holds the waker, or has called it since and not in vain.
Covered == \A s \in polled : s \in registered \cup observed \cup Waking \/ flag

\* The executor parks only after a poll that has looked at every source and
\* has not seen enough of them finished.
PollPaid == Parked => polled = Sources /\ Cardinality(observed) < Enough

IInv == TypeOK /\ PollSound /\ Covered /\ PollPaid /\ NoSleepOnToken

-----------------------------------------------------------------------------

LEMMA InitIInv == Init => IInv
  BY BlockOnAssumption
     DEF Init, IInv, TypeOK, ExecSteps, WakerSteps, PollSound, Covered, PollPaid,
         NoSleepOnToken, Parked

LEMMA PollSourceIInv ==
  ASSUME IInv, NEW s \in Sources, PollSource(s)
  PROVE  IInv'
  <1> USE BlockOnAssumption DEF PollSource, Polling, IInv
  <1>1. CASE left[s] = 0
    BY <1>1 DEF TypeOK, PollSound, Covered, PollPaid, NoSleepOnToken, Parked,
                Finished, Waking
  <1>2. CASE left[s] # 0 /\ s \in Inline
    <2>1. /\ left' = [left EXCEPT ![s] = @ - 1] /\ waker' = [waker EXCEPT ![s] = "lock"]
          /\ waker[s] = "idle" /\ left[s] \in Nat /\ left[s] - 1 \in Nat
          /\ UNCHANGED <<registered, observed, exec, owner, flag>>
          /\ polled' = polled \cup {s}
      BY <1>2 DEF TypeOK
    <2>2. TypeOK'
      BY <2>1 DEF TypeOK, WakerSteps
    <2>3. PollSound'
      BY <1>2, <2>1 DEF TypeOK, PollSound, Finished
    <2>4. Covered'
      BY <2>1 DEF TypeOK, Covered, Waking
    <2> QED BY <2>1, <2>2, <2>3, <2>4 DEF PollPaid, NoSleepOnToken, Parked
  <1>3. CASE left[s] # 0 /\ s \notin Inline
    BY <1>3 DEF TypeOK, PollSound, Covered, PollPaid, NoSleepOnToken, Parked,
                Finished, Waking
  <1> QED BY <1>1, <1>2, <1>3

LEMMA ProgressIInv ==
  ASSUME IInv, NEW s \in Sources, Progress(s)
  PROVE  IInv'
  <1> USE DEF Progress, IInv
  <1>1. left[s] - 1 \in Nat /\ left'[s] = left[s] - 1
    BY DEF TypeOK
  <1>2. TypeOK'
    BY <1>1 DEF TypeOK, WakerSteps
  <1>3. PollSound'
    BY <1>1 DEF TypeOK, PollSound, Finished
  <1>4. Covered'
    BY DEF TypeOK, Covered, Waking
  <1> QED BY <1>2, <1>3, <1>4 DEF TypeOK, PollPaid, NoSleepOnToken, Parked

\* The wake calls: the lock, the flag, the notification.
LEMMA UnparkIInv ==
  ASSUME IInv, NEW s \in Sources, UnparkLock(s) \/ UnparkSet(s) \/ UnparkNotify(s)
  PROVE  IInv'
  <1> USE BlockOnAssumption
          DEF IInv, TypeOK, PollSound, Covered, PollPaid, NoSleepOnToken, Parked,
              Finished, Waking, WakerSteps, ExecSteps
  <1>1. CASE UnparkLock(s)
    BY <1>1 DEF UnparkLock
  <1>2. CASE UnparkSet(s)
    BY <1>2 DEF UnparkSet
  <1>3. CASE UnparkNotify(s)
    <2>1. owner = s /\ \A r \in Sources \ {s} : waker[r] \notin {"set", "notify"}
      BY <1>3 DEF UnparkNotify
    <2>2. TypeOK'
      BY <1>3, <2>1 DEF UnparkNotify
    <2>3. Covered' /\ PollSound'
      BY <1>3 DEF UnparkNotify
    <2>4. PollPaid' /\ NoSleepOnToken'
      BY <1>3 DEF UnparkNotify
    <2> QED BY <2>2, <2>3, <2>4
  <1> QED BY <1>1, <1>2, <1>3

\* The executor's steps outside the polling of sources.
LEMMA ExecutorIInv ==
  ASSUME IInv,
         \/ PollReady \/ PollPending \/ ParkLock \/ ParkConsume \/ ParkWait
         \/ SpuriousWakeup
  PROVE  IInv'
  <1> USE BlockOnAssumption
          DEF IInv, TypeOK, PollSound, Covered, PollPaid, NoSleepOnToken, Parked,
              Finished, Waking, ExecSteps
  <1>1. CASE PollReady \/ PollPending
    BY <1>1 DEF PollReady, PollPending, Polling
  <1>2. CASE ParkLock
    BY <1>2 DEF ParkLock
  <1>3. CASE ParkConsume
    BY <1>3 DEF ParkConsume
  <1>4. CASE ParkWait \/ SpuriousWakeup
    BY <1>4 DEF ParkWait, SpuriousWakeup
  <1> QED BY <1>1, <1>2, <1>3, <1>4

LEMMA NextIInv == IInv /\ [Next]_vars => IInv'
  <1> SUFFICES ASSUME IInv, [Next]_vars PROVE IInv'
    OBVIOUS
  <1>1. CASE UNCHANGED vars
    BY <1>1 DEF vars, IInv, TypeOK, PollSound, Covered, PollPaid, NoSleepOnToken,
                Parked, Finished, Waking
  <1>2. CASE Next
    BY <1>1, <1>2, PollSourceIInv, ProgressIInv, UnparkIInv, ExecutorIInv
       DEF Next, Execute, Returned
  <1> QED BY <1>1, <1>2

-----------------------------------------------------------------------------

LEMMA NoticedFromIInv == IInv => ReadyIsNoticed
  <1> SUFFICES ASSUME IInv, Parked, Ready, ~flag PROVE Waking # {}
    BY DEF ReadyIsNoticed
  <1>1. polled = Sources /\ observed # Finished
    <2>1. IsFiniteSet(Finished)
      BY BlockOnAssumption, FS_Subset DEF Finished
    <2>2. Cardinality(Finished) \in Nat /\ Enough \in Nat
      BY <2>1, BlockOnAssumption, FS_CardinalityType
    <2> QED BY <2>2 DEF IInv, PollPaid, Ready
  <1>2. PICK s \in Finished : s \notin observed
    BY <1>1 DEF IInv, PollSound
  <1>3. s \in Sources /\ s \notin registered
    BY <1>2 DEF IInv, PollSound, Finished
  <1> QED BY <1>1, <1>2, <1>3 DEF IInv, Covered

\* The strengthened invariant holds in every state.
THEOREM BlockOnInvariant == Spec => []IInv
  BY InitIInv, NextIInv, PTL DEF Spec

\* Parker's mutex is held by the one thread between lock and unlock.
THEOREM BlockOnTypes == Spec => []TypeOK
  <1>1. IInv => TypeOK
    BY DEF IInv
  <1> QED BY <1>1, BlockOnInvariant, PTL

\* park never sleeps on a flag that is set and will not be notified.
THEOREM NoSleep == Spec => []NoSleepOnToken
  <1>1. IInv => NoSleepOnToken
    BY DEF IInv
  <1> QED BY <1>1, BlockOnInvariant, PTL

\* While the executor is parked and the future is ready, a wake-up is there or
\* on its way: none is lost between the poll and the sleep.
THEOREM NoLostWakeup == Spec => []ReadyIsNoticed
  BY NoticedFromIInv, BlockOnInvariant, PTL

\* Parker implements the token of ParkToken: every step of the detailed
\* specification is a step of the abstract one or leaves token and parked alone.
THEOREM TokenImplemented == Spec => ImplementsToken
  <1>1. Init => Token!TokenInit
    BY DEF Init, Token!TokenInit, Parked
  <1>2. IInv /\ [Next]_vars => [Token!TokenNext]_Token!vars
    <2> SUFFICES ASSUME IInv, Next PROVE [Token!TokenNext]_Token!vars
      BY DEF vars, Token!vars, Parked
    <2> USE DEF Token!TokenNext, Token!vars, Token!Leave, Token!Enter, Token!Take,
                Parked, IInv, TypeOK
    <2>1. CASE Execute
      BY <2>1 DEF Execute, PollSource, PollReady, PollPending, Polling, ParkLock,
                  ParkConsume, ParkWait
    <2>2. CASE SpuriousWakeup \/ Returned
      BY <2>2 DEF SpuriousWakeup, Returned, vars
    <2>3. ASSUME NEW s \in Sources,
                 Progress(s) \/ UnparkLock(s) \/ UnparkSet(s) \/ UnparkNotify(s)
          PROVE  [Token!TokenNext]_Token!vars
      BY <2>3 DEF Progress, UnparkLock, UnparkSet, UnparkNotify
    <2> QED BY <2>1, <2>2, <2>3 DEF Next
  <1> QED BY <1>1, <1>2, BlockOnInvariant, PTL DEF Spec, ImplementsToken, Token!TokenSpec
=============================================================================

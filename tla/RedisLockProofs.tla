--------------------------- MODULE RedisLockProofs ---------------------------
(***************************************************************************)
(* Proofs about withLock, for any number of clients, any TTL, wait and     *)
(* lateness of the watchdogs.                                              *)
(***************************************************************************)
EXTENDS RedisLock, TLAPS

\* A key is of a client that is inside, or of a call that is no more; the
\* watchdog and the TTL count the same ticks.
KeyOfItsHolder ==
  \A c \in Clients :
    /\ key = c => Inside(c) /\ ttlLeft + unextended[c] = Ttl
    /\ Inside(c) => unextended[c] <= Period + MaxLate[c]

\* Only a late client lets its key expire.
LapsedAreLate ==
  /\ \A c \in Clients : Inside(c) /\ c \notin lapsed => key = c
  /\ \A c \in lapsed : ~ Prompt(c)

\* A wait begins within MAX_WAIT_TIME and ends with its timer.
WaitsBeginInTime ==
  \A c \in Clients :
    /\ age[c] < MaxWait + WaitTimeout
    /\ pc[c] = "refused" => age[c] < MaxWait
    /\ pc[c] = "waiting" => age[c] + waitLeft[c] < MaxWait + WaitTimeout

IInv == TypeOK /\ KeyOfItsHolder /\ LapsedAreLate /\ WaitsBeginInTime
-----------------------------------------------------------------------------
\* What the assumption says of tokens, times and lateness
LEMMA ConstantsAre ==
  /\ NoToken \notin Clients /\ OrphanToken \notin Clients /\ NoToken # OrphanToken
  /\ Ttl \in Nat /\ Ttl >= 3 /\ Period \in Nat /\ Period < Ttl
  /\ WaitTimeout \in Nat /\ WaitTimeout > 0 /\ MaxWait \in Nat /\ MaxWait > 0
  /\ \A c \in Clients : MaxLate[c] \in Nat
  BY LockAssumption DEF Period

\* The free lock satisfies the invariant.
LEMMA InitIInv == Init => IInv
  BY ConstantsAre
  DEF Init, IInv, TypeOK, KeyOfItsHolder, LapsedAreLate, WaitsBeginInTime, Inside

\* What a call does in its loop changes neither the key nor who is inside.
LEMMA LoopKeepsIInv ==
  ASSUME IInv, NEW c \in Clients,
         \/ Call(c) \/ NotAcquired(c) \/ Listen(c) \/ WaitTimesOut(c) \/ GiveUp(c)
  PROVE  IInv'
<1>1. TypeOK'
  BY ConstantsAre
  DEF IInv, TypeOK, Call, NotAcquired, Listen, WaitTimesOut, GiveUp, Goto, timers
<1>2. /\ key' = key /\ ttlLeft' = ttlLeft /\ unextended' = unextended /\ lapsed' = lapsed
      /\ \A d \in Clients : Inside(d)' <=> Inside(d)
  BY DEF IInv, TypeOK, Call, NotAcquired, Listen, WaitTimesOut, GiveUp, Goto, timers, Inside
<1>3. KeyOfItsHolder' /\ LapsedAreLate'
  BY <1>2 DEF IInv, KeyOfItsHolder, LapsedAreLate
<1>4. WaitsBeginInTime'
  <2>1. /\ \A d \in Clients : age[d] \in Nat /\ waitLeft[d] \in Nat
        /\ \A d \in Clients \ {c} :
             age'[d] = age[d] /\ waitLeft'[d] = waitLeft[d] /\ pc'[d] = pc[d]
    BY DEF IInv, TypeOK, Call, NotAcquired, Listen, WaitTimesOut, GiveUp, Goto, timers
  <2>2. /\ age'[c] < MaxWait + WaitTimeout
        /\ pc'[c] = "refused" => age'[c] < MaxWait
        /\ pc'[c] = "waiting" => age'[c] + waitLeft'[c] < MaxWait + WaitTimeout
    BY <2>1, ConstantsAre
    DEF IInv, TypeOK, WaitsBeginInTime, Call, NotAcquired, Listen, WaitTimesOut, GiveUp,
        Goto, timers
  <2> QED
    BY <2>1, <2>2 DEF IInv, WaitsBeginInTime
<1> QED
  BY <1>1, <1>3, <1>4 DEF IInv

\* A client that gets the key has all of the TTL.
LEMMA AcquireKeepsIInv ==
  ASSUME IInv, NEW c \in Clients, Acquire(c)
  PROVE  IInv'
<1>1. TypeOK'
  BY ConstantsAre DEF IInv, TypeOK, Acquire, Goto
<1>2. /\ pc'[c] = "inside" /\ unextended'[c] = 0 /\ age'[c] = 0
      /\ \A d \in Clients \ {c} :
           pc'[d] = pc[d] /\ unextended'[d] = unextended[d] /\ age'[d] = age[d]
      /\ key = NoToken /\ key' = c /\ ttlLeft' = Ttl
      /\ waitLeft' = waitLeft /\ lapsed' = lapsed
  BY DEF IInv, TypeOK, Acquire, Goto
<1>3. KeyOfItsHolder'
  BY <1>2, ConstantsAre DEF IInv, KeyOfItsHolder, Inside
<1>4. LapsedAreLate'
  BY <1>2, ConstantsAre DEF IInv, LapsedAreLate, Inside
<1>5. WaitsBeginInTime'
  BY <1>2, ConstantsAre DEF IInv, WaitsBeginInTime
<1> QED
  BY <1>1, <1>3, <1>4, <1>5 DEF IInv

\* An extension gives all of the TTL again, or ends the watchdog.
LEMMA ExtendKeepsIInv ==
  ASSUME IInv, NEW c \in Clients, Extend(c)
  PROVE  IInv'
<1>1. TypeOK'
  BY ConstantsAre DEF IInv, TypeOK, Extend
<1>2. /\ unextended'[c] = 0 /\ \A d \in Clients \ {c} : unextended'[d] = unextended[d]
      /\ key' = key /\ pc' = pc /\ age' = age /\ waitLeft' = waitLeft /\ lapsed' = lapsed
      /\ ttlLeft' = IF key = c THEN Ttl ELSE ttlLeft
  BY DEF IInv, TypeOK, Extend
<1>3. KeyOfItsHolder'
  BY <1>2, ConstantsAre DEF IInv, KeyOfItsHolder, Inside
<1>4. LapsedAreLate' /\ WaitsBeginInTime'
  BY <1>2 DEF IInv, LapsedAreLate, WaitsBeginInTime, Inside
<1> QED
  BY <1>1, <1>3, <1>4 DEF IInv

\* A client leaves: with its key, with none, or with that of another.
LEMMA LeavingKeepsIInv ==
  ASSUME IInv, NEW c \in Clients, Release(c) \/ Abandon(c)
  PROVE  IInv'
<1>1. TypeOK'
  BY ConstantsAre DEF IInv, TypeOK, Release, Abandon, Publish, Leave, Goto
<1>2. /\ pc'[c] = "left" /\ unextended'[c] = 0 /\ lapsed' = lapsed \ {c}
      /\ \A d \in Clients \ {c} :
           /\ pc'[d] = pc[d] \/ (pc[d] = "waiting" /\ pc'[d] = "loop")
           /\ unextended'[d] = unextended[d]
      /\ age' = age /\ waitLeft' = waitLeft
      /\ key' # c /\ (key # c => key' = key /\ ttlLeft' = ttlLeft)
      /\ key = c => key' \notin Clients
  BY ConstantsAre DEF IInv, TypeOK, Release, Abandon, Publish, Leave, Goto
<1>3. KeyOfItsHolder'
  BY <1>2, ConstantsAre DEF IInv, KeyOfItsHolder, Inside
<1>4. LapsedAreLate'
  BY <1>2 DEF IInv, LapsedAreLate, Inside, TypeOK
<1>5. WaitsBeginInTime'
  BY <1>2 DEF IInv, WaitsBeginInTime
<1> QED
  BY <1>1, <1>3, <1>4, <1>5 DEF IInv

\* A tick takes from the lease what it adds to the watchdog's delay.
LEMMA TickKeepsIInv ==
  ASSUME IInv, Tick
  PROVE  IInv'
<1>1. /\ \A c \in Clients : age[c] \in Nat /\ waitLeft[c] \in 0..WaitTimeout /\ unextended[c] \in Nat
      /\ ttlLeft \in 0..Ttl
      /\ \A c \in Clients : pc[c] \notin {"loop", "refused"}
      /\ \A c \in Clients : pc[c] = "waiting" => waitLeft[c] > 0
      /\ \A c \in Clients : Inside(c) => unextended[c] # Period + MaxLate[c]
  BY ConstantsAre DEF IInv, TypeOK, Tick, Urgent
<1>2. TypeOK'
  <2>1. waitLeft' \in [Clients -> 0..WaitTimeout]
    BY <1>1, ConstantsAre DEF Tick
  <2>2. age' \in [Clients -> Nat] /\ unextended' \in [Clients -> Nat]
    BY <1>1 DEF Tick
  <2>3. pc' \in [Clients -> {"outside", "loop", "refused", "waiting", "inside", "left"}]
    BY DEF Tick, IInv, TypeOK
  <2>4. /\ key' \in Clients \cup {NoToken, OrphanToken}
        /\ ttlLeft' \in 0..Ttl /\ (key' = NoToken <=> ttlLeft' = 0)
        /\ lapsed' \subseteq Clients
    BY ConstantsAre DEF Tick, IInv, TypeOK
  <2> QED
    BY <2>1, <2>2, <2>3, <2>4 DEF TypeOK
<1>3. \A c \in Clients : Inside(c)' <=> Inside(c)
  BY DEF Tick, Inside, IInv, TypeOK
<1>4. \A c \in Clients : Inside(c) => unextended'[c] = unextended[c] + 1
  BY DEF Tick
<1>5. KeyOfItsHolder'
  <2> SUFFICES ASSUME NEW c \in Clients
               PROVE  /\ key' = c => Inside(c) /\ ttlLeft' + unextended'[c] = Ttl
                      /\ Inside(c) => unextended'[c] <= Period + MaxLate[c]
    BY <1>3 DEF KeyOfItsHolder
  <2>1. Inside(c) => unextended'[c] <= Period + MaxLate[c]
    BY <1>1, <1>4, ConstantsAre DEF IInv, KeyOfItsHolder
  <2>2. ASSUME key' = c
        PROVE  Inside(c) /\ ttlLeft' + unextended'[c] = Ttl
    <3>1. key = c
      BY <2>2, ConstantsAre DEF Tick
    <3>2. Inside(c) /\ ttlLeft + unextended[c] = Ttl
      BY <3>1 DEF IInv, KeyOfItsHolder
    <3>3. ttlLeft # 0
      BY <3>1, ConstantsAre DEF IInv, TypeOK
    <3>4. ttlLeft' = ttlLeft - 1
      BY <3>3 DEF Tick
    <3> QED
      BY <1>1, <1>4, <3>2, <3>4, ConstantsAre
  <2> QED
    BY <2>1, <2>2
<1>6. LapsedAreLate'
  <2>1. ASSUME NEW c \in Clients, ttlLeft = 1, key = c
        PROVE  ~ Prompt(c)
    <3>1. Inside(c) /\ ttlLeft + unextended[c] = Ttl /\ unextended[c] <= Period + MaxLate[c]
      BY <2>1 DEF IInv, KeyOfItsHolder
    <3> QED
      BY <1>1, <2>1, <3>1, ConstantsAre DEF Prompt
  <2>2. lapsed \subseteq lapsed' /\ \A c \in lapsed' : c \in lapsed \/ (ttlLeft = 1 /\ key = c /\ c \in Clients)
    BY DEF Tick
  <2>3. \A c \in lapsed' : ~ Prompt(c)
    BY <2>1, <2>2 DEF IInv, LapsedAreLate
  <2>4. ASSUME NEW c \in Clients, Inside(c), c \notin lapsed'
        PROVE  key' = c
    <3>1. key = c
      BY <2>2, <2>4 DEF IInv, LapsedAreLate
    <3>2. ttlLeft # 1
      BY <2>4, <3>1 DEF Tick
    <3> QED
      BY <3>1, <3>2 DEF Tick
  <2> QED
    BY <1>3, <2>3, <2>4 DEF LapsedAreLate
<1>7. WaitsBeginInTime'
  <2> SUFFICES ASSUME NEW c \in Clients
               PROVE  /\ age'[c] < MaxWait + WaitTimeout
                      /\ pc'[c] = "refused" => age'[c] < MaxWait
                      /\ pc'[c] = "waiting" => age'[c] + waitLeft'[c] < MaxWait + WaitTimeout
    BY DEF WaitsBeginInTime
  <2>1. CASE pc[c] = "waiting"
    <3>1. age'[c] = age[c] + 1 /\ waitLeft'[c] = waitLeft[c] - 1 /\ pc'[c] = "waiting"
      BY <2>1 DEF Tick, Wanting
    <3>2. age[c] + waitLeft[c] < MaxWait + WaitTimeout /\ waitLeft[c] > 0
      BY <1>1, <2>1 DEF IInv, WaitsBeginInTime
    <3> QED
      BY <1>1, <3>1, <3>2, ConstantsAre
  <2>2. CASE pc[c] # "waiting"
    <3>1. age'[c] = age[c] /\ pc'[c] \notin {"refused", "waiting"}
      BY <1>1, <2>2 DEF Tick, Wanting
    <3> QED
      BY <3>1 DEF IInv, WaitsBeginInTime
  <2> QED
    BY <2>1, <2>2
<1> QED
  BY <1>2, <1>5, <1>6, <1>7 DEF IInv

\* Every step keeps the invariant.
LEMMA NextKeepsIInv == IInv /\ [Next]_vars => IInv'
<1> SUFFICES ASSUME IInv, [Next]_vars PROVE IInv'
  OBVIOUS
<1>1. CASE \E c \in Clients : Call(c) \/ Proceed(c)
  BY <1>1, LoopKeepsIInv, AcquireKeepsIInv DEF Proceed
<1>2. CASE \E c \in Clients : Extend(c) \/ Release(c) \/ Abandon(c)
  BY <1>2, ExtendKeepsIInv, LeavingKeepsIInv
<1>3. CASE Tick
  BY <1>3, TickKeepsIInv
<1>4. CASE UNCHANGED vars
  BY <1>4 DEF vars, timers, IInv, TypeOK, KeyOfItsHolder, LapsedAreLate, WaitsBeginInTime, Inside
<1> QED
  BY <1>1, <1>2, <1>3, <1>4 DEF Next

\* The invariant holds throughout.
LEMMA IInvHolds == Spec => []IInv
  BY InitIInv, NextKeepsIInv, PTL DEF Spec
-----------------------------------------------------------------------------
\* The key, its TTL and the timers of withLock stay in their ranges.
THEOREM TypeCorrect == Spec => []TypeOK
  BY IInvHolds, PTL DEF IInv

\* Whoever runs the function of withLock with a watchdog that keeps up holds
\* the key, whatever late clients release, extend or abandon.
THEOREM PromptHoldersHoldTheKey == Spec => []PromptHoldersKeepTheLock
<1>1. IInv => PromptHoldersKeepTheLock
  BY DEF IInv, LapsedAreLate, PromptHoldersKeepTheLock
<1> QED
  BY <1>1, IInvHolds, PTL

\* Two clients whose watchdogs keep up are never inside at once: what the
\* callers of withLock rely on.
THEOREM MutualExclusion ==
  Spec => [](\A c, d \in Clients :
               Inside(c) /\ Inside(d) /\ Prompt(c) /\ Prompt(d) => c = d)
<1>1. PromptHoldersKeepTheLock =>
        \A c, d \in Clients : Inside(c) /\ Inside(d) /\ Prompt(c) /\ Prompt(d) => c = d
  BY DEF PromptHoldersKeepTheLock
<1> QED
  BY <1>1, PromptHoldersHoldTheKey, PTL

\* Between the checks of MAX_WAIT_TIME a call waits for its timer at most.
THEOREM WaitHasABound == Spec => []WaitIsBounded
<1>1. IInv => WaitIsBounded
  BY DEF IInv, WaitsBeginInTime, WaitIsBounded
<1> QED
  BY <1>1, IInvHolds, PTL
=============================================================================

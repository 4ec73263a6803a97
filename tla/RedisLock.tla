------------------------------ MODULE RedisLock ------------------------------
(***************************************************************************)
(* withLock of src/src/@common/redis-lock-manager/redis.lock.service.ts    *)
(* for one key: SET NX PX with a token of the call, a watchdog that keeps  *)
(* extending the key while the function runs, a release script that        *)
(* publishes an event, and callers that wait for the event or a timer.     *)
(*                                                                         *)
(* Time passes in ticks.  A command takes less than a tick; what may take  *)
(* longer is the function, and the timer of the watchdog, which fires when *)
(* the event loop of its process gets to it: at most MaxLate ticks late.   *)
(* A client calls at most once in a tick.                                  *)
(***************************************************************************)
EXTENDS Integers

CONSTANTS
  Clients,
  NoToken,
  OrphanToken,  \* the token of a call that ended without its release
  Ttl,
  WaitTimeout,
  MaxWait,      \* MAX_WAIT_TIME
  MaxLate       \* of each client's watchdog

ASSUME LockAssumption ==
  /\ NoToken \notin Clients /\ OrphanToken \notin Clients /\ NoToken # OrphanToken
  /\ Ttl \in Nat /\ Ttl >= 3
  /\ WaitTimeout \in Nat \ {0}
  /\ MaxWait \in Nat \ {0}
  /\ MaxLate \in [Clients -> Nat]

VARIABLES
  key,       \* the token in lock:{key}
  ttlLeft,   \* until the key expires
  pc,        \* of each client's call
  age,       \* ticks since the call began, while it wants the lock
  waitLeft,  \* until the timer of waitForUnlock fires
  unextended,\* ticks since the watchdog last ran
  lapsed     \* clients whose key expired while they were inside, kept for
             \* the properties

timers == <<age, waitLeft, unextended>>
vars   == <<key, ttlLeft, pc, timers, lapsed>>

Period == Ttl \div 3

\* A watchdog that fires before the key expires, however late it is
Prompt(c) == Period + MaxLate[c] < Ttl

Inside(c) == pc[c] = "inside"

Goto(c, p) == pc' = [pc EXCEPT ![c] = p]
-----------------------------------------------------------------------------
Call(c) ==
  /\ pc[c] = "outside"
  /\ Goto(c, "loop")
  /\ age' = [age EXCEPT ![c] = 0]
  /\ UNCHANGED <<key, ttlLeft, waitLeft, unextended, lapsed>>

\* tryAcquire, within MAX_WAIT_TIME
Acquire(c) ==
  /\ pc[c] = "loop" /\ age[c] < MaxWait
  /\ key = NoToken
  /\ key' = c /\ ttlLeft' = Ttl
  /\ Goto(c, "inside")
  /\ age' = [age EXCEPT ![c] = 0]
  /\ unextended' = [unextended EXCEPT ![c] = 0]
  /\ UNCHANGED <<waitLeft, lapsed>>

\* Mutant of NotAcquired: the loop does not look at the time.
NotAcquiredEver(c) ==
  /\ pc[c] = "loop" /\ key # NoToken
  /\ Goto(c, "refused")
  /\ UNCHANGED <<key, ttlLeft, timers, lapsed>>

NotAcquired(c) ==
  /\ pc[c] = "loop" /\ age[c] < MaxWait
  /\ key # NoToken
  /\ Goto(c, "refused")
  /\ UNCHANGED <<key, ttlLeft, timers, lapsed>>

\* waitForUnlock registers the listener; a release before it is not heard.
Listen(c) ==
  /\ pc[c] = "refused"
  /\ Goto(c, "waiting")
  /\ waitLeft' = [waitLeft EXCEPT ![c] = WaitTimeout]
  /\ UNCHANGED <<key, ttlLeft, age, unextended, lapsed>>

\* Mutant of WaitTimesOut: only the event ends the wait.
WaitForEver(c) == FALSE /\ UNCHANGED vars

WaitTimesOut(c) ==
  /\ pc[c] = "waiting" /\ waitLeft[c] = 0
  /\ Goto(c, "loop")
  /\ UNCHANGED <<key, ttlLeft, timers, lapsed>>

\* RedisLockWaitTimeoutException
GiveUp(c) ==
  /\ pc[c] = "loop" /\ age[c] >= MaxWait
  /\ Goto(c, "left")
  /\ age' = [age EXCEPT ![c] = 0]
  /\ UNCHANGED <<key, ttlLeft, waitLeft, unextended, lapsed>>

\* Mutant of Extend: the token is not compared.
ExtendAnyToken(c) ==
  /\ Inside(c) /\ unextended[c] >= Period
  /\ ttlLeft' = Ttl
  /\ key' = IF key = NoToken THEN NoToken ELSE c
  /\ unextended' = [unextended EXCEPT ![c] = 0]
  /\ UNCHANGED <<pc, age, waitLeft, lapsed>>

\* The watchdog's script, when its timer has fired
Extend(c) ==
  /\ Inside(c) /\ unextended[c] >= Period
  /\ ttlLeft' = IF key = c THEN Ttl ELSE ttlLeft
  /\ unextended' = [unextended EXCEPT ![c] = 0]
  /\ UNCHANGED <<key, pc, age, waitLeft, lapsed>>

Leave(c) == lapsed' = lapsed \ {c} /\ unextended' = [unextended EXCEPT ![c] = 0]

\* The event reaches those who listen.
Publish(c) ==
  pc' = [d \in Clients |-> IF d = c THEN "left"
                           ELSE IF pc[d] = "waiting" THEN "loop" ELSE pc[d]]

\* Mutant of Release: the key is deleted whatever token it holds.
ReleaseAnyToken(c) ==
  /\ Inside(c)
  /\ key' = NoToken /\ ttlLeft' = 0
  /\ Publish(c) /\ Leave(c)
  /\ UNCHANGED <<age, waitLeft>>

\* The function is done; the release script compares the token.
Release(c) ==
  /\ Inside(c)
  /\ \/ /\ key = c
        /\ key' = NoToken /\ ttlLeft' = 0
        /\ Publish(c)
     \/ /\ key # c
        /\ Goto(c, "left")
        /\ UNCHANGED <<key, ttlLeft>>
  /\ Leave(c)
  /\ UNCHANGED <<age, waitLeft>>

\* The instance stops inside, or the release script fails: the key stays.
Abandon(c) ==
  /\ Inside(c)
  /\ key' = IF key = c THEN OrphanToken ELSE key
  /\ Goto(c, "left") /\ Leave(c)
  /\ UNCHANGED <<ttlLeft, age, waitLeft>>
-----------------------------------------------------------------------------
\* Nothing that takes less than a tick is waiting to be done.
Urgent ==
  \E c \in Clients :
    \/ pc[c] \in {"loop", "refused"}
    \/ pc[c] = "waiting" /\ waitLeft[c] = 0
    \/ Inside(c) /\ unextended[c] = Period + MaxLate[c]

Wanting(c) == pc[c] \in {"loop", "refused", "waiting"}

\* One more tick for every timer; at its last one the key expires.
Tick ==
  /\ ~Urgent
  /\ age' = [c \in Clients |-> IF Wanting(c) THEN age[c] + 1 ELSE age[c]]
  /\ waitLeft' = [c \in Clients |-> IF pc[c] = "waiting" THEN waitLeft[c] - 1 ELSE 0]
  /\ unextended' = [c \in Clients |-> IF Inside(c) THEN unextended[c] + 1 ELSE 0]
  /\ ttlLeft' = IF ttlLeft = 0 THEN 0 ELSE ttlLeft - 1
  /\ key' = IF ttlLeft = 1 THEN NoToken ELSE key
  /\ lapsed' = IF ttlLeft = 1 THEN lapsed \cup ({key} \cap Clients) ELSE lapsed
  /\ pc' = [c \in Clients |-> IF pc[c] = "left" THEN "outside" ELSE pc[c]]
-----------------------------------------------------------------------------
Init ==
  /\ key = NoToken /\ ttlLeft = 0
  /\ pc = [c \in Clients |-> "outside"]
  /\ age = [c \in Clients |-> 0]
  /\ waitLeft = [c \in Clients |-> 0]
  /\ unextended = [c \in Clients |-> 0]
  /\ lapsed = {}

\* What a call does without its function
Proceed(c) ==
  \/ Acquire(c) \/ NotAcquired(c) \/ Listen(c) \/ WaitTimesOut(c) \/ GiveUp(c)

Next ==
  \/ \E c \in Clients : Call(c) \/ Proceed(c) \/ Extend(c) \/ Release(c) \/ Abandon(c)
  \/ Tick

Spec == Init /\ [][Next]_vars

\* Time passes, and calls and watchdogs go on; a function need not return.
FairSpec ==
  Spec /\ WF_vars(Tick) /\ \A c \in Clients : WF_vars(Proceed(c)) /\ WF_vars(Extend(c))
-----------------------------------------------------------------------------
TypeOK ==
  /\ key \in Clients \cup {NoToken, OrphanToken}
  /\ ttlLeft \in 0..Ttl /\ (key = NoToken <=> ttlLeft = 0)
  /\ pc \in [Clients -> {"outside", "loop", "refused", "waiting", "inside", "left"}]
  /\ age \in [Clients -> Nat]
  /\ waitLeft \in [Clients -> 0..WaitTimeout]
  /\ unextended \in [Clients -> Nat]
  /\ lapsed \subseteq Clients

\* The payment of an order is locked against a second one: while a client
\* whose watchdog keeps up is inside, the key is its own, whatever others,
\* late ones among them, release, extend or abandon; and of two clients
\* inside at least one has let its key expire.
PromptHoldersKeepTheLock ==
  \A c \in Clients : Inside(c) /\ (Prompt(c) \/ c \notin lapsed) => key = c

\* MAX_WAIT_TIME: no call wants the lock for longer than the longest wait
\* that begins within it, though a release can go unheard.
WaitIsBounded == \A c \in Clients : age[c] < MaxWait + WaitTimeout

\* Every call gets the lock or an exception, though holders may stop and
\* their keys remain, or never return.
CallsEnd == \A c \in Clients : pc[c] = "loop" ~> pc[c] \in {"inside", "left"}
=============================================================================

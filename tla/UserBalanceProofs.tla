-------------------------- MODULE UserBalanceProofs --------------------------
(***************************************************************************)
(* Proofs about UserBalance: types, the account it implements, and   *)
(* the calls that no contention can make fail.                            *)
(***************************************************************************)
EXTENDS UserBalance, FiniteSetTheorems, TLAPS

\* What a call is about to write was accepted on the row it has read.
SeenIsAccepted ==
  \A c \in Calls :
    call[c].pc \in {"update", "log"} => Accepts(c, call[c].seen.balance)

\* The version identifies the row: a call that still sees the current
\* version sees the current balance.
SeenIsPast ==
  \A c \in Calls :
    LET row == rows[UserOf[c]]
        seen == call[c].seen IN
    call[c].pc = "update" =>
      /\ seen.version <= row.version
      /\ seen.version = row.version => seen.balance = row.balance

IInv == TypeOK /\ SeenIsAccepted /\ SeenIsPast
-----------------------------------------------------------------------------
\* An accepted change keeps the balance natural, and changes it.
LEMMA DeltaType == ASSUME NEW c \in Calls
                   PROVE  /\ Delta[c] \in Int
                          /\ \A b \in Nat : Accepts(c, b) => b + Delta[c] \in Nat /\ Delta[c] # 0
  BY BalanceAssumption DEF Delta, Accepts

\* A failed attempt concerns its own call.
LEMMA FailType ==
  ASSUME NEW c \in Calls, TypeOK, Fail(c)
  PROVE  /\ call' \in [Calls -> CallState]
         /\ \A d \in Calls : d # c => call'[d] = call[d]
         /\ call'[c].pc \in {"retry", "failed"}
<1>1. call \in [Calls -> CallState] /\ call[c] \in CallState
  BY DEF TypeOK
<1> DEFINE attempt == call[c].attempt + 1
           next == [pc |-> IF attempt >= MaxRetries THEN "failed" ELSE "retry",
                    attempt |-> attempt, seen |-> call[c].seen]
<1>2. call' = [call EXCEPT ![c] = next]
  BY DEF Fail
<1>3. next \in CallState /\ next.pc \in {"retry", "failed"}
  BY <1>1 DEF CallState, MaxRetries
<1> HIDE DEF next
<1> QED BY <1>1, <1>2, <1>3

\* A call that goes on keeps what it has seen.
LEMMA GotoType ==
  ASSUME NEW c \in Calls, TypeOK, NEW p \in {"log", "commit", "done"}, Goto(c, p)
  PROVE  /\ call' \in [Calls -> CallState]
         /\ \A d \in Calls : d # c => call'[d] = call[d]
         /\ call'[c].pc = p /\ call'[c].seen = call[c].seen
  BY DEF TypeOK, Goto, CallState

\* No call has seen anything at first.
LEMMA InitIInv == Init => IInv
<1> SUFFICES ASSUME Init PROVE IInv
  OBVIOUS
<1>1. \A b \in Nat : NewUser(b) \in UserRow
  BY DEF NewUser, UserRow
<1>2. rows \in [Users -> UserRow]
  BY <1>1, BalanceAssumption DEF Init
<1>3. log \in [Users -> Seq(LogRow)]
  BY DEF Init
<1>4. call \in [Calls -> CallState]
  BY <1>1 DEF Init, CallState
<1>5. \A c \in Calls : call[c].pc = "new"
  BY DEF Init
<1> QED BY <1>2, <1>3, <1>4, <1>5 DEF IInv, TypeOK, SeenIsAccepted, SeenIsPast
-----------------------------------------------------------------------------
\* A call that fails or has written its row, and what the others see, leave
\* the invariant alone.
LEMMA CallMoves ==
  ASSUME NEW c \in Calls, IInv, rows' = rows, log' \in [Users -> Seq(LogRow)],
         call' \in [Calls -> CallState],
         \A d \in Calls : d # c => call'[d] = call[d],
         call'[c].pc \notin {"update", "log"}
  PROVE  IInv'
<1>1. TypeOK'
  BY DEF IInv, TypeOK
<1>2. SeenIsAccepted'
  BY DEF IInv, SeenIsAccepted, Accepts
<1>3. SeenIsPast'
  BY DEF IInv, SeenIsPast
<1> QED BY <1>1, <1>2, <1>3 DEF IInv

\* A reading has seen a balance that accepts the change.
LEMMA ReadIInv == ASSUME NEW c \in Calls, IInv, Read(c) PROVE IInv'
<1> DEFINE row == rows[UserOf[c]]
<1>1. TypeOK /\ row \in UserRow /\ call[c] \in CallState
  BY BalanceAssumption DEF IInv, TypeOK
<1>2. rows' = rows /\ log' = log
  BY DEF Read
<1>3. CASE Accepts(c, row.balance)
  <2> DEFINE next == [pc |-> "update", attempt |-> call[c].attempt, seen |-> row]
  <2>1. call' = [call EXCEPT ![c] = next]
    BY <1>3 DEF Read
  <2>2. next \in CallState /\ next.pc = "update" /\ next.seen = row
    BY <1>1 DEF CallState
  <2> HIDE DEF next
  <2>3. call'[c] = next /\ \A d \in Calls : d # c => call'[d] = call[d]
    BY <1>1, <2>1 DEF TypeOK
  <2>4. TypeOK'
    BY <1>1, <1>2, <2>1, <2>2 DEF TypeOK
  <2>5. SeenIsAccepted'
    BY <1>3, <2>2, <2>3 DEF IInv, SeenIsAccepted, Accepts
  <2>6. SeenIsPast'
    BY <1>1, <1>2, <2>2, <2>3 DEF IInv, SeenIsPast, UserRow
  <2> QED BY <2>4, <2>5, <2>6 DEF IInv
<1>4. CASE ~Accepts(c, row.balance)
  <2>1. Fail(c)
    BY <1>4 DEF Read
  <2> QED BY <1>1, <1>2, <2>1, FailType, CallMoves DEF TypeOK
<1> QED BY <1>3, <1>4

\* An update at the version seen writes what was computed.
LEMMA UpdateIInv == ASSUME NEW c \in Calls, IInv, Update(c) PROVE IInv'
<1> DEFINE u == UserOf[c]
           seen == call[c].seen
           next == [balance |-> seen.balance + Delta[c], version |-> seen.version + 1]
<1>1. /\ TypeOK /\ u \in Users /\ rows[u] \in UserRow /\ seen \in UserRow
      /\ call[c].pc = "update" /\ log' = log
  BY BalanceAssumption DEF IInv, TypeOK, Update, CallState
<1>2. CASE rows[u].version = seen.version
  <2>1. rows' = [rows EXCEPT ![u] = next] /\ Goto(c, "log")
    BY <1>2 DEF Update
  <2>2. Accepts(c, seen.balance)
    BY <1>1 DEF IInv, SeenIsAccepted
  <2>3. next \in UserRow /\ next.version = rows[u].version + 1
    BY <1>1, <1>2, <2>2, DeltaType DEF UserRow
  <2> HIDE DEF next
  <2>4. /\ rows'[u] = next
        /\ \A v \in Users : v # u => rows'[v] = rows[v]
        /\ rows' \in [Users -> UserRow]
    BY <1>1, <2>1, <2>3 DEF TypeOK
  <2>5. /\ call' \in [Calls -> CallState]
        /\ \A d \in Calls : d # c => call'[d] = call[d]
        /\ call'[c].pc = "log" /\ call'[c].seen = seen
    BY <1>1, <2>1, GotoType
  <2>6. TypeOK'
    BY <1>1, <2>4, <2>5 DEF TypeOK
  <2>7. SeenIsAccepted'
    BY <2>2, <2>5 DEF IInv, SeenIsAccepted, Accepts
  <2>8. SeenIsPast'
    <3> SUFFICES ASSUME NEW d \in Calls, call'[d].pc = "update"
                 PROVE  /\ call'[d].seen.version <= rows'[UserOf[d]].version
                        /\ call'[d].seen.version = rows'[UserOf[d]].version
                           => call'[d].seen.balance = rows'[UserOf[d]].balance
      BY DEF SeenIsPast
    <3>1. d # c /\ call'[d] = call[d] /\ UserOf[d] \in Users
      BY <2>5, BalanceAssumption
    <3>2. /\ call[d].seen.version <= rows[UserOf[d]].version
          /\ call[d].seen.version = rows[UserOf[d]].version
             => call[d].seen.balance = rows[UserOf[d]].balance
      BY <3>1 DEF IInv, SeenIsPast
    <3>3. call[d].seen.version \in Nat /\ rows[UserOf[d]].version \in Nat
      BY <1>1, <3>1 DEF TypeOK, CallState, UserRow
    <3>4. CASE UserOf[d] = u
      BY <2>3, <2>4, <3>1, <3>2, <3>3, <3>4
    <3>5. CASE UserOf[d] # u
      BY <2>4, <3>1, <3>2, <3>5
    <3> QED BY <3>4, <3>5
  <2> QED BY <2>6, <2>7, <2>8 DEF IInv
<1>3. CASE rows[u].version # seen.version
  <2>1. Fail(c) /\ rows' = rows
    BY <1>3 DEF Update
  <2> QED BY <1>1, <2>1, FailType, CallMoves DEF TypeOK
<1> QED BY <1>2, <1>3

\* The log row leaves the balance alone.
LEMMA WriteLogIInv == ASSUME NEW c \in Calls, IInv, WriteLog(c) PROVE IInv'
<1> DEFINE u == UserOf[c]
           entry == LogEntry(c)
<1>1. /\ TypeOK /\ u \in Users /\ call[c].pc = "log" /\ call[c].seen \in UserRow
      /\ rows' = rows /\ Goto(c, "commit")
      /\ log' = [log EXCEPT ![u] = Append(@, entry)]
  BY BalanceAssumption DEF IInv, TypeOK, WriteLog, CallState
<1>2. Accepts(c, call[c].seen.balance)
  BY <1>1 DEF IInv, SeenIsAccepted
<1>3. entry \in LogRow
  BY <1>1, <1>2, DeltaType DEF LogEntry, LogRow, UserRow
<1> HIDE DEF entry
<1>4. log' \in [Users -> Seq(LogRow)]
  BY <1>1, <1>3 DEF TypeOK
<1> QED BY <1>1, <1>4, GotoType, CallMoves

\* Every step keeps the invariant.
LEMMA StepIInv == IInv /\ [Next]_vars => IInv'
<1> SUFFICES ASSUME IInv, [Next]_vars PROVE IInv'
  OBVIOUS
<1>1. CASE UNCHANGED vars
  BY <1>1 DEF vars, IInv, TypeOK, SeenIsAccepted, SeenIsPast, Accepts
<1>2. ASSUME NEW c \in Calls, Step(c) PROVE IInv'
  <2>1. TypeOK
    BY DEF IInv
  <2>2. CASE Read(c)
    BY <2>2, ReadIInv
  <2>3. CASE Update(c)
    BY <2>3, UpdateIInv
  <2>4. CASE WriteLog(c)
    BY <2>4, WriteLogIInv
  <2>5. CASE Commit(c)
    <3>1. Goto(c, "done") /\ rows' = rows /\ log' = log
      BY <2>5 DEF Commit
    <3>2. /\ call' \in [Calls -> CallState]
          /\ \A d \in Calls : d # c => call'[d] = call[d]
          /\ call'[c].pc = "done"
      BY <2>1, <3>1, GotoType
    <3> QED BY <2>1, <3>1, <3>2, CallMoves DEF TypeOK
  <2>6. CASE OperationFails(c)
    <3>1. Fail(c) /\ rows' = rows /\ log' = log
      BY <2>6 DEF OperationFails
    <3> QED BY <2>1, <3>1, FailType, CallMoves DEF TypeOK
  <2> QED BY <1>2, <2>2, <2>3, <2>4, <2>5, <2>6 DEF Step
<1> QED BY <1>1, <1>2 DEF Next

\* The invariant holds throughout.
LEMMA Invariance == Spec => []IInv
  BY InitIInv, StepIInv, PTL DEF Spec

\* The balance is never negative and the log holds no impossible amount, for
\* any calls and any failures: a deduction is checked on the row whose version
\* the update requires.
THEOREM TypeCorrect == Spec => []TypeOK
<1>1. IInv => TypeOK
  BY DEF IInv
<1> QED BY <1>1, Invariance, PTL
-----------------------------------------------------------------------------
\* What a step of one call does to the row and to the set of applied calls.
LEMMA StepEffect ==
  ASSUME NEW d \in Calls, IInv, Step(d)
  PROVE  /\ \A e \in Calls : e # d => call'[e] = call[e]
         /\ \/ /\ Update(d) /\ rows[UserOf[d]].version = call[d].seen.version
               /\ call[d].pc = "update" /\ call'[d].pc = "log"
               /\ \A v \in Users : v # UserOf[d] => rows'[v] = rows[v]
            \/ /\ rows' = rows
               /\ d \in Applied' => d \in Applied
               /\ NoLateFaults({d}) /\ d \in Applied => d \in Applied'
<1>1. TypeOK /\ UserOf[d] \in Users /\ call[d] \in CallState
  BY BalanceAssumption DEF IInv, TypeOK
<1>2. ASSUME rows' = rows, Fail(d), call[d].pc \notin {"log", "commit"} \/ ~NoLateFaults({d}),
             call[d].pc # "done"
      PROVE  /\ \A e \in Calls : e # d => call'[e] = call[e]
             /\ d \notin Applied'
             /\ NoLateFaults({d}) => d \notin Applied
  BY <1>1, <1>2, FailType DEF Applied
<1>3. CASE Read(d)
  <2>1. rows' = rows /\ call[d].pc \in {"new", "retry"}
    BY <1>3 DEF Read
  <2>2. CASE Accepts(d, rows[UserOf[d]].balance)
    <3>1. /\ \A e \in Calls : e # d => call'[e] = call[e]
          /\ call'[d].pc = "update"
      BY <1>1, <1>3, <2>2 DEF Read, TypeOK
    <3> QED BY <2>1, <3>1 DEF Applied
  <2>3. CASE ~Accepts(d, rows[UserOf[d]].balance)
    BY <1>2, <1>3, <2>1, <2>3 DEF Read
  <2> QED BY <2>2, <2>3
<1>4. CASE Update(d)
  <2>1. call[d].pc = "update"
    BY <1>4 DEF Update
  <2>2. CASE rows[UserOf[d]].version = call[d].seen.version
    <3>1. /\ Goto(d, "log")
          /\ \A v \in Users : v # UserOf[d] => rows'[v] = rows[v]
      BY <1>1, <1>4, <2>2 DEF Update, TypeOK
    <3>2. /\ \A e \in Calls : e # d => call'[e] = call[e]
          /\ call'[d].pc = "log"
      BY <1>1, <3>1, GotoType
    <3> QED BY <1>4, <2>1, <2>2, <3>1, <3>2
  <2>3. CASE rows[UserOf[d]].version # call[d].seen.version
    BY <1>2, <1>4, <2>1, <2>3 DEF Update
  <2> QED BY <2>2, <2>3
<1>5. CASE WriteLog(d)
  <2>1. rows' = rows /\ call[d].pc = "log" /\ Goto(d, "commit")
    BY <1>5 DEF WriteLog
  <2>2. /\ \A e \in Calls : e # d => call'[e] = call[e]
        /\ call'[d].pc = "commit"
    BY <1>1, <2>1, GotoType
  <2> QED BY <2>1, <2>2 DEF Applied
<1>6. CASE Commit(d)
  <2>1. rows' = rows /\ call[d].pc = "commit" /\ Goto(d, "done")
    BY <1>6 DEF Commit
  <2>2. /\ \A e \in Calls : e # d => call'[e] = call[e]
        /\ call'[d].pc = "done"
    BY <1>1, <2>1, GotoType
  <2> QED BY <2>1, <2>2 DEF Applied
<1>7. CASE OperationFails(d)
  <2>1. rows' = rows /\ Fail(d) /\ call[d].pc # "done"
    BY <1>7 DEF OperationFails
  <2>2. call[d].pc \notin {"log", "commit"} \/ ~NoLateFaults({d})
    BY <1>7 DEF OperationFails, NoLateFaults
  <2> QED BY <1>2, <2>1, <2>2
<1> QED BY <1>3, <1>4, <1>5, <1>6, <1>7 DEF Step

\* A step is a step of the account of the safe users or a stutter.
LEMMA StepRefines ==
  ASSUME IInv, [Next]_vars
  PROVE  [AbstractAccount!Next]_<<[u \in SafeUsers |-> rows[u].balance],
                                 Applied \cap SafeCalls>>
<1> DEFINE balance == [u \in SafeUsers |-> rows[u].balance]
           applied == Applied \cap SafeCalls
<1>1. CASE UNCHANGED vars
  BY <1>1 DEF vars, Applied
<1>2. ASSUME NEW c \in Calls, Step(c)
      PROVE  \/ c \in SafeCalls /\ AbstractAccount!Apply(c)
             \/ UNCHANGED <<balance, applied>>
  <2>1. /\ TypeOK /\ UserOf[c] \in Users /\ SafeUsers \subseteq Users
        /\ c \in SafeCalls <=> UserOf[c] \in SafeUsers
        /\ c \in SafeCalls => NoLateFaults({c})
    BY BalanceAssumption DEF IInv, SafeCalls, SafeUsers, NoLateFaults, CallsOn
  <2>2. \A d \in Calls : d # c => call'[d] = call[d]
    BY <1>2, StepEffect
  <2>3. CASE rows' = rows /\ (c \in Applied <=> c \in Applied')
    BY <2>2, <2>3 DEF Applied
  <2>4. CASE c \notin SafeCalls
    <3>1. \A u \in SafeUsers : rows'[u] = rows[u]
      BY <1>2, <2>1, <2>4, StepEffect
    <3>2. applied' = applied
      BY <2>2, <2>4 DEF Applied
    <3> QED BY <3>1, <3>2
  <2>5. CASE /\ c \in SafeCalls /\ Update(c) /\ call[c].pc = "update"
             /\ call'[c].pc = "log" /\ rows[UserOf[c]].version = call[c].seen.version
    <3> DEFINE u == UserOf[c]
               seen == call[c].seen
    <3>1. /\ seen.balance = rows[u].balance /\ Accepts(c, seen.balance)
          /\ seen \in UserRow
      BY <2>1, <2>5 DEF IInv, SeenIsPast, SeenIsAccepted, TypeOK, CallState
    <3>2. Delta[c] # 0 /\ balance[u] + Delta[c] >= 0
      BY <2>1, <2>5, <3>1, DeltaType DEF UserRow
    <3>3. rows' = [rows EXCEPT ![u] = [balance |-> seen.balance + Delta[c],
                                       version |-> seen.version + 1]]
      BY <2>5 DEF Update
    <3>4. balance' = [balance EXCEPT ![u] = @ + Delta[c]]
      BY <2>1, <2>5, <3>1, <3>3 DEF TypeOK
    <3>5. c \notin applied /\ applied' = applied \cup {c}
      BY <2>2, <2>5 DEF Applied
    <3> QED BY <2>5, <3>2, <3>4, <3>5 DEF AbstractAccount!Apply
  <2> QED BY <1>2, <2>1, <2>3, <2>4, <2>5, StepEffect
<1> QED BY <1>1, <1>2 DEF Next, AbstractAccount!Next

\* The charges and deductions of a user none of whose calls fails after its
\* update are one account on which each takes effect at once and at most once,
\* whatever the amounts and whatever happens to other users: the version check
\* loses no update, the retries repeat none.
THEOREM AccountImplemented == Spec => AccountRefined
<1>1. Init => AbstractAccount!Init
  <2> SUFFICES ASSUME Init PROVE AbstractAccount!Init
    OBVIOUS
  <2>1. [u \in SafeUsers |-> rows[u].balance] = [u \in SafeUsers |-> InitialBalance[u]]
    BY BalanceAssumption DEF Init, NewUser, SafeUsers
  <2>2. Applied \cap SafeCalls = {}
    BY DEF Init, Applied
  <2> QED BY <2>1, <2>2 DEF AbstractAccount!Init
<1>2. IInv /\ [Next]_vars
      => [AbstractAccount!Next]_<<[u \in SafeUsers |-> rows[u].balance],
                                  Applied \cap SafeCalls>>
  BY StepRefines
<1> QED BY <1>1, <1>2, Invariance, PTL DEF Spec, AccountRefined, AbstractAccount!Spec
-----------------------------------------------------------------------------
Others(c) == CallsOn(UserOf[c]) \ {c}

\* A valid charge that fails for no other reason than contention.
Contender(c) ==
  /\ Kind[c] = "charge" /\ Amount[c] > 0
  /\ Faults[c] = {} /\ NoLateFaults(Others(c))

\* The calls that contended with c and won.
Winners(c) == Others(c) \cap Applied

\* Each attempt that c lost, and the one it is about to lose, was lost to a
\* call of its own.
LostToWinners ==
  \A c \in Calls : Contender(c) =>
    /\ call[c].attempt <= Cardinality(Winners(c))
    /\ call[c].pc = "update" /\ call[c].seen.version # rows[UserOf[c]].version
       => call[c].attempt + 1 <= Cardinality(Winners(c))
    /\ call[c].pc = "failed" => call[c].attempt >= 3

\* A finite number of calls has a finite number of winners.
LEMMA WinnersFinite ==
  ASSUME IsFiniteSet(Calls), NEW c \in Calls
  PROVE  /\ IsFiniteSet(Winners(c)) /\ Cardinality(Winners(c)) \in Nat
         /\ IsFiniteSet(Others(c)) /\ Cardinality(Others(c)) \in Nat
         /\ Cardinality(Winners(c)) <= Cardinality(Others(c))
<1>1. Others(c) \subseteq Calls /\ Winners(c) \subseteq Others(c)
  BY DEF Others, Winners, CallsOn
<1>2. IsFiniteSet(Others(c))
  BY <1>1, FS_Subset
<1> QED BY <1>1, <1>2, FS_Subset, FS_CardinalityType

\* A contender's own step: it loses an attempt only at its update.
LEMMA ContenderStep ==
  ASSUME NEW c \in Calls, Contender(c), IInv, Step(c), NEW wins \in Nat,
         call[c].attempt <= wins,
         call[c].pc = "update" /\ call[c].seen.version # rows[UserOf[c]].version
         => call[c].attempt + 1 <= wins,
         call[c].pc = "failed" => call[c].attempt >= 3
  PROVE  /\ call'[c].attempt <= wins
         /\ call'[c].pc = "update" => call'[c].seen.version = rows'[UserOf[c]].version
         /\ call'[c].pc = "failed" => call'[c].attempt >= 3
<1>1. TypeOK /\ call \in [Calls -> CallState] /\ call[c].attempt \in Nat
  BY DEF IInv, TypeOK, CallState
<1>2. ASSUME NEW p \in {"log", "commit", "done"}, Goto(c, p)
      PROVE  call'[c].attempt = call[c].attempt /\ call'[c].pc = p
  BY <1>1, <1>2 DEF Goto, CallState
<1>3. CASE Read(c)
  <2>1. Accepts(c, rows[UserOf[c]].balance)
    BY DEF Contender, Accepts
  <2> DEFINE next == [pc |-> "update", attempt |-> call[c].attempt,
                      seen |-> rows[UserOf[c]]]
  <2>2. call'[c] = next /\ rows' = rows
    BY <1>1, <1>3, <2>1 DEF Read
  <2> QED BY <2>2
<1>4. CASE Update(c)
  <2>1. CASE rows[UserOf[c]].version = call[c].seen.version
    BY <1>2, <1>4, <2>1 DEF Update
  <2>2. CASE rows[UserOf[c]].version # call[c].seen.version
    <3>1. Fail(c) /\ call[c].attempt + 1 <= wins
      BY <1>4, <2>2 DEF Update
    <3> DEFINE attempt == call[c].attempt + 1
               next == [pc |-> IF attempt >= MaxRetries THEN "failed" ELSE "retry",
                        attempt |-> attempt, seen |-> call[c].seen]
    <3>2. call'[c] = next
      BY <1>1, <3>1 DEF Fail
    <3>3. next.attempt = attempt /\ next.pc # "update"
          /\ (next.pc = "failed" => attempt >= 3)
      BY DEF MaxRetries
    <3> HIDE DEF next
    <3> QED BY <3>1, <3>2, <3>3
  <2> QED BY <2>1, <2>2
<1>5. CASE WriteLog(c)
  BY <1>2, <1>5 DEF WriteLog
<1>6. CASE Commit(c)
  BY <1>2, <1>6 DEF Commit
<1>7. CASE OperationFails(c)
  BY <1>7 DEF OperationFails, Contender
<1> QED BY <1>3, <1>4, <1>5, <1>6, <1>7 DEF Step

\* Nobody has lost an attempt at first.
LEMMA InitLost == ASSUME IsFiniteSet(Calls), Init PROVE LostToWinners
<1> SUFFICES ASSUME NEW c \in Calls
             PROVE  call[c].attempt = 0 /\ call[c].pc = "new"
                    /\ Cardinality(Winners(c)) \in Nat
  BY DEF LostToWinners
<1> QED BY WinnersFinite DEF Init

\* Every attempt lost is charged to another winner.
LEMMA StepLost ==
  ASSUME IsFiniteSet(Calls), IInv, LostToWinners, [Next]_vars
  PROVE  LostToWinners'
<1>1. CASE UNCHANGED vars
  BY <1>1 DEF vars, LostToWinners, Winners, Applied
<1>2. ASSUME NEW d \in Calls, Step(d) PROVE LostToWinners'
  <2> SUFFICES ASSUME NEW c \in Calls, Contender(c)
               PROVE  /\ call'[c].attempt <= Cardinality(Winners(c)')
                      /\ call'[c].pc = "update"
                         /\ call'[c].seen.version # rows'[UserOf[c]].version
                         => call'[c].attempt + 1 <= Cardinality(Winners(c)')
                      /\ call'[c].pc = "failed" => call'[c].attempt >= 3
    BY DEF LostToWinners, Contender
  <2> DEFINE wins == Cardinality(Winners(c))
  <2>1. /\ wins \in Nat /\ IsFiniteSet(Winners(c))
        /\ call[c].attempt <= wins
        /\ call[c].pc = "update" /\ call[c].seen.version # rows[UserOf[c]].version
           => call[c].attempt + 1 <= wins
        /\ call[c].pc = "failed" => call[c].attempt >= 3
    BY WinnersFinite DEF LostToWinners
  <2>2. \A e \in Calls : e # d => (e \in Applied' <=> e \in Applied)
    BY <1>2, StepEffect DEF Applied
  <2>3. call[c].attempt \in Nat /\ UserOf[c] \in Users
    BY BalanceAssumption DEF IInv, TypeOK, CallState
  <2>4. CASE d = c
    <3>1. Winners(c)' = Winners(c)
      BY <2>2, <2>4 DEF Winners, Others, CallsOn
    <3> HIDE DEF wins
    <3>2. /\ call'[c].attempt <= wins
          /\ call'[c].pc = "update" => call'[c].seen.version = rows'[UserOf[c]].version
          /\ call'[c].pc = "failed" => call'[c].attempt >= 3
      BY <1>2, <2>1, <2>4, ContenderStep
    <3> QED BY <3>1, <3>2 DEF wins
  <2>5. CASE d # c /\ d \notin Others(c)
    <3>1. Winners(c)' = Winners(c)
      BY <2>2, <2>5 DEF Winners, Others, CallsOn
    <3>2. UserOf[d] # UserOf[c]
      BY <2>5 DEF Others, CallsOn
    <3>3. call'[c] = call[c] /\ rows'[UserOf[c]] = rows[UserOf[c]]
      BY <1>2, <2>3, <2>5, <3>2, StepEffect
    <3> QED BY <2>1, <3>1, <3>3
  <2>6. CASE d # c /\ d \in Others(c)
    <3>1. call'[c] = call[c] /\ NoLateFaults({d})
      BY <1>2, <2>6, StepEffect DEF Contender, NoLateFaults
    <3>2. CASE call[d].pc = "update" /\ call'[d].pc = "log"
      <4>1. d \notin Winners(c) /\ Winners(c)' = Winners(c) \cup {d}
        BY <2>2, <2>6, <3>2 DEF Winners, Others, CallsOn, Applied
      <4>2. Cardinality(Winners(c)') = wins + 1
        BY <2>1, <4>1, FS_AddElement
      <4> HIDE DEF wins
      <4> QED BY <2>1, <2>3, <3>1, <4>2
    <3>3. CASE rows' = rows /\ (d \in Applied <=> d \in Applied')
      <4>1. Winners(c)' = Winners(c)
        BY <2>2, <3>3 DEF Winners, Others, CallsOn
      <4> QED BY <2>1, <3>1, <3>3, <4>1
    <3> QED BY <1>2, <3>1, <3>2, <3>3, StepEffect
  <2> QED BY <2>4, <2>5, <2>6
<1> QED BY <1>1, <1>2 DEF Next

\* The three attempts are enough for the concurrency the integration test
\* has, whatever the amounts, the interleaving and the early failures of the
\* others: a charge loses an attempt only to a call that won, and there are at
\* most two to lose to.
THEOREM ThreeAttemptsSuffice ==
  ASSUME IsFiniteSet(Calls)
  PROVE  Spec => []ContendersAllSucceed
<1>1. Init => LostToWinners
  BY InitLost
<1>2. IInv /\ LostToWinners /\ [Next]_vars => LostToWinners'
  BY StepLost
<1>3. TypeOK /\ LostToWinners => ContendersAllSucceed
  <2> SUFFICES ASSUME TypeOK, LostToWinners, NEW c \in Calls, Contender(c),
                      Cardinality(Others(c)) <= 2, call[c].pc = "failed"
               PROVE  FALSE
    BY DEF ContendersAllSucceed, Contender, Others
  <2>1. /\ call[c].attempt <= Cardinality(Winners(c))
        /\ call[c].attempt >= 3
    BY DEF LostToWinners
  <2>2. call[c].attempt \in Nat
    BY DEF TypeOK, CallState
  <2> QED BY <2>1, <2>2, WinnersFinite
<1> QED BY <1>1, <1>2, <1>3, TypeCorrect, Invariance, PTL DEF Spec
-----------------------------------------------------------------------------
\* A log row written is one more of its call, and of no other.
LEMMA AppendedEntry ==
  ASSUME TypeOK, NEW c \in Calls, WriteLog(c)
  PROVE  /\ \A d \in Calls : d # c => EntriesOf(d)' = EntriesOf(d)
         /\ Cardinality(EntriesOf(c)') = Cardinality(EntriesOf(c)) + 1
<1> DEFINE u == UserOf[c]
           n == Len(log[u])
<1>1. u \in Users /\ log[u] \in Seq(LogRow) /\ n \in Nat
  BY BalanceAssumption DEF TypeOK
<1>2. /\ log'[u] = Append(log[u], LogEntry(c))
      /\ \A v \in Users : v # u => log'[v] = log[v]
  BY <1>1 DEF WriteLog, TypeOK
<1>3. LogEntry(c).call = c
  BY DEF LogEntry
<1>4. /\ Len(log'[u]) = n + 1
      /\ log'[u][n + 1] = LogEntry(c)
      /\ \A i \in 1..n : log'[u][i] = log[u][i]
  <2> DEFINE entry == LogEntry(c)
  <2> HIDE DEF entry
  <2>1. log'[u] = Append(log[u], entry)
    BY <1>2 DEF entry
  <2>2. /\ Len(log'[u]) = n + 1
        /\ log'[u][n + 1] = entry
        /\ \A i \in 1..n : log'[u][i] = log[u][i]
    BY <1>1, <2>1
  <2> QED BY <2>2 DEF entry
<1>5. ASSUME NEW d \in Calls, d # c
      PROVE  EntriesOf(d)' = EntriesOf(d)
  <2>1. CASE UserOf[d] = u
    BY SMTT(40), <1>1, <1>3, <1>4, <1>5, <2>1 DEF EntriesOf
  <2>2. CASE UserOf[d] # u
    BY <1>2, <2>2, BalanceAssumption DEF EntriesOf
  <2> QED BY <2>1, <2>2
<1>6. EntriesOf(c)' = EntriesOf(c) \cup {n + 1} /\ n + 1 \notin EntriesOf(c)
  BY SMTT(40), <1>1, <1>3, <1>4 DEF EntriesOf
<1>7. EntriesOf(c) \subseteq 1..n
  BY DEF EntriesOf
<1>8. IsFiniteSet(EntriesOf(c))
  <2>1. IsFiniteSet(1..n)
    BY <1>1, FS_Interval
  <2> QED BY <1>7, <2>1, FS_Subset
<1> QED BY <1>5, <1>6, <1>8, FS_AddElement

\* However often a call is retried, it logs its change exactly once if it
\* succeeds and not at all if it fails, unless it failed after its update.
THEOREM LoggedOnce == Spec => []CallsCountOnce
<1>1. Init => CallsCountOnce
  <2> SUFFICES ASSUME Init, NEW c \in Calls
               PROVE  EntriesOf(c) = {} /\ call[c].pc = "new"
    BY FS_EmptySet DEF CallsCountOnce
  <2>1. UserOf[c] \in Users
    BY BalanceAssumption
  <2> QED BY <2>1 DEF Init, EntriesOf
<1>2. IInv /\ CallsCountOnce /\ [Next]_vars => CallsCountOnce'
  <2> SUFFICES ASSUME IInv, CallsCountOnce, [Next]_vars PROVE CallsCountOnce'
    OBVIOUS
  <2>1. CASE UNCHANGED vars
    BY <2>1 DEF vars, CallsCountOnce, EntriesOf
  <2>2. ASSUME NEW d \in Calls, Step(d), NEW c \in Calls, NoLateFaults({c})
        PROVE  Cardinality(EntriesOf(c)') =
                 IF call'[c].pc \in {"commit", "done"} THEN 1 ELSE 0
    <3>1. /\ TypeOK
          /\ Cardinality(EntriesOf(c)) =
               IF call[c].pc \in {"commit", "done"} THEN 1 ELSE 0
      BY <2>2 DEF IInv, CallsCountOnce
    <3>2. d # c => call'[c] = call[c]
      BY <2>2, StepEffect
    <3>3. CASE WriteLog(d)
      <4>1. d # c => EntriesOf(c)' = EntriesOf(c)
        BY <3>1, <3>3, AppendedEntry
      <4>2. CASE d = c
        <5>1. Cardinality(EntriesOf(c)') = Cardinality(EntriesOf(c)) + 1
          BY <3>1, <3>3, <4>2, AppendedEntry
        <5>2. call[c].pc = "log" /\ call'[c].pc = "commit"
          BY <3>1, <3>3, <4>2, GotoType DEF WriteLog
        <5> QED BY <3>1, <5>1, <5>2
      <4> QED BY <3>1, <3>2, <4>1, <4>2
    <3>4. CASE log' = log /\ (d = c => (call[c].pc \in {"commit", "done"}
                                        <=> call'[c].pc \in {"commit", "done"}))
      <4>1. EntriesOf(c)' = EntriesOf(c)
        BY <3>4 DEF EntriesOf
      <4> QED BY <3>1, <3>2, <3>4, <4>1
    <3>5. CASE Read(d)
      <4>1. call[d].pc \in {"new", "retry"} /\ log' = log
        BY <3>5 DEF Read
      <4>2. call'[d].pc \in {"update", "retry", "failed"}
        BY <3>1, <3>5, FailType DEF Read, TypeOK
      <4> QED BY <3>4, <4>1, <4>2
    <3>6. CASE Update(d)
      <4>1. call[d].pc = "update" /\ log' = log
        BY <3>6 DEF Update
      <4>2. call'[d].pc \in {"log", "retry", "failed"}
        BY <3>1, <3>6, FailType, GotoType DEF Update
      <4> QED BY <3>4, <4>1, <4>2
    <3>7. CASE Commit(d)
      <4>1. call[d].pc = "commit" /\ log' = log /\ Goto(d, "done")
        BY <3>7 DEF Commit
      <4> QED BY <3>1, <3>4, <4>1, GotoType
    <3>8. CASE OperationFails(d)
      <4>1. log' = log /\ Fail(d)
        BY <3>8 DEF OperationFails
      <4>2. call'[d].pc \in {"retry", "failed"}
        BY <3>1, <4>1, FailType
      <4>3. d = c => call[d].pc \in {"new", "retry", "update"}
        BY <2>2, <3>8 DEF OperationFails, NoLateFaults
      <4> QED BY <3>4, <4>1, <4>2, <4>3
    <3> QED BY <2>2, <3>3, <3>5, <3>6, <3>7, <3>8 DEF Step
  <2> QED BY <2>1, <2>2 DEF Next, CallsCountOnce
<1> QED BY <1>1, <1>2, Invariance, PTL DEF Spec
-----------------------------------------------------------------------------
\* No call fails between its update and its log row.
LogIsReached == \A c \in Calls : "log" \notin Faults[c]

\* The calls that have changed the balance of u and not yet logged it
Unlogged(u) == {c \in CallsOn(u) : call[c].pc = "log"}

\* amount: the balance at each version of a row; at: where the log has the
\* change of each version, 0 if its call has still to log it.
Explains(entries, version, amount, at) ==
  LET changes == 1..version-1 IN
  /\ amount \in [1..version -> Nat] /\ at \in [changes -> 0..Len(entries)]
  /\ \A v \in changes : at[v] # 0 =>
       /\ entries[at[v]].before = amount[v] /\ entries[at[v]].after = amount[v + 1]
       /\ \A w \in changes : w # v => at[w] # at[v]
  /\ \A i \in 1..Len(entries) : \E v \in changes : at[v] = i

\* The changes without an entry are those of the calls that have still to log.
Awaited(u, amount, at) ==
  LET changes == 1..rows[u].version-1 IN
  /\ \A v \in changes : at[v] = 0 => \E c \in Unlogged(u) : call[c].seen.version = v
  /\ \A c \in Unlogged(u) :
       LET seen == call[c].seen IN
       /\ seen.version \in changes /\ at[seen.version] = 0
       /\ seen.balance = amount[seen.version]
       /\ seen.balance + Delta[c] = amount[seen.version + 1]
       /\ \A d \in Unlogged(u) : d # c => call[d].seen.version # seen.version

Arranges(u, amount, at) ==
  /\ Explains(log[u], rows[u].version, amount, at) /\ Awaited(u, amount, at)
  /\ amount[1] = InitialBalance[u] /\ amount[rows[u].version] = rows[u].balance

\* Every version of a row is explained by one entry of the log or by one call
\* that is about to write it.
ChangesAreLogged ==
  \A u \in Users : rows[u].version >= 1 /\ \E amount, at : Arranges(u, amount, at)

\* The first version needs no entry.
LEMMA ArrangedInit == Init => ChangesAreLogged
<1> SUFFICES ASSUME Init, NEW u \in Users
             PROVE  rows[u].version >= 1 /\ \E amount, at : Arranges(u, amount, at)
  BY DEF ChangesAreLogged
<1>1. /\ rows[u].balance = InitialBalance[u] /\ rows[u].version = 1
      /\ InitialBalance[u] \in Nat /\ log[u] = << >> /\ Unlogged(u) = {}
  BY BalanceAssumption DEF Init, NewUser, Unlogged, CallsOn
<1> DEFINE amount == [v \in 1..1 |-> InitialBalance[u]]
           at == [v \in 1..0 |-> 0]
<1>2. Arranges(u, amount, at)
  BY <1>1 DEF Arranges, Explains, Awaited
<1> QED BY <1>1, <1>2

\* What does not touch the row, the log and the unlogged changes of a user
LEMMA ArrangedStays ==
  ASSUME NEW u \in Users, NEW amount, NEW at, Arranges(u, amount, at),
         rows'[u] = rows[u], log'[u] = log[u],
         \A c \in CallsOn(u) :
           /\ call'[c].pc = "log" <=> call[c].pc = "log"
           /\ call[c].pc = "log" => call'[c] = call[c]
  PROVE  Arranges(u, amount, at)'
<1>1. Unlogged(u)' = Unlogged(u) /\ \A c \in Unlogged(u) : call'[c] = call[c]
  BY DEF Unlogged, CallsOn
<1>2. Awaited(u, amount, at)
  BY DEF Arranges
<1>3. Awaited(u, amount, at)'
  <2>1. \A v \in 1..rows[u].version-1 :
          at[v] = 0 => \E c \in Unlogged(u)' : call'[c].seen.version = v
    BY <1>1, <1>2 DEF Awaited
  <2>2. ASSUME NEW c \in Unlogged(u)
        PROVE  LET seen == call'[c].seen IN
               /\ seen.version \in 1..rows[u].version-1 /\ at[seen.version] = 0
               /\ seen.balance = amount[seen.version]
               /\ seen.balance + Delta[c] = amount[seen.version + 1]
               /\ \A d \in Unlogged(u) : d # c => call'[d].seen.version # seen.version
    BY <1>1, <1>2 DEF Awaited
  <2> QED BY <1>1, <2>1, <2>2 DEF Awaited
<1> QED BY <1>3 DEF Arranges

\* A change more, without an entry as yet
LEMMA ChangeAdded ==
  ASSUME NEW entries \in Seq(LogRow), NEW k \in Nat \ {0}, NEW new \in Nat,
         NEW amount, NEW at, Explains(entries, k, amount, at)
  PROVE  \E amount2, at2 :
           /\ Explains(entries, k + 1, amount2, at2)
           /\ amount2[k + 1] = new /\ at2[k] = 0
           /\ \A v \in 1..k : amount2[v] = amount[v]
           /\ \A v \in 1..k-1 : at2[v] = at[v]
<1> DEFINE n == Len(entries)
           amount2 == [v \in 1..k+1 |-> IF v = k + 1 THEN new ELSE amount[v]]
           at2 == [v \in 1..k |-> IF v = k THEN 0 ELSE at[v]]
<1>1. /\ amount \in [1..k -> Nat] /\ at \in [1..k-1 -> 0..n] /\ n \in Nat
  BY DEF Explains
<1>2. /\ k + 1 - 1 = k /\ k \in 1..k /\ k + 1 \in 1..k+1
      /\ \A v \in 1..k : v \in 1..k+1 /\ v # k + 1 /\ (v = k \/ v \in 1..k-1)
      /\ \A v \in 1..k-1 : v \in 1..k /\ v # k /\ v + 1 \in 1..k
      /\ \A v \in 1..k+1 : v = k + 1 \/ v \in 1..k
      /\ 0 \in 0..n
  BY <1>1
<1>3. /\ amount2 \in [1..k+1 -> Nat]
      /\ amount2[k + 1] = new /\ \A v \in 1..k : amount2[v] = amount[v]
  BY <1>1, <1>2
<1>4. /\ at2 \in [1..k -> 0..n]
      /\ at2[k] = 0 /\ \A v \in 1..k-1 : at2[v] = at[v]
  BY <1>1, <1>2
<1> HIDE DEF amount2, at2
<1>5. ASSUME NEW v \in 1..k, at2[v] # 0
      PROVE  /\ entries[at2[v]].before = amount2[v] /\ entries[at2[v]].after = amount2[v + 1]
             /\ \A w \in 1..k : w # v => at2[w] # at2[v]
  <2>1. v \in 1..k-1 /\ v + 1 \in 1..k /\ at[v] # 0 /\ at[v] = at2[v]
    BY <1>2, <1>4, <1>5
  <2>2. /\ entries[at[v]].before = amount[v] /\ entries[at[v]].after = amount[v + 1]
        /\ \A w \in 1..k-1 : w # v => at[w] # at[v]
    BY <2>1 DEF Explains
  <2>3. amount2[v] = amount[v] /\ amount2[v + 1] = amount[v + 1]
    BY <1>3, <2>1
  <2>4. \A w \in 1..k : w # v => at2[w] # at2[v]
    BY <1>2, <1>4, <1>5, <2>1, <2>2
  <2> QED BY <2>1, <2>2, <2>3, <2>4
<1>6. ASSUME NEW i \in 1..n PROVE \E v \in 1..k : at2[v] = i
  <2>1. PICK v \in 1..k-1 : at[v] = i
    BY DEF Explains
  <2> QED BY <1>2, <1>4, <2>1
<1>7. Explains(entries, k + 1, amount2, at2)
  BY <1>2, <1>3, <1>4, <1>5, <1>6 DEF Explains
<1> QED BY SMTT(40), <1>3, <1>4, <1>7

\* An interval and the one that is longer by one.
LEMMA LongerInterval ==
  ASSUME NEW m \in Nat
  PROVE  /\ m + 1 \in 0..m+1 /\ m + 1 \notin 0..m /\ m + 1 # 0
         /\ \A i \in 0..m : i \in 0..m+1 /\ (i # 0 => i \in 1..m)
         /\ \A i \in 1..m+1 : i = m + 1 \/ i \in 1..m
  OBVIOUS

\* The entry of the change v, which had none
LEMMA EntryAdded ==
  ASSUME NEW entries \in Seq(LogRow), NEW k \in Nat \ {0}, NEW entry \in LogRow,
         NEW amount, NEW at, Explains(entries, k, amount, at),
         NEW v \in 1..k-1, at[v] = 0,
         entry.before = amount[v], entry.after = amount[v + 1]
  PROVE  \E at2 :
           /\ Explains(Append(entries, entry), k, amount, at2)
           /\ at2[v] # 0 /\ \A w \in 1..k-1 : w # v => at2[w] = at[w]
<1> DEFINE n == Len(entries)
           longer == Append(entries, entry)
           at2 == [w \in 1..k-1 |-> IF w = v THEN n + 1 ELSE at[w]]
<1>1. /\ amount \in [1..k -> Nat] /\ at \in [1..k-1 -> 0..n] /\ n \in Nat
  BY DEF Explains
<1>2. /\ Len(longer) = n + 1 /\ longer[n + 1] = entry
      /\ \A i \in 1..n : longer[i] = entries[i]
  BY <1>1
<1>3. /\ n + 1 \in 0..n+1 /\ n + 1 \notin 0..n /\ n + 1 # 0
      /\ \A i \in 0..n : i \in 0..n+1 /\ (i # 0 => i \in 1..n)
      /\ \A i \in 1..n+1 : i = n + 1 \/ i \in 1..n
  BY <1>1, LongerInterval
<1>4. /\ at2 \in [1..k-1 -> 0..n+1] /\ at2[v] = n + 1
      /\ \A w \in 1..k-1 : w # v => at2[w] = at[w]
  BY <1>1, <1>3
<1> HIDE DEF at2, longer, n
<1>5. ASSUME NEW w \in 1..k-1, at2[w] # 0
      PROVE  /\ longer[at2[w]].before = amount[w] /\ longer[at2[w]].after = amount[w + 1]
             /\ \A x \in 1..k-1 : x # w => at2[x] # at2[w]
  <2>1. \A x \in 1..k-1 : at[x] \in 0..n
    BY <1>1
  <2>2. CASE w = v
    BY <1>2, <1>3, <1>4, <2>1, <2>2
  <2>3. CASE w # v
    <3>1. at2[w] = at[w] /\ at[w] \in 1..n
      BY <1>3, <1>4, <1>5, <2>1, <2>3
    <3>2. /\ entries[at[w]].before = amount[w] /\ entries[at[w]].after = amount[w + 1]
          /\ \A x \in 1..k-1 : x # w => at[x] # at[w]
      BY <1>5, <3>1 DEF Explains
    <3>3. \A x \in 1..k-1 : x # w => at2[x] # at2[w]
      BY <1>3, <1>4, <2>1, <3>1, <3>2
    <3> QED BY <1>2, <3>1, <3>2, <3>3
  <2> QED BY <2>2, <2>3
<1>6. ASSUME NEW i \in 1..n+1 PROVE \E w \in 1..k-1 : at2[w] = i
  <2>1. CASE i = n + 1
    BY <1>4, <2>1
  <2>2. CASE i \in 1..n
    <3>1. PICK w \in 1..k-1 : at[w] = i
      BY <2>2 DEF Explains, n
    <3>2. w # v
      BY <1>1, <2>2, <3>1
    <3> QED BY <1>4, <3>1, <3>2
  <2> QED BY <1>3, <2>1, <2>2
<1>7. Explains(longer, k, amount, at2)
  BY <1>1, <1>2, <1>4, <1>5, <1>6 DEF Explains
<1> QED BY <1>3, <1>4, <1>7 DEF longer

\* A change of the balance: the row has one more version, the call one more
\* entry to write.
LEMMA ArrangedUpdate ==
  ASSUME NEW c \in Calls, IInv, Update(c), NEW amount, NEW at,
         Arranges(UserOf[c], amount, at), rows[UserOf[c]].version >= 1,
         rows[UserOf[c]].version = call[c].seen.version
  PROVE  \E amount2, at2 : Arranges(UserOf[c], amount2, at2)'
<1> DEFINE u == UserOf[c]
           seen == call[c].seen
           k == rows[u].version
           new == seen.balance + Delta[c]
<1>1. /\ TypeOK /\ u \in Users /\ rows[u] \in UserRow /\ seen \in UserRow
      /\ call[c].pc = "update" /\ log' = log /\ k \in Nat \ {0}
      /\ log[u] \in Seq(LogRow)
  BY BalanceAssumption DEF IInv, TypeOK, Update, CallState, UserRow
<1>2. /\ Accepts(c, seen.balance) /\ seen.balance = rows[u].balance
      /\ seen.version = k
  BY <1>1 DEF IInv, SeenIsAccepted, SeenIsPast
<1>3. new \in Nat
  BY <1>1, <1>2, DeltaType DEF UserRow
<1>4. rows'[u].balance = new /\ rows'[u].version = k + 1
  BY <1>1, <1>2 DEF Update, TypeOK
<1>5. /\ \A d \in Calls : d # c => call'[d] = call[d]
      /\ call'[c].pc = "log" /\ call'[c].seen = seen
  BY <1>1, <1>2, GotoType DEF Update
<1>6. Unlogged(u)' = Unlogged(u) \cup {c}
  BY <1>1, <1>5 DEF Unlogged, CallsOn
<1>7. \A d \in Unlogged(u) : d # c /\ call'[d] = call[d]
  BY <1>1, <1>5 DEF Unlogged, CallsOn
<1>8. /\ Explains(log[u], k, amount, at) /\ Awaited(u, amount, at)
      /\ amount[1] = InitialBalance[u] /\ amount[k] = rows[u].balance
  BY DEF Arranges
<1>9. /\ k + 1 - 1 = k /\ k \in 1..k /\ 1 \in 1..k
      /\ \A v \in 1..k : v = k \/ v \in 1..k-1
      /\ \A v \in 1..k-1 : v \in 1..k /\ v # k /\ v + 1 \in 1..k
  BY <1>1
<1>10. PICK amount2, at2 :
         /\ Explains(log[u], k + 1, amount2, at2)
         /\ amount2[k + 1] = new /\ at2[k] = 0
         /\ \A v \in 1..k : amount2[v] = amount[v]
         /\ \A v \in 1..k-1 : at2[v] = at[v]
  <2> DEFINE entries == log[u]
  <2>1. /\ entries \in Seq(LogRow) /\ k \in Nat \ {0} /\ new \in Nat
        /\ Explains(entries, k, amount, at)
    BY <1>1, <1>3, <1>8
  <2> HIDE DEF entries, k, new
  <2>2. \E amount2, at2 :
           /\ Explains(entries, k + 1, amount2, at2)
           /\ amount2[k + 1] = new /\ at2[k] = 0
           /\ \A v \in 1..k : amount2[v] = amount[v]
           /\ \A v \in 1..k-1 : at2[v] = at[v]
    BY <2>1, ChangeAdded
  <2> QED BY <2>2 DEF entries
<1>11. ASSUME NEW v \in 1..k, at2[v] = 0
       PROVE  \E d \in Unlogged(u)' : call'[d].seen.version = v
  <2>1. CASE v = k
    BY <1>2, <1>5, <1>6, <2>1
  <2>2. CASE v # k
    <3>1. v \in 1..k-1 /\ at[v] = 0
      BY <1>9, <1>10, <1>11, <2>2
    <3>2. PICK d \in Unlogged(u) : call[d].seen.version = v
      BY <1>8, <3>1 DEF Awaited
    <3> QED BY <1>6, <1>7, <3>2
  <2> QED BY <2>1, <2>2
<1>12. ASSUME NEW d \in Unlogged(u)
       PROVE  LET v == call[d].seen.version IN
              /\ v \in 1..k-1 /\ at[v] = 0
              /\ call[d].seen.balance = amount[v]
              /\ call[d].seen.balance + Delta[d] = amount[v + 1]
              /\ \A e \in Unlogged(u) : e # d => call[e].seen.version # v
  BY <1>8 DEF Awaited
<1>13. ASSUME NEW d \in Unlogged(u)'
       PROVE  LET v == call'[d].seen.version IN
              /\ v \in 1..k /\ at2[v] = 0
              /\ call'[d].seen.balance = amount2[v]
              /\ call'[d].seen.balance + Delta[d] = amount2[v + 1]
              /\ \A e \in Unlogged(u)' : e # d => call'[e].seen.version # v
  <2>1. CASE d = c
    <3>1. \A e \in Unlogged(u)' : e # d => call'[e].seen.version # k
      BY <1>6, <1>7, <1>9, <1>12, <2>1
    <3> QED BY <1>2, <1>5, <1>8, <1>9, <1>10, <2>1, <3>1
  <2>2. CASE d # c
    <3> DEFINE v == call[d].seen.version
    <3>1. d \in Unlogged(u) /\ call'[d] = call[d]
      BY <1>6, <1>7, <2>2
    <3>2. /\ v \in 1..k-1 /\ at[v] = 0
          /\ call[d].seen.balance = amount[v]
          /\ call[d].seen.balance + Delta[d] = amount[v + 1]
          /\ \A e \in Unlogged(u) : e # d => call[e].seen.version # v
      BY <1>12, <3>1
    <3>3. \A e \in Unlogged(u)' : e # d => call'[e].seen.version # v
      BY <1>2, <1>5, <1>6, <1>7, <1>9, <3>2
    <3>4. v \in 1..k /\ v + 1 \in 1..k
      BY <1>9, <3>2
    <3>5. at2[v] = at[v] /\ amount2[v] = amount[v] /\ amount2[v + 1] = amount[v + 1]
      BY <1>10, <3>2, <3>4
    <3> QED BY <3>1, <3>2, <3>3, <3>4, <3>5
  <2> QED BY <2>1, <2>2
<1>14. Awaited(u, amount2, at2)'
  <2>1. 1..rows'[u].version-1 = 1..k
    BY <1>4, <1>9
  <2>2. \A v \in 1..rows'[u].version-1 :
          at2[v] = 0 => \E d \in Unlogged(u)' : call'[d].seen.version = v
    BY <1>11, <2>1
  <2>3. ASSUME NEW d \in Unlogged(u)'
        PROVE  LET v == call'[d].seen.version IN
               /\ v \in 1..rows'[u].version-1 /\ at2[v] = 0
               /\ call'[d].seen.balance = amount2[v]
               /\ call'[d].seen.balance + Delta[d] = amount2[v + 1]
               /\ \A e \in Unlogged(u)' : e # d => call'[e].seen.version # v
    BY <1>13, <2>1
  <2> QED BY <2>2, <2>3 DEF Awaited
<1>15. Explains(log'[u], rows'[u].version, amount2, at2)
  BY <1>1, <1>4, <1>10
<1>16. amount2[1] = InitialBalance[u] /\ amount2[rows'[u].version] = rows'[u].balance
  BY <1>4, <1>8, <1>9, <1>10
<1>17. Arranges(u, amount2, at2)'
  BY <1>14, <1>15, <1>16 DEF Arranges
<1> QED BY <1>17

\* A row of the log: the change of the call is no longer without an entry.
LEMMA ArrangedLog ==
  ASSUME NEW c \in Calls, IInv, WriteLog(c), NEW amount, NEW at,
         Arranges(UserOf[c], amount, at), rows[UserOf[c]].version >= 1
  PROVE  \E at2 : Arranges(UserOf[c], amount, at2)'
<1> DEFINE u == UserOf[c]
           seen == call[c].seen
           k == rows[u].version
           entry == LogEntry(c)
           slot == seen.version
<1>1. /\ TypeOK /\ u \in Users /\ rows[u] \in UserRow /\ seen \in UserRow
      /\ call[c].pc = "log" /\ rows' = rows /\ k \in Nat \ {0}
      /\ log[u] \in Seq(LogRow)
      /\ c \in Unlogged(u)
  BY BalanceAssumption DEF IInv, TypeOK, WriteLog, CallState, UserRow, Unlogged, CallsOn
<1>2. log'[u] = Append(log[u], entry)
  BY <1>1 DEF WriteLog, TypeOK
<1>3. Accepts(c, seen.balance)
  BY <1>1 DEF IInv, SeenIsAccepted
<1>4. entry \in LogRow /\ entry.before = seen.balance /\ entry.after = seen.balance + Delta[c]
  BY <1>1, <1>3, DeltaType DEF LogEntry, LogRow, UserRow
<1>5. \A d \in Calls : d # c => call'[d] = call[d]
  BY <1>1, GotoType DEF WriteLog
<1>6. Unlogged(u)' = Unlogged(u) \ {c}
  <2>1. call'[c].pc = "commit"
    BY <1>1, GotoType DEF WriteLog
  <2> QED BY <1>5, <2>1 DEF Unlogged, CallsOn
<1>7. \A d \in Unlogged(u)' : d \in Unlogged(u) /\ d # c /\ call'[d] = call[d]
  BY <1>5, <1>6 DEF Unlogged, CallsOn
<1>8. /\ Explains(log[u], k, amount, at) /\ Awaited(u, amount, at)
      /\ amount[1] = InitialBalance[u] /\ amount[k] = rows[u].balance
  BY DEF Arranges
<1>9. ASSUME NEW d \in Unlogged(u)
      PROVE  LET v == call[d].seen.version IN
             /\ v \in 1..k-1 /\ at[v] = 0
             /\ call[d].seen.balance = amount[v]
             /\ call[d].seen.balance + Delta[d] = amount[v + 1]
             /\ \A e \in Unlogged(u) : e # d => call[e].seen.version # v
  BY <1>8 DEF Awaited
<1>10. PICK at2 :
         /\ Explains(log'[u], k, amount, at2)
         /\ at2[slot] # 0 /\ \A w \in 1..k-1 : w # slot => at2[w] = at[w]
  <2> DEFINE entries == log[u]
  <2>1. /\ entries \in Seq(LogRow) /\ k \in Nat \ {0}
        /\ Explains(entries, k, amount, at)
        /\ slot \in 1..k-1 /\ at[slot] = 0
        /\ entry \in LogRow /\ entry.before = amount[slot] /\ entry.after = amount[slot + 1]
    BY <1>1, <1>4, <1>8, <1>9
  <2> HIDE DEF entries, k, entry, slot
  <2>2. \E at2 :
          /\ Explains(Append(entries, entry), k, amount, at2)
          /\ at2[slot] # 0 /\ \A w \in 1..k-1 : w # slot => at2[w] = at[w]
    BY <2>1, EntryAdded
  <2> QED BY <1>2, <2>2 DEF entries
<1>11. ASSUME NEW v \in 1..k-1, at2[v] = 0
       PROVE  \E d \in Unlogged(u)' : call'[d].seen.version = v
  <2>1. v # slot /\ at[v] = 0
    BY <1>10, <1>11
  <2>2. PICK d \in Unlogged(u) : call[d].seen.version = v
    BY <1>8, <2>1 DEF Awaited
  <2> QED BY <1>6, <1>7, <2>1, <2>2
<1>12. ASSUME NEW d \in Unlogged(u)'
       PROVE  LET v == call'[d].seen.version IN
              /\ v \in 1..k-1 /\ at2[v] = 0
              /\ call'[d].seen.balance = amount[v]
              /\ call'[d].seen.balance + Delta[d] = amount[v + 1]
              /\ \A e \in Unlogged(u)' : e # d => call'[e].seen.version # v
  <2> DEFINE v == call[d].seen.version
  <2>1. d \in Unlogged(u) /\ d # c /\ call'[d] = call[d]
    BY <1>7
  <2>2. /\ v \in 1..k-1 /\ at[v] = 0
        /\ call[d].seen.balance = amount[v]
        /\ call[d].seen.balance + Delta[d] = amount[v + 1]
        /\ \A e \in Unlogged(u) : e # d => call[e].seen.version # v
    BY <1>9, <2>1
  <2>3. at2[v] = 0
    BY <1>1, <1>10, <2>1, <2>2
  <2>4. \A e \in Unlogged(u)' : e # d => call'[e].seen.version # v
    BY <1>7, <2>2
  <2> QED BY <2>1, <2>2, <2>3, <2>4
<1>13. Awaited(u, amount, at2)'
  <2>1. \A v \in 1..rows'[u].version-1 :
          at2[v] = 0 => \E d \in Unlogged(u)' : call'[d].seen.version = v
    BY <1>1, <1>11
  <2>2. ASSUME NEW d \in Unlogged(u)'
        PROVE  LET v == call'[d].seen.version IN
               /\ v \in 1..rows'[u].version-1 /\ at2[v] = 0
               /\ call'[d].seen.balance = amount[v]
               /\ call'[d].seen.balance + Delta[d] = amount[v + 1]
               /\ \A e \in Unlogged(u)' : e # d => call'[e].seen.version # v
    BY <1>1, <1>12
  <2> QED BY <2>1, <2>2 DEF Awaited
<1>14. Explains(log'[u], rows'[u].version, amount, at2)
  BY <1>1, <1>10
<1>15. Arranges(u, amount, at2)'
  BY <1>1, <1>8, <1>13, <1>14 DEF Arranges
<1> QED BY <1>15

\* The steps that neither change a balance nor add an entry
LEMMA ArrangedElse ==
  ASSUME NEW c \in Calls, IInv, ChangesAreLogged, rows' = rows, log' = log,
         \A d \in Calls : d # c => call'[d] = call[d],
         call[c].pc # "log", call'[c].pc # "log"
  PROVE  ChangesAreLogged'
<1> SUFFICES ASSUME NEW u \in Users
             PROVE  rows[u].version >= 1 /\ \E amount, at : Arranges(u, amount, at)'
  BY DEF ChangesAreLogged
<1>1. PICK amount, at : rows[u].version >= 1 /\ Arranges(u, amount, at)
  BY DEF ChangesAreLogged
<1>2. Arranges(u, amount, at)'
  BY <1>1, ArrangedStays DEF CallsOn
<1> QED BY <1>1, <1>2

\* Every step keeps each version explained.
LEMMA StepArranged ==
  ASSUME LogIsReached, IInv, ChangesAreLogged, [Next]_vars
  PROVE  ChangesAreLogged'
<1>1. CASE UNCHANGED vars
  <2> SUFFICES ASSUME NEW u \in Users
               PROVE  rows[u].version >= 1 /\ \E amount, at : Arranges(u, amount, at)'
    BY <1>1 DEF ChangesAreLogged, vars
  <2>1. PICK amount, at : rows[u].version >= 1 /\ Arranges(u, amount, at)
    BY DEF ChangesAreLogged
  <2>2. rows' = rows /\ log' = log /\ call' = call
    BY <1>1 DEF vars
  <2>3. Arranges(u, amount, at)'
    BY <2>1, <2>2, ArrangedStays
  <2> QED BY <2>1, <2>3
<1>2. ASSUME NEW c \in Calls, Step(c) PROVE ChangesAreLogged'
  <2> DEFINE u == UserOf[c]
  <2>1. TypeOK /\ u \in Users /\ \A d \in Calls : d # c => call'[d] = call[d]
    BY <1>2, StepEffect, BalanceAssumption DEF IInv
  <2>2. ASSUME NEW v \in Users, v # u, rows'[v] = rows[v], log'[v] = log[v]
        PROVE  rows'[v].version >= 1 /\ \E amount, at : Arranges(v, amount, at)'
    <3>1. PICK amount, at : rows[v].version >= 1 /\ Arranges(v, amount, at)
      BY DEF ChangesAreLogged
    <3>2. \A d \in CallsOn(v) : call'[d] = call[d]
      BY <2>1, <2>2 DEF CallsOn
    <3>3. Arranges(v, amount, at)'
      BY <2>2, <3>1, <3>2, ArrangedStays
    <3> QED BY <2>2, <3>1, <3>3
  <2>3. PICK amount, at : rows[u].version >= 1 /\ Arranges(u, amount, at)
    BY <2>1 DEF ChangesAreLogged
  <2>4. ASSUME rows' = rows, Fail(c), call[c].pc # "log", log' = log
        PROVE  ChangesAreLogged'
    BY <2>1, <2>4, FailType, ArrangedElse
  <2>5. CASE Read(c)
    <3>1. rows' = rows /\ log' = log /\ call[c].pc \in {"new", "retry"}
      BY <2>5 DEF Read
    <3>2. CASE Accepts(c, rows[u].balance)
      <4>1. call'[c].pc = "update"
        BY <2>1, <2>5, <3>2 DEF Read, TypeOK
      <4> QED BY <2>1, <3>1, <4>1, ArrangedElse
    <3>3. CASE ~Accepts(c, rows[u].balance)
      BY <2>4, <2>5, <3>1, <3>3 DEF Read
    <3> QED BY <3>2, <3>3
  <2>6. CASE Update(c)
    <3>1. log' = log /\ call[c].pc = "update"
      BY <2>6 DEF Update
    <3>2. CASE rows[u].version = call[c].seen.version
      <4>1. \E amount2, at2 : Arranges(u, amount2, at2)'
        BY <2>3, <2>6, <3>2, ArrangedUpdate
      <4>2. \A v \in Users : v # u => rows'[v] = rows[v]
        BY <2>1, <2>6, <3>2 DEF Update, TypeOK
      <4>3. rows'[u].version >= 1
        BY <2>1, <2>3, <2>6, <3>2 DEF Update, TypeOK, UserRow
      <4> QED BY <2>2, <3>1, <4>1, <4>2, <4>3 DEF ChangesAreLogged
    <3>3. CASE rows[u].version # call[c].seen.version
      BY <2>4, <2>6, <3>1, <3>3 DEF Update
    <3> QED BY <3>2, <3>3
  <2>7. CASE WriteLog(c)
    <3>1. \E at2 : Arranges(u, amount, at2)'
      BY <2>3, <2>7, ArrangedLog
    <3>2. rows' = rows /\ \A v \in Users : v # u => log'[v] = log[v]
      BY <2>1, <2>7 DEF WriteLog, TypeOK
    <3> QED BY <2>2, <2>3, <3>1, <3>2 DEF ChangesAreLogged
  <2>8. CASE Commit(c)
    <3>1. rows' = rows /\ log' = log /\ call[c].pc = "commit" /\ Goto(c, "done")
      BY <2>8 DEF Commit
    <3>2. call'[c].pc = "done"
      BY <2>1, <3>1, GotoType
    <3> QED BY <2>1, <3>1, <3>2, ArrangedElse
  <2>9. CASE OperationFails(c)
    BY <2>4, <2>9 DEF OperationFails, LogIsReached
  <2> QED BY <1>2, <2>5, <2>6, <2>7, <2>8, <2>9 DEF Step
<1> QED BY <1>1, <1>2 DEF Next

\* With nothing left to log, the versions of a row and the entries of its log
\* correspond one to one.
LEMMA EveryVersionOnce ==
  ASSUME NEW entries \in Seq(LogRow), NEW k \in Nat \ {0}, NEW amount, NEW at,
         Explains(entries, k, amount, at), \A v \in 1..k-1 : at[v] # 0
  PROVE  k - 1 = Len(entries) /\ at \in [1..k-1 -> 1..Len(entries)]
<1> DEFINE n == Len(entries)
           changes == 1..k-1
<1>1. at \in [changes -> 0..n] /\ n \in Nat /\ k - 1 \in Nat
  BY DEF Explains
<1>2. \A i \in 0..n : i # 0 => i \in 1..n
  BY <1>1
<1>3. at \in [changes -> 1..n]
  BY <1>1, <1>2
<1>4. /\ \A v, w \in changes : v # w => at[v] # at[w]
      /\ \A i \in 1..n : \E v \in changes : at[v] = i
  BY DEF Explains
<1>5. at \in Bijection(changes, 1..n)
  <2> HIDE DEF changes
  <2> QED BY <1>3, <1>4 DEF Bijection, Injection, Surjection, IsInjective
<1>6. /\ IsFiniteSet(changes) /\ Cardinality(changes) = k - 1
      /\ IsFiniteSet(1..n) /\ Cardinality(1..n) = n
  <2>1. 1 \in Int /\ k - 1 \in Int /\ n \in Int
    BY <1>1
  <2>2. (IF 1 > k - 1 THEN 0 ELSE k - 1 - 1 + 1) = k - 1 /\ (IF 1 > n THEN 0 ELSE n - 1 + 1) = n
    BY <1>1
  <2> QED BY <2>1, <2>2, FS_Interval
<1>7. Cardinality(changes) = Cardinality(1..n)
  BY <1>5, <1>6, FS_Bijection DEF ExistsBijection
<1> QED BY <1>3, <1>6, <1>7

\* The log of a user accounts for the balance without a gap, for any calls,
\* amounts, contention and retries, whenever no change waits for its row,
\* unless a call fails exactly between its update and its log row: a call that
\* fails after the row is repeated and logged again like any other change.
THEOREM LogExplains ==
  ASSUME LogIsReached
  PROVE  Spec => []LogExplainsBalance
<1>1. ASSUME IInv, ChangesAreLogged PROVE LogExplainsBalance
  <2> SUFFICES ASSUME NEW u \in Users, \A c \in CallsOn(u) : call[c].pc # "log"
               PROVE  IsHistory(GetBalanceLogs(u), InitialBalance[u], GetBalance(u))
    BY DEF LogExplainsBalance
  <2> DEFINE entries == log[u]
             k == rows[u].version
             n == Len(entries)
             shown == GetBalanceLogs(u)
  <2>1. PICK amount, at : k >= 1 /\ Arranges(u, amount, at)
    BY <1>1 DEF ChangesAreLogged
  <2>2. /\ entries \in Seq(LogRow) /\ n \in Nat /\ k \in Nat \ {0}
        /\ rows[u].balance = GetBalance(u)
    BY <1>1, <2>1 DEF IInv, TypeOK, UserRow, GetBalance
  <2>3. Unlogged(u) = {}
    BY DEF Unlogged
  <2>4. /\ Explains(entries, k, amount, at) /\ \A v \in 1..k-1 : at[v] # 0
        /\ amount[1] = InitialBalance[u] /\ amount[k] = GetBalance(u)
    BY <2>1, <2>2, <2>3 DEF Arranges, Awaited
  <2>5. k - 1 = n /\ at \in [1..k-1 -> 1..n]
    <3> HIDE DEF entries, k
    <3> QED BY <2>2, <2>4, EveryVersionOnce
  <2>6. k = n + 1 /\ at \in [1..n -> 1..n]
    BY <2>2, <2>5
  <2>7. /\ Len(shown) = n
        /\ \A i \in 1..n : /\ shown[i].beforeAmount = entries[i].before
                           /\ shown[i].afterAmount = entries[i].after
    BY <2>2 DEF GetBalanceLogs, LogItem
  <2>8. CASE n = 0
    BY <2>4, <2>6, <2>7, <2>8 DEF IsHistory
  <2>9. CASE n # 0
    <3>1. \A v \in 1..n : /\ at[v] \in 1..n
                          /\ shown[at[v]].beforeAmount = amount[v]
                          /\ shown[at[v]].afterAmount = amount[v + 1]
                          /\ \A w \in 1..n : w # v => at[w] # at[v]
      <4>1. \A v \in 1..n : /\ entries[at[v]].before = amount[v]
                            /\ entries[at[v]].after = amount[v + 1]
                            /\ \A w \in 1..n : w # v => at[w] # at[v]
        BY <2>4, <2>5 DEF Explains
      <4> QED BY <2>6, <2>7, <4>1
    <3>2. /\ 1 \in 1..n /\ n \in 1..n
          /\ \A i \in 1..n-1 : i \in 1..n /\ i + 1 \in 1..n
      BY <2>2, <2>9
    <3> HIDE DEF entries, k, n, shown
    <3>3. /\ shown[at[1]].beforeAmount = InitialBalance[u]
          /\ shown[at[n]].afterAmount = GetBalance(u)
      BY <2>4, <2>6, <3>1, <3>2
    <3>4. \A i \in 1..n-1 : shown[at[i]].afterAmount = shown[at[i + 1]].beforeAmount
      BY <3>1, <3>2
    <3>5. \A i, j \in 1..n : i # j => at[i] # at[j]
      BY <3>1
    <3>6. IsHistory(shown, InitialBalance[u], GetBalance(u))
      BY <2>6, <2>7, <2>9, <3>3, <3>4, <3>5 DEF IsHistory
    <3> QED BY <3>6 DEF shown
  <2> QED BY <2>8, <2>9
<1>2. Init => ChangesAreLogged
  BY ArrangedInit
<1>3. IInv /\ ChangesAreLogged /\ [Next]_vars => ChangesAreLogged'
  BY StepArranged
<1> QED BY <1>1, <1>2, <1>3, Invariance, PTL DEF Spec
=============================================================================

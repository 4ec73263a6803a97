----------------------------- MODULE UserBalance -----------------------------
(***************************************************************************)
(* chargeBalance and deductBalance (src/src/user): an optimistic lock on   *)
(* the version of the user's row, three attempts, and a log of changes.    *)
(*                                                                         *)
(* The service opens prisma.$transaction but passes no client on, and      *)
(* getClient knows only what runInTransaction opened: the read, the update *)
(* and the log insert run on connections of their own, each commits by     *)
(* itself, and what the transaction commits in the end is empty.           *)
(***************************************************************************)
EXTENDS Integers, Sequences, FiniteSets

CONSTANTS
  Users,
  Calls,          \* calls of chargeBalance and deductBalance
  UserOf,         \* whose balance
  Kind,           \* "charge" or "deduct"
  Amount,         \* amount, as it came in the request or the message
  InitialBalance,
  Faults          \* where a call may fail for reasons outside the model

\* database: the read or the update is refused; log: the update is done, and
\* then its re-read or the log insert is refused; commit: both are done, and
\* then the empty transaction has timed out
FaultKinds == {"database", "log", "commit"}

\* The amounts the request allows: @Min(1)
ChargeBalanceRequest == Nat \ {0}

ASSUME BalanceAssumption ==
  /\ UserOf \in [Calls -> Users]
  /\ Kind \in [Calls -> {"charge", "deduct"}]
  /\ Amount \in [Calls -> Int]
  /\ \A c \in Calls : Kind[c] = "charge" => Amount[c] \in ChargeBalanceRequest
  /\ InitialBalance \in [Users -> Nat]
  /\ Faults \in [Calls -> SUBSET FaultKinds]

VARIABLES
  rows,  \* users table: balance and version
  log,   \* user_balance_change_log of each user, in the order of the inserts
  call   \* local state of each call

vars == <<rows, log, call>>

UserRow == [balance : Nat, version : Nat]

\* call: which call inserted the row, kept for the properties
LogRow == [call : Calls, before : Nat, after : Nat]

CallState == [pc : {"new", "retry", "update", "log", "commit", "done", "failed"},
              attempt : Nat, seen : UserRow]

NewUser(b) == [balance |-> b, version |-> 1]
-----------------------------------------------------------------------------
Delta == [c \in Calls |-> IF Kind[c] = "charge" THEN Amount[c] ELSE -Amount[c]]

\* Mutant of Accepts: a deduction does not look at the balance.
AcceptsAnyBalance(c, balance) == Amount[c] > 0

\* User.charge and User.deduct throw for the others.
Accepts(c, balance) ==
  /\ Amount[c] > 0
  /\ Kind[c] = "deduct" => Amount[c] <= balance

\* Mutant of MaxRetries
OneRetryLess == 2

MaxRetries == 3

Goto(c, p) == call' = [call EXCEPT ![c].pc = p]

\* Mutant of Fail: the attempts are not counted.
FailUncounted(c) == Goto(c, "retry")

\* The catch: another attempt after a pause, or the error is thrown.
Fail(c) ==
  LET attempt == call[c].attempt + 1 IN
  call' = [call EXCEPT ![c] = [pc |-> IF attempt >= MaxRetries THEN "failed" ELSE "retry",
                               attempt |-> attempt, seen |-> @.seen]]
-----------------------------------------------------------------------------
\* getUser, and charge or deduct on the entity
Read(c) ==
  /\ call[c].pc \in {"new", "retry"}
  /\ IF Accepts(c, rows[UserOf[c]].balance)
     THEN call' = [call EXCEPT ![c] = [pc |-> "update", attempt |-> @.attempt,
                                       seen |-> rows[UserOf[c]]]]
     ELSE Fail(c)
  /\ UNCHANGED <<rows, log>>

\* Mutant of Update: the version is not looked at.
UpdateUnlocked(c) ==
  LET u == UserOf[c]
      seen == call[c].seen IN
  /\ call[c].pc = "update"
  /\ rows' = [rows EXCEPT ![u] = [balance |-> seen.balance + Delta[c],
                                  version |-> seen.version + 1]]
  /\ Goto(c, "log")
  /\ UNCHANGED log

\* updateMany where version is the one that was read
Update(c) ==
  LET u == UserOf[c]
      seen == call[c].seen IN
  /\ call[c].pc = "update"
  /\ \/ /\ rows[u].version = seen.version
        /\ rows' = [rows EXCEPT ![u] = [balance |-> seen.balance + Delta[c],
                                        version |-> seen.version + 1]]
        /\ Goto(c, "log")
     \/ /\ rows[u].version # seen.version
        /\ Fail(c)
        /\ UNCHANGED rows
  /\ UNCHANGED log

LogEntry(c) == [call |-> c, before |-> call[c].seen.balance,
                after |-> call[c].seen.balance + Delta[c]]

\* Mutant of WriteLog: the row is inserted, and then inserted again.
WriteLogTwice(c) ==
  /\ call[c].pc = "log"
  /\ log' = [log EXCEPT ![UserOf[c]] = Append(@, LogEntry(c))]
  /\ Goto(c, "commit") \/ Goto(c, "log")
  /\ UNCHANGED rows

WriteLog(c) ==
  /\ call[c].pc = "log"
  /\ log' = [log EXCEPT ![UserOf[c]] = Append(@, LogEntry(c))]
  /\ Goto(c, "commit")
  /\ UNCHANGED rows

Commit(c) ==
  /\ call[c].pc = "commit"
  /\ Goto(c, "done")
  /\ UNCHANGED <<rows, log>>

\* An operation throws; what was committed before it stays.
OperationFails(c) ==
  /\ \/ call[c].pc \in {"new", "retry", "update"} /\ "database" \in Faults[c]
     \/ call[c].pc = "log" /\ "log" \in Faults[c]
     \/ call[c].pc = "commit" /\ "commit" \in Faults[c]
  /\ Fail(c)
  /\ UNCHANGED <<rows, log>>
-----------------------------------------------------------------------------
\* What a user is shown: getBalance ...
GetBalance(u) == rows[u].balance

\* ... and a row of the log as findByUserId gives it, ...
LogItem(row) == [beforeAmount |-> row.before, amount |-> row.after - row.before,
                 afterAmount |-> row.after]

\* ... and getBalanceLogs: every row, whatever dates, code, order or page the
\* query names.  Rows come by createdAt, which a call takes before it updates
\* and inserts, so their order means nothing.
GetBalanceLogs(u) == [i \in 1..Len(log[u]) |-> LogItem(log[u][i])]
-----------------------------------------------------------------------------
Init ==
  /\ rows = [u \in Users |-> NewUser(InitialBalance[u])]
  /\ log = [u \in Users |-> <<>>]
  /\ call = [c \in Calls |-> [pc |-> "new", attempt |-> 0, seen |-> NewUser(0)]]

Step(c) == Read(c) \/ Update(c) \/ WriteLog(c) \/ Commit(c) \/ OperationFails(c)

Next == \E c \in Calls : Step(c)

Spec == Init /\ [][Next]_vars

\* A call that has begun goes on; nobody has to call.
FairSpec == Spec /\ \A c \in Calls : WF_vars(call[c].pc # "new" /\ Step(c))
-----------------------------------------------------------------------------
\* The balance and the amounts in the log are never negative.
TypeOK ==
  /\ rows \in [Users -> UserRow]
  /\ log \in [Users -> Seq(LogRow)]
  /\ call \in [Calls -> CallState]

CallsOn(u) == {c \in Calls : UserOf[c] = u}

\* The calls that changed the balance and have not lost that they did.
Applied == {c \in Calls : call[c].pc \in {"log", "commit", "done"}}

\* Nothing fails between the update and the end of the call.
NoLateFaults(C) == \A c \in C : Faults[c] \subseteq {"database"}

\* Some arrangement of the entries leads from the first balance to the last.
IsHistory(entries, first, last) ==
  LET n == Len(entries) IN
  IF n = 0 THEN first = last
  ELSE \E at \in [1..n -> 1..n] :
         /\ \A i, j \in 1..n : i # j => at[i] # at[j]
         /\ entries[at[1]].beforeAmount = first
         /\ \A i \in 1..n-1 : entries[at[i]].afterAmount = entries[at[i + 1]].beforeAmount
         /\ entries[at[n]].afterAmount = last

\* NFR-013 and NFR-014: whenever no call is between its update and its log
\* row, the log a user is shown accounts for the balance without a gap,
\* whatever the order in which concurrent calls inserted their rows.
LogExplainsBalance ==
  \A u \in Users :
    (\A c \in CallsOn(u) : call[c].pc # "log") =>
      IsHistory(GetBalanceLogs(u), InitialBalance[u], GetBalance(u))

\* Where the log has rows of the call c
EntriesOf(c) == {i \in 1..Len(log[UserOf[c]]) : log[UserOf[c]][i].call = c}

\* api-specification.md, POST payment: a call that fails has neither changed
\* the balance nor logged a change, a call that succeeds has done both once,
\* however often it was retried.
CallsCountOnce ==
  \A c \in Calls :
    NoLateFaults({c}) =>
      Cardinality(EntriesOf(c)) =
        IF call[c].pc \in {"commit", "done"} THEN 1 ELSE 0

\* The concurrent charges of balance-charge.integration.spec.ts: of up to
\* three calls on one user none is lost to the others, because each attempt
\* that loses its lock loses it to another call that won.
ContendersAllSucceed ==
  \A c \in Calls :
    LET others == CallsOn(UserOf[c]) \ {c} IN
    /\ Cardinality(others) <= 2 /\ NoLateFaults(others)
    /\ Kind[c] = "charge" /\ Amount[c] > 0 /\ Faults[c] = {}
    => call[c].pc # "failed"

\* A call that has begun returns or throws: the attempts are bounded.
CallsEnd == \A c \in Calls : call[c].pc # "new" ~> call[c].pc \in {"done", "failed"}

\* Users all of whose calls are free of late faults, and those calls
SafeUsers == {u \in Users : NoLateFaults(CallsOn(u))}

SafeCalls == {c \in Calls : UserOf[c] \in SafeUsers}

AbstractAccount == INSTANCE Account WITH
  Users <- SafeUsers,
  Calls <- SafeCalls,
  balance <- [u \in SafeUsers |-> rows[u].balance],
  applied <- Applied \cap SafeCalls

\* On the rows of the safe users the calls implement an account on which each
\* of them takes effect at once and at most once: no update is lost, and no
\* retry repeats one.
AccountRefined == AbstractAccount!Spec
=============================================================================

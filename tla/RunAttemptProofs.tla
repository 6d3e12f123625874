--------------------------- MODULE RunAttemptProofs ---------------------------
(* The attempts, their budget, the transcript of RunLifecycle, and that it  *)
(* implements ConversationTurns, for all values of its constants.           *)
EXTENDS RunLifecycleProofs, FiniteSetTheorems

-----------------------------------------------------------------------------
(* The attempts of one run row.                                             *)

\* What AttemptLedger and BudgetInv say of one row.
LedgerRow(x) ==
  /\ Len(x.attempts) = x.count
  /\ \A i \in 1..x.count :
       x.attempts[i] = "running" => i = x.count /\ x.status = "running"
  /\ \A i \in 1..x.count :
       x.attempts[i] = "succeeded" <=> i = x.count /\ x.status = "succeeded"
  /\ \A e \in ExpectedCounts(x.receipts) : e <= x.count
  /\ x.status = "pending" => x.count = Max(ExpectedCounts(x.receipts))
  /\ x.count <= Max(ExpectedCounts(x.receipts)) + x.retry + 1

\* The two invariants of all rows are one invariant of each.
LEMMA RowByRow ==
  (AttemptLedger /\ BudgetInv) <=> \A r \in RunIds : LedgerRow(run[r])
BY DEF AttemptLedger, BudgetInv, LedgerRow, AttemptBase

\* The greatest expected count, when the receipts have a latest one.
LEMMA LatestCount ==
  ASSUME NEW R, HasLatest(R), ExpectedCounts(R) \subseteq Nat
  PROVE  /\ Max(ExpectedCounts(R)) \in ExpectedCounts(R)
         /\ \A e \in ExpectedCounts(R) : e <= Max(ExpectedCounts(R))
<1> DEFINE E == ExpectedCounts(R)
<1>1. PICK b \in E : \A e \in E : b >= e
  BY DEF HasLatest
<1> HIDE DEF E
<1>2. Max(E) \in E /\ \A e \in E : Max(E) >= e
  BY <1>1 DEF Max
<1>3. E \subseteq Nat
  BY DEF E
<1>4. \A e \in E : e <= Max(E)
  BY <1>2, <1>3
<1>5. QED BY <1>2, <1>4 DEF E

\* A new receipt that expects no less than the others is the latest.
LEMMA LatestReceipt ==
  ASSUME NEW R, NEW k, NEW n \in Nat, ExpectedCounts(R) \subseteq Nat,
         \A e \in ExpectedCounts(R) : e <= n
  PROVE  /\ Max(ExpectedCounts(R \cup {[key |-> k, expected |-> n]})) = n
         /\ \A e \in ExpectedCounts(R \cup {[key |-> k, expected |-> n]}) : e <= n
<1> DEFINE Q == R \cup {[key |-> k, expected |-> n]}
           F == ExpectedCounts(Q)
<1>1. n \in F
  <2>1. [key |-> k, expected |-> n] \in Q /\ [key |-> k, expected |-> n].expected = n
    OBVIOUS
  <2> HIDE DEF Q
  <2>2. QED BY <2>1 DEF ExpectedCounts
<1>2. \A e \in F : e = n \/ e \in ExpectedCounts(R)
  <2>1. \A x : x \in Q <=> x \in R \/ x = [key |-> k, expected |-> n]
    OBVIOUS
  <2>2. [key |-> k, expected |-> n].expected = n
    OBVIOUS
  <2> HIDE DEF Q
  <2>3. QED BY <2>1, <2>2 DEF ExpectedCounts
<1>3. F \subseteq Nat /\ \A e \in F : e <= n
  BY <1>2
<1> HIDE DEF F
<1>4. PICK b \in F : b = n /\ \A e \in F : b >= e
  BY <1>1, <1>3
<1>5. Max(F) \in F /\ \A e \in F : Max(F) >= e
  BY <1>4 DEF Max
<1>6. Max(F) = n
  <2>1. Max(F) >= n /\ Max(F) <= n /\ Max(F) \in Nat
    BY <1>1, <1>3, <1>5
  <2>2. QED BY <2>1
<1>7. QED BY <1>3, <1>6 DEF F

\* A run without receipts has the budget that its acceptance opened.
LEMMA FirstBudget == ExpectedCounts({}) = {0} /\ Max(ExpectedCounts({})) = 0
<1>1. ExpectedCounts({}) = {0}
  BY DEF ExpectedCounts
<1>2. \E x \in {0} : \A y \in {0} : x >= y
  OBVIOUS
<1>3. Max({0}) = 0
  BY <1>2 DEF Max
<1>4. QED BY <1>1, <1>3

\* The numbers of a typed row.
LEMMA RowNumbers ==
  ASSUME NEW x \in Run, HasLatest(x.receipts)
  PROVE  /\ x.count \in Nat /\ x.retry \in Nat
         /\ ExpectedCounts(x.receipts) \subseteq Nat
         /\ Max(ExpectedCounts(x.receipts)) \in Nat
         /\ \A e \in ExpectedCounts(x.receipts) : e <= Max(ExpectedCounts(x.receipts))
<1>1. x.count \in Nat /\ x.retry \in Nat
  BY DEF Run
<1>2. ExpectedCounts(x.receipts) \subseteq Nat
  BY DEF Run, ExpectedCounts
<1>3. QED BY <1>1, <1>2, LatestCount

-----------------------------------------------------------------------------
(* Owners.                                                                  *)

\* Only a process in the middle of a claim owns a lease.
LEMMA OwnerWorks ==
  ASSUME IInv, TokensInv, NEW w \in Workers, Owns(w)
  PROVE  proc[w].pc \notin {"idle", "down"}
<1>1. PICK c \in Conversations :
        lease[c] = [run |-> proc[w].run, token |-> proc[w].token, live |-> TRUE]
  BY DEF Owns
<1>2. proc[w].run # Nil
  BY <1>1 DEF TokensInv
<1>3. ProcOK(proc[w])
  BY DEF IInv, ProcsInv
<1>4. QED BY <1>2, <1>3 DEF ProcOK, Process

\* What the owner of a lease works on.
LEMMA OwnedRun ==
  ASSUME IInv, TokensInv, NEW w \in Workers, Owns(w)
  PROVE  /\ proc[w].run \in RunIds /\ proc[w] \in Proc
         /\ run[proc[w].run] \in Run
         /\ run[proc[w].run].status = "running"
         /\ run[proc[w].run].conv \in Conversations
         /\ HasLatest(run[proc[w].run].receipts)
         /\ lease[run[proc[w].run].conv] =
              [run |-> proc[w].run, token |-> proc[w].token, live |-> TRUE]
<1>1. proc[w].pc \notin {"idle", "down"}
  BY OwnerWorks
<1>2. /\ proc[w].run \in RunIds /\ run[proc[w].run] \in Run
      /\ run[proc[w].run].status = "running"
      /\ run[proc[w].run].conv \in Conversations
      /\ lease[run[proc[w].run].conv] =
           [run |-> proc[w].run, token |-> proc[w].token, live |-> TRUE]
  BY <1>1, OwnerRow
<1>3. proc[w] \in Proc /\ HasLatest(run[proc[w].run].receipts)
  BY <1>2 DEF IInv, TypeOK, RowsInv
<1>4. QED BY <1>2, <1>3

\* A run has one owner at most.
LEMMA OneOwner ==
  ASSUME IInv, TokensInv, NEW v \in Workers, NEW w \in Workers,
         Owns(v), Owns(w), proc[v].run = proc[w].run
  PROVE  v = w
<1> USE RunLifecycleAssumption
<1>1. /\ proc[v].pc \notin {"idle", "down"}
      /\ proc[w].pc \notin {"idle", "down"}
  BY OwnerWorks
<1>2. proc[v].token = proc[w].token
  <2>1. lease[run[proc[v].run].conv] =
          [run |-> proc[v].run, token |-> proc[v].token, live |-> TRUE]
    BY <1>1, OwnerRow
  <2>2. lease[run[proc[w].run].conv] =
          [run |-> proc[w].run, token |-> proc[w].token, live |-> TRUE]
    BY <1>1, OwnerRow
  <2>3. QED BY <2>1, <2>2
<1>3. proc[v].token # Nil
  <2>1. ProcOK(proc[v])
    BY DEF IInv, ProcsInv
  <2>2. proc[v].token \in Tokens
    BY <1>1, <2>1 DEF ProcOK
  <2>3. QED BY <2>2
<1>4. QED BY <1>2, <1>3 DEF TokensInv

\* No transaction but a claim makes anybody an owner.
LEMMA OwnerBefore ==
  ASSUME NEW w \in Workers,
         proc'[w].run = proc[w].run, proc'[w].token = proc[w].token,
         \A c \in Conversations : lease'[c] = lease[c] \/ ~lease'[c].live,
         Owns(w)'
  PROVE  Owns(w)
<1>1. PICK c \in Conversations :
        lease'[c] = [run |-> proc'[w].run, token |-> proc'[w].token, live |-> TRUE]
  BY DEF Owns
<1>2. lease'[c] = lease[c]
  BY <1>1
<1>3. QED BY <1>1, <1>2 DEF Owns

\* Tokens stay apart when processes keep or drop them and no lease comes alive.
LEMMA TokensKept ==
  ASSUME TokensInv,
         \A w \in Workers : proc'[w].token \in {proc[w].token, Nil},
         \A c \in Conversations : lease'[c] = lease[c] \/ ~lease'[c].live
  PROVE  TokensInv'
<1>1. ASSUME NEW v \in Workers, NEW w \in Workers, v # w,
             proc'[v].token = proc'[w].token
      PROVE  proc'[v].token = Nil
  <2>1. proc[v].token = proc[w].token => proc[v].token = Nil
    BY <1>1 DEF TokensInv
  <2>2. proc'[v].token \in {proc[v].token, Nil} /\ proc'[w].token \in {proc[w].token, Nil}
    OBVIOUS
  <2>3. QED BY <1>1, <2>1, <2>2
<1>2. ASSUME NEW c \in Conversations, lease'[c].live PROVE lease'[c].run # Nil
  BY <1>2 DEF TokensInv
<1>3. QED BY <1>1, <1>2 DEF TokensInv

-----------------------------------------------------------------------------
(* Shapes of step.                                                          *)

\* What stays true of a claim when only the status or the request changes.
LEMMA ClaimStillAgrees ==
  ASSUME NEW p, NEW x, NEW y, ClaimAgrees(p, x),
         y.count = x.count, y.attempts = x.attempts, y.retry = x.retry,
         y.receipts = x.receipts, x.cancel => y.cancel
  PROVE  ClaimAgrees(p, y)
BY DEF ClaimAgrees

\* Rows change only to legal rows and no lease comes alive; a process keeps
\* its claim, in agreement with the row, or drops it.
LEMMA AttemptShape ==
  ASSUME IInv, IInv', AttemptInv,
         \A q \in RunIds : run'[q] = run[q] \/ LedgerRow(run'[q]),
         \A c \in Conversations : lease'[c] = lease[c] \/ ~lease'[c].live,
         \A v \in Workers :
           \/ /\ proc'[v].run = proc[v].run /\ proc'[v].token = proc[v].token
              /\ Owns(v) => ClaimAgrees(proc'[v], run'[proc[v].run])
           \/ proc'[v].pc \in {"idle", "down"}
  PROVE  AttemptInv'
<1>1. TokensInv /\ BudgetInv /\ AttemptLedger
  BY DEF AttemptInv
<1>2. BudgetInv' /\ AttemptLedger'
  <2>1. \A q \in RunIds : LedgerRow(run[q])
    BY <1>1, RowByRow
  <2>2. \A q \in RunIds : LedgerRow(run'[q])
    BY <2>1
  <2>3. QED BY <2>2 DEF LedgerRow, BudgetInv, AttemptLedger, AttemptBase
<1>3. ASSUME NEW v \in Workers, proc'[v].pc \in {"idle", "down"}
      PROVE  proc'[v].run = Nil /\ proc'[v].token = Nil
  <2>1. ProcOK(proc[v])'
    BY DEF IInv, ProcsInv
  <2>2. proc'[v] = Process(proc'[v].pc)
    BY <1>3, <2>1 DEF ProcOK
  <2>3. QED BY <2>2 DEF Process
<1>4. TokensInv'
  <2>1. \A v \in Workers : proc'[v].token \in {proc[v].token, Nil}
    BY <1>3
  <2>2. QED BY <1>1, <2>1, TokensKept
<1>5. ASSUME NEW v \in Workers, Owns(v)'
      PROVE  ClaimAgrees(proc'[v], run'[proc'[v].run])
  <2>1. PICK c \in Conversations :
          lease'[c] = [run |-> proc'[v].run, token |-> proc'[v].token, live |-> TRUE]
    BY <1>5 DEF Owns
  <2>2. proc'[v].run # Nil
    BY <1>4, <2>1 DEF TokensInv
  <2>3. QED BY <1>3, <1>5, <2>2, OwnerBefore
<1>6. QED BY <1>2, <1>4, <1>5 DEF AttemptInv, ClaimsInv

\* Who is not concerned by a change of other rows goes on agreeing.
LEMMA Bystander ==
  ASSUME AttemptInv, NEW v \in Workers, proc'[v] = proc[v], Owns(v),
         run'[proc[v].run] = run[proc[v].run]
  PROVE  ClaimAgrees(proc'[v], run'[proc[v].run])
BY DEF AttemptInv, ClaimsInv

\* No row changes: processes go on with their claims or drop them.
LEMMA ProcessAttemptStep ==
  ASSUME IInv, IInv', AttemptInv, run' = run,
         \A c \in Conversations : lease'[c] = lease[c] \/ ~lease'[c].live,
         \A v \in Workers :
           \/ proc'[v] = proc[v]
           \/ /\ proc'[v].run = proc[v].run /\ proc'[v].token = proc[v].token
              /\ Owns(v) => ClaimAgrees(proc'[v], run[proc[v].run])
           \/ proc'[v].pc \in {"idle", "down"}
  PROVE  AttemptInv'
<1>1. ASSUME NEW v \in Workers
      PROVE  \/ /\ proc'[v].run = proc[v].run /\ proc'[v].token = proc[v].token
                /\ Owns(v) => ClaimAgrees(proc'[v], run'[proc[v].run])
             \/ proc'[v].pc \in {"idle", "down"}
  <2>1. CASE proc'[v] = proc[v]
    BY <2>1, Bystander
  <2>2. CASE proc'[v] # proc[v]
    BY <2>2
  <2>3. QED BY <2>1, <2>2
<1>2. \A q \in RunIds : run'[q] = run[q] \/ LedgerRow(run'[q])
  OBVIOUS
<1>3. QED BY <1>1, <1>2, AttemptShape

\* An API transaction, or a claim that ends the run, changes one row; no
\* process moves, and an owner of that row agrees with what it has become.
LEMMA RequestAttemptStep ==
  ASSUME IInv, IInv', AttemptInv, NEW r \in RunIds, NEW x,
         run' = [run EXCEPT ![r] = x], LedgerRow(x), proc' = proc,
         \A c \in Conversations : lease'[c] = lease[c] \/ ~lease'[c].live,
         \A v \in Workers :
           Owns(v) /\ proc[v].run = r => ClaimAgrees(proc[v], x)
  PROVE  AttemptInv'
<1>1. run \in [RunIds -> Run]
  BY DEF IInv, TypeOK
<1>2. \A q \in RunIds : run'[q] = run[q] \/ LedgerRow(run'[q])
  BY <1>1
<1>3. ASSUME NEW v \in Workers, Owns(v)
      PROVE  ClaimAgrees(proc'[v], run'[proc[v].run])
  <2>1. CASE proc[v].run = r
    BY <1>1, <1>3, <2>1
  <2>2. CASE proc[v].run # r
    BY <1>1, <1>3, <2>2, Bystander
  <2>3. QED BY <2>1, <2>2
<1>4. QED BY <1>2, <1>3, AttemptShape

\* The owner of a run changes its row, and goes on in agreement with it or is
\* done with it. Nobody else owns the run.
LEMMA OwnerAttemptStep ==
  ASSUME IInv, IInv', AttemptInv, NEW w \in Workers, Owns(w), NEW x, NEW p,
         run' = [run EXCEPT ![proc[w].run] = x], LedgerRow(x),
         proc' = [proc EXCEPT ![w] = p],
         \A c \in Conversations : lease'[c] = lease[c] \/ ~lease'[c].live,
         \/ p.pc \in {"idle", "down"}
         \/ /\ p.run = proc[w].run /\ p.token = proc[w].token
            /\ ClaimAgrees(p, x)
  PROVE  AttemptInv'
<1> DEFINE r == proc[w].run
<1>1. run \in [RunIds -> Run] /\ proc \in [Workers -> Proc] /\ TokensInv
  BY DEF IInv, TypeOK, AttemptInv
<1>2. r \in RunIds
  BY <1>1, OwnedRun
<1>3. \A q \in RunIds : run'[q] = run[q] \/ LedgerRow(run'[q])
  BY <1>1, <1>2
<1>4. proc'[w] = p /\ run'[r] = x
  BY <1>1, <1>2
<1>5. ASSUME NEW v \in Workers, v # w
      PROVE  /\ proc'[v] = proc[v]
             /\ Owns(v) => ClaimAgrees(proc'[v], run'[proc[v].run])
  <2>1. proc'[v] = proc[v]
    BY <1>1, <1>5
  <2>2. ASSUME Owns(v) PROVE ClaimAgrees(proc'[v], run'[proc[v].run])
    <3>1. proc[v].run # r
      BY <1>1, <1>5, <2>2, OneOwner
    <3>2. run'[proc[v].run] = run[proc[v].run]
      BY <1>1, <3>1
    <3>3. QED BY <2>1, <2>2, <3>2, Bystander
  <2>3. QED BY <2>1, <2>2
<1>6. QED BY <1>3, <1>4, <1>5, AttemptShape

-----------------------------------------------------------------------------
(* The steps.                                                               *)

\* Nothing has been attempted in an empty database.
LEMMA InitAttempts == Init => AttemptInv
<1> SUFFICES ASSUME Init PROVE AttemptInv
  OBVIOUS
<1>1. TokensInv
  BY DEF Init, TokensInv, NoLease, Idle, Process
<1>2. \A r \in RunIds : LedgerRow(run[r])
  <2>1. LedgerRow(NoRun)
    <3>1. /\ NoRun.count = 0 /\ NoRun.retry = 0 /\ NoRun.receipts = {}
          /\ NoRun.attempts = <<>> /\ NoRun.status = "absent"
      BY DEF NoRun
    <3>2. QED BY <3>1, FirstBudget DEF LedgerRow
  <2>2. QED BY <2>1 DEF Init
<1>3. BudgetInv /\ AttemptLedger
  BY <1>2, RowByRow
<1>4. ClaimsInv
  BY DEF Init, ClaimsInv, Owns, NoLease
<1>5. QED BY <1>1, <1>3, <1>4 DEF AttemptInv

\* An accepted turn has no attempts and its first budget.
LEMMA AcceptTurnAttempts ==
  ASSUME IInv, IInv', AttemptInv, NEW c \in Conversations, NEW k \in Keys,
         NEW n \in RetryCounts, NEW r \in RunIds, AcceptTurn(c, k, n, r)
  PROVE  AttemptInv'
<1> DEFINE row == [status |-> "pending", conv |-> c, key |-> k, retry |-> n,
                   accepted |-> conv[c].version, count |-> 0,
                   attempts |-> <<>>, cancel |-> FALSE, receipts |-> {}]
<1> USE RunLifecycleAssumption
<1>1. /\ run' = [run EXCEPT ![r] = row] /\ run[r].status = "absent"
      /\ lease' = [lease EXCEPT ![c] = Placeholder(r)] /\ proc' = proc
  BY DEF AcceptTurn
<1>2. LedgerRow(row)
  <2>1. n \in Nat
    OBVIOUS
  <2>2. QED BY <2>1, FirstBudget DEF LedgerRow
<1> HIDE DEF row
<1>3. \A d \in Conversations : lease'[d] = lease[d] \/ ~lease'[d].live
  BY <1>1 DEF IInv, TypeOK, Placeholder
<1>4. ASSUME NEW v \in Workers, Owns(v) PROVE proc[v].run # r
  <2>1. run[proc[v].run].status = "running"
    BY <1>4, OwnedRun DEF AttemptInv
  <2>2. QED BY <1>1, <2>1
<1>5. QED BY <1>1, <1>2, <1>3, <1>4, RequestAttemptStep

\* Cancelling changes neither the attempts nor the budget.
LEMMA CancelRunAttempts ==
  ASSUME IInv, IInv', AttemptInv, NEW r \in RunIds, CancelRun(r)
  PROVE  AttemptInv'
<1>1. /\ TypeOK /\ run[r].status \in Active /\ proc' = proc /\ run[r] \in Run
  BY DEF CancelRun, IInv, TypeOK
<1>2. LedgerRow(run[r])
  BY RowByRow DEF AttemptInv
<1>3. \A d \in Conversations : lease'[d] = lease[d] \/ ~lease'[d].live
  BY DEF CancelRun, NoLease
<1>4. \E x : /\ run' = [run EXCEPT ![r] = x]
             /\ x.count = run[r].count /\ x.attempts = run[r].attempts
             /\ x.retry = run[r].retry /\ x.receipts = run[r].receipts
             /\ x.cancel
             /\ \/ x.status = run[r].status
                \/ x.status = "cancelled" /\ run[r].status # "running"
  <2>1. CASE run[r].status = "running"
    <3> DEFINE x == [run[r] EXCEPT !.cancel = TRUE]
    <3>1. run' = [run EXCEPT ![r] = x]
      BY <2>1 DEF CancelRun
    <3>2. /\ x.count = run[r].count /\ x.attempts = run[r].attempts
          /\ x.retry = run[r].retry /\ x.receipts = run[r].receipts
          /\ x.cancel /\ x.status = run[r].status
      BY <1>1 DEF Run
    <3> HIDE DEF x
    <3>3. QED BY <3>1, <3>2
  <2>2. CASE run[r].status # "running"
    <3> DEFINE x == [run[r] EXCEPT !.cancel = TRUE, !.status = "cancelled"]
    <3>1. run' = [run EXCEPT ![r] = x]
      BY <2>2 DEF CancelRun
    <3>2. /\ x.count = run[r].count /\ x.attempts = run[r].attempts
          /\ x.retry = run[r].retry /\ x.receipts = run[r].receipts
          /\ x.cancel /\ x.status = "cancelled"
      BY <1>1 DEF Run
    <3> HIDE DEF x
    <3>3. QED BY <2>2, <3>1, <3>2
  <2>3. QED BY <2>1, <2>2
<1>5. PICK x : /\ run' = [run EXCEPT ![r] = x]
              /\ x.count = run[r].count /\ x.attempts = run[r].attempts
              /\ x.retry = run[r].retry /\ x.receipts = run[r].receipts
              /\ x.cancel
              /\ \/ x.status = run[r].status
                 \/ x.status = "cancelled" /\ run[r].status # "running"
  BY <1>4
<1>6. LedgerRow(x)
  BY <1>1, <1>2, <1>5 DEF LedgerRow, Active
<1>7. \A v \in Workers : Owns(v) /\ proc[v].run = r => ClaimAgrees(proc[v], x)
  BY <1>5, ClaimStillAgrees DEF AttemptInv, ClaimsInv
<1>8. QED BY <1>1, <1>3, <1>5, <1>6, <1>7, RequestAttemptStep

\* A Retry opens a new budget at the count the row has reached.
LEMMA RetrySavedInputAttempts ==
  ASSUME IInv, IInv', AttemptInv, NEW r \in RunIds, NEW k \in RetryKeys,
         RetrySavedInput(r, k, run[r].count)
  PROVE  AttemptInv'
<1> DEFINE receipt == [key |-> k, expected |-> run[r].count]
           row == [run[r] EXCEPT !.status = "pending",
                                 !.receipts = run[r].receipts \cup {receipt}]
<1>1. /\ run[r].status = "paused" /\ proc' = proc
      /\ run' = [run EXCEPT ![r] = row]
      /\ lease' = [lease EXCEPT ![run[r].conv] = Placeholder(r)]
  BY DEF RetrySavedInput
<1>2. run[r] \in Run /\ HasLatest(run[r].receipts)
  BY DEF IInv, TypeOK, RowsInv
<1>3. /\ run[r].count \in Nat /\ run[r].retry \in Nat
      /\ ExpectedCounts(run[r].receipts) \subseteq Nat
  BY <1>2, RowNumbers
<1>4. LedgerRow(run[r])
  BY RowByRow DEF AttemptInv
<1>5. /\ row.status = "pending" /\ row.count = run[r].count
      /\ row.attempts = run[r].attempts /\ row.retry = run[r].retry
      /\ row.receipts = run[r].receipts \cup {receipt}
  BY <1>2 DEF Run
<1>6. /\ Max(ExpectedCounts(row.receipts)) = run[r].count
      /\ \A e \in ExpectedCounts(row.receipts) : e <= run[r].count
  <2>1. \A e \in ExpectedCounts(run[r].receipts) : e <= run[r].count
    BY <1>4 DEF LedgerRow
  <2> HIDE DEF row
  <2>2. /\ Max(ExpectedCounts(run[r].receipts \cup {receipt})) = run[r].count
        /\ \A e \in ExpectedCounts(run[r].receipts \cup {receipt}) : e <= run[r].count
    BY <1>3, <2>1, LatestReceipt
  <2>3. QED BY <1>5, <2>2
<1> HIDE DEF row, receipt
<1>7. LedgerRow(row)
  <2>1. /\ Len(row.attempts) = row.count
        /\ \A i \in 1..row.count : row.attempts[i] \notin {"running", "succeeded"}
    BY <1>1, <1>4, <1>5 DEF LedgerRow
  <2>2. /\ \A e \in ExpectedCounts(row.receipts) : e <= row.count
        /\ row.count = Max(ExpectedCounts(row.receipts))
    BY <1>5, <1>6
  <2>3. row.count <= Max(ExpectedCounts(row.receipts)) + row.retry + 1
    BY <1>3, <1>5, <1>6
  <2>4. QED BY <1>5, <2>1, <2>2, <2>3 DEF LedgerRow
<1>8. \A d \in Conversations : lease'[d] = lease[d] \/ ~lease'[d].live
  BY <1>1 DEF IInv, TypeOK, Placeholder
<1>9. ASSUME NEW v \in Workers, Owns(v) PROVE proc[v].run # r
  <2>1. run[proc[v].run].status = "running"
    BY <1>9, OwnedRun DEF AttemptInv
  <2>2. QED BY <1>1, <2>1
<1>10. QED BY <1>1, <1>7, <1>8, <1>9, RequestAttemptStep

\* Nobody owns a run that can be claimed, and no attempt of it will be open.
LEMMA ClaimedAttempts ==
  ASSUME IInv, AttemptInv, NEW w \in Workers, NEW r \in RunIds, Claiming(w, r)
  PROVE  /\ run[r].status \in {"pending", "running"}
         /\ LedgerRow(run[r])
         /\ Len(Claimed(r)) = run[r].count /\ DOMAIN Claimed(r) = 1..run[r].count
         /\ \A i \in 1..run[r].count : Claimed(r)[i] \notin {"running", "succeeded"}
         /\ \A v \in Workers : Owns(v) => proc[v].run # r
<1>1. run[r].status \in {"pending", "running"} /\ ~lease[run[r].conv].live
  BY DEF Claiming, Claimable, Abandoned
<1>2. LedgerRow(run[r])
  BY RowByRow DEF AttemptInv
<1>3. run[r] \in Run
  BY DEF IInv, TypeOK
<1>4. /\ run[r].attempts \in Seq(AttemptStatus) /\ Claimed(r) \in Seq(AttemptStatus)
      /\ run[r].count \in Nat
  BY <1>3, ClaimedRow DEF Run
<1>5. DOMAIN run[r].attempts = 1..run[r].count
  BY <1>2, <1>4 DEF LedgerRow
<1>6. /\ DOMAIN Claimed(r) = 1..run[r].count
      /\ \A i \in 1..run[r].count : Claimed(r)[i] \notin {"running", "succeeded"}
  <2>1. CASE Abandoned(r)
    <3>1. Claimed(r) = CloseOpen(run[r].attempts, "failed")
      BY <2>1 DEF Claimed
    <3>2. \A i \in 1..run[r].count : run[r].attempts[i] # "succeeded"
      BY <1>1, <1>2 DEF LedgerRow
    <3>3. QED BY <1>5, <3>1, <3>2 DEF CloseOpen
  <2>2. CASE ~Abandoned(r)
    <3>1. Claimed(r) = run[r].attempts /\ run[r].status = "pending"
      BY <2>2 DEF Claimed, Claiming, Claimable
    <3>2. QED BY <1>2, <1>5, <3>1 DEF LedgerRow
  <2>3. QED BY <2>1, <2>2
<1>7. Len(Claimed(r)) = run[r].count
  BY <1>4, <1>6
<1>8. ASSUME NEW v \in Workers, Owns(v) PROVE proc[v].run # r
  <2>1. TokensInv
    BY DEF AttemptInv
  <2>2. lease[run[proc[v].run].conv] =
          [run |-> proc[v].run, token |-> proc[v].token, live |-> TRUE]
    BY <1>8, <2>1, OwnedRun
  <2>3. lease[run[proc[v].run].conv].live = TRUE
    BY <2>2
  <2>4. QED BY <1>1, <2>3
<1>9. QED BY <1>1, <1>2, <1>6, <1>7, <1>8

\* A claim that ends the run leaves no attempt of it open.
LEMMA ClaimEndsAttempts ==
  ASSUME IInv, IInv', AttemptInv, NEW w \in Workers, NEW r \in RunIds,
         ClaimAndCancel(w, r) \/ ClaimAndExhaust(w, r)
  PROVE  AttemptInv'
<1>1. PICK st \in {"cancelled", "failed"} :
        run' = [run EXCEPT ![r] =
                  [@ EXCEPT !.status = st, !.attempts = Claimed(r)]]
  BY DEF ClaimAndCancel, ClaimAndExhaust
<1> DEFINE row == [run[r] EXCEPT !.status = st, !.attempts = Claimed(r)]
<1>2. /\ Claiming(w, r) /\ run' = [run EXCEPT ![r] = row] /\ proc' = proc
      /\ lease' = [lease EXCEPT ![run[r].conv] = NoLease]
  BY <1>1 DEF ClaimAndCancel, ClaimAndExhaust
<1>3. run[r] \in Run
  BY DEF IInv, TypeOK
<1>4. /\ row.status = st /\ row.count = run[r].count
      /\ row.attempts = Claimed(r) /\ row.retry = run[r].retry
      /\ row.receipts = run[r].receipts
  BY <1>3 DEF Run
<1> HIDE DEF row
<1>5. LedgerRow(row)
  BY <1>2, <1>4, ClaimedAttempts DEF LedgerRow
<1>6. \A d \in Conversations : lease'[d] = lease[d] \/ ~lease'[d].live
  BY <1>2 DEF IInv, TypeOK, NoLease
<1>7. \A v \in Workers : Owns(v) => proc[v].run # r
  BY <1>2, ClaimedAttempts
<1>8. QED BY <1>2, <1>5, <1>6, <1>7, RequestAttemptStep

\* A claim starts with a token nobody knows: its worker owns the run, nobody
\* else does, and what it remembers agrees with the row.
LEMMA ClaimAndStartAttempts ==
  ASSUME IInv, IInv', AttemptInv, NEW w \in Workers, NEW r \in RunIds,
         NEW t \in Tokens, Fresh(t), ClaimAndStart(w, r, t)
  PROVE  AttemptInv'
<1> DEFINE row == [run[r] EXCEPT !.status = "running", !.attempts = Claimed(r)]
           remaining == run[r].retry - (run[r].count - AttemptBase(r))
           p == [pc |-> IF remaining < 0 THEN "finishing" ELSE "starting",
                 run |-> r, token |-> t, prior |-> run[r].count,
                 base |-> AttemptBase(r), local |-> 1, open |-> 0,
                 exc |-> IF remaining < 0 THEN "fatal" ELSE Nil]
           c == run[r].conv
<1> USE RunLifecycleAssumption
<1>1. /\ Claiming(w, r) /\ ~OutOfBudget(r)
      /\ run' = [run EXCEPT ![r] = row]
      /\ lease' = [lease EXCEPT ![c] = [run |-> r, token |-> t, live |-> TRUE]]
      /\ proc' = [proc EXCEPT ![w] = p]
  BY DEF ClaimAndStart
<1>2. /\ run \in [RunIds -> Run] /\ lease \in [Conversations -> Lease]
      /\ proc \in [Workers -> Proc] /\ TokensInv
  BY DEF IInv, TypeOK, AttemptInv
<1>3. /\ run[r].status \in {"pending", "running"}
      /\ LedgerRow(run[r])
      /\ Len(Claimed(r)) = run[r].count /\ DOMAIN Claimed(r) = 1..run[r].count
      /\ \A i \in 1..run[r].count : Claimed(r)[i] \notin {"running", "succeeded"}
      /\ \A v \in Workers : Owns(v) => proc[v].run # r
  BY <1>1, ClaimedAttempts
<1>4. /\ run[r] \in Run /\ c \in Conversations /\ HasLatest(run[r].receipts)
  BY <1>1, ClaimedRow
<1>5. /\ run[r].count \in Nat /\ run[r].retry \in Nat /\ AttemptBase(r) \in Nat
      /\ AttemptBase(r) = Max(ExpectedCounts(run[r].receipts))
  BY <1>4, RowNumbers DEF AttemptBase
<1>6. /\ row.status = "running" /\ row.count = run[r].count
      /\ row.attempts = Claimed(r) /\ row.retry = run[r].retry
      /\ row.receipts = run[r].receipts
  BY <1>4 DEF Run
<1> HIDE DEF row
<1>7. LedgerRow(row)
  BY <1>3, <1>6 DEF LedgerRow
<1>8. run[r].count <= AttemptBase(r) + run[r].retry
  <2>1. CASE Abandoned(r)
    BY <1>1, <1>5, <2>1 DEF OutOfBudget
  <2>2. CASE ~Abandoned(r)
    <3>1. run[r].status = "pending"
      BY <1>1, <2>2 DEF Claiming, Claimable
    <3>2. QED BY <1>3, <1>5, <3>1 DEF LedgerRow
  <2>3. QED BY <2>1, <2>2
<1>9. /\ p.pc = "starting" /\ p.run = r /\ p.token = t /\ p.base = AttemptBase(r)
      /\ p.prior = run[r].count /\ p.local = 1 /\ p.open = 0
  <2>1. ~(remaining < 0)
    BY <1>5, <1>8
  <2>2. QED BY <2>1
<1> HIDE DEF p, remaining
<1>10. ClaimAgrees(p, row)
  BY <1>3, <1>5, <1>6, <1>8, <1>9 DEF ClaimAgrees
<1>11. \A v \in Workers : proc[v].token # t
  BY DEF Fresh, Held
<1>12. TokensInv'
  <2>1. ASSUME NEW d \in Conversations, lease'[d].live PROVE lease'[d].run # Nil
    BY <1>1, <1>2, <1>4, <2>1 DEF TokensInv
  <2>2. ASSUME NEW u \in Workers, NEW v \in Workers, u # v,
               proc'[u].token = proc'[v].token
        PROVE  proc'[u].token = Nil
    BY <1>1, <1>2, <1>9, <1>11, <2>2 DEF TokensInv
  <2>3. QED BY <2>1, <2>2 DEF TokensInv
<1>13. BudgetInv' /\ AttemptLedger'
  <2>1. \A q \in RunIds : LedgerRow(run'[q])
    BY <1>1, <1>2, <1>7, RowByRow DEF AttemptInv
  <2>2. QED BY <2>1 DEF LedgerRow, BudgetInv, AttemptLedger, AttemptBase
<1>14. ASSUME NEW v \in Workers, Owns(v)'
       PROVE  ClaimAgrees(proc'[v], run'[proc'[v].run])
  <2>1. CASE v = w
    BY <1>1, <1>2, <1>9, <1>10, <2>1
  <2>2. CASE v # w
    <3>1. proc'[v] = proc[v]
      BY <1>1, <1>2, <2>2
    <3>2. PICK d \in Conversations :
            lease'[d] = [run |-> proc[v].run, token |-> proc[v].token, live |-> TRUE]
      BY <1>14, <3>1 DEF Owns
    <3>3. d # c
      <4>1. lease'[c].token = t
        BY <1>1, <1>2, <1>4
      <4>2. lease'[d].token # t
        BY <1>11, <3>2
      <4>3. QED BY <4>1, <4>2
    <3>4. Owns(v)
      BY <1>1, <1>2, <3>2, <3>3 DEF Owns
    <3>5. run'[proc[v].run] = run[proc[v].run]
      BY <1>1, <1>2, <1>3, <3>4
    <3>6. QED BY <3>1, <3>4, <3>5, Bystander
  <2>3. QED BY <2>1, <2>2
<1>15. QED BY <1>12, <1>13, <1>14 DEF AttemptInv, ClaimsInv

\* Closing one attempt leaves the others alone.
LEMMA OneAttemptClosed ==
  ASSUME NEW a \in Seq(AttemptStatus), NEW i \in DOMAIN a, NEW st \in AttemptStatus,
         NEW b, b = [a EXCEPT ![i] = st]
  PROVE  /\ b \in Seq(AttemptStatus) /\ Len(b) = Len(a)
         /\ DOMAIN b = DOMAIN a /\ b[i] = st
         /\ \A j \in DOMAIN a : j # i => b[j] = a[j]
<1>1. b \in Seq(AttemptStatus)
  BY OverwriteType
<1>2. DOMAIN b = DOMAIN a /\ b[i] = st /\ \A j \in DOMAIN a : j # i => b[j] = a[j]
  OBVIOUS
<1>3. Len(b) = Len(a)
  BY <1>1, <1>2, SameLength
<1>4. QED BY <1>1, <1>2, <1>3

\* What an owner can rely on.
LEMMA OwnerFacts ==
  ASSUME IInv, AttemptInv, NEW w \in Workers, Owns(w)
  PROVE  LET r == proc[w].run
             p == proc[w]
         IN  /\ r \in RunIds /\ p \in Proc /\ run[r] \in Run
             /\ run[r].status = "running" /\ run[r].conv \in Conversations
             /\ LedgerRow(run[r]) /\ ClaimAgrees(p, run[r])
             /\ run[r].count \in Nat /\ run[r].retry \in Nat
             /\ run[r].attempts \in Seq(AttemptStatus)
             /\ DOMAIN run[r].attempts = 1..run[r].count
             /\ Max(ExpectedCounts(run[r].receipts)) \in Nat
             /\ p.prior \in Nat /\ p.local \in Nat /\ p.open \in Nat
<1> DEFINE r == proc[w].run
           p == proc[w]
<1>1. TokensInv
  BY DEF AttemptInv
<1>2. /\ r \in RunIds /\ p \in Proc /\ run[r] \in Run
      /\ run[r].status = "running" /\ run[r].conv \in Conversations
      /\ HasLatest(run[r].receipts)
  BY <1>1, OwnedRun
<1>3. LedgerRow(run[r]) /\ ClaimAgrees(p, run[r])
  BY <1>2, RowByRow DEF AttemptInv, ClaimsInv
<1>4. /\ run[r].count \in Nat /\ run[r].retry \in Nat
      /\ Max(ExpectedCounts(run[r].receipts)) \in Nat
  BY <1>2, RowNumbers
<1>5. run[r].attempts \in Seq(AttemptStatus) /\ Len(run[r].attempts) = run[r].count
  BY <1>2, <1>3 DEF Run, LedgerRow
<1>6. DOMAIN run[r].attempts = 1..run[r].count
  BY <1>5
<1>7. p.prior \in Nat /\ p.local \in Nat /\ p.open \in Nat
  BY <1>2 DEF Proc
<1>8. QED BY <1>2, <1>3, <1>4, <1>5, <1>6, <1>7

\* The next attempt gets the next number, within the budget, and is the only
\* open one.
LEMMA StartAttemptAttempts ==
  ASSUME IInv, IInv', AttemptInv, NEW w \in Workers, StartAttempt(w)
  PROVE  AttemptInv'
<1> DEFINE r == proc[w].run
           number == proc[w].prior + proc[w].local
           row == [run[r] EXCEPT !.count = number,
                                 !.attempts = Append(run[r].attempts, "running")]
           p == [proc[w] EXCEPT !.pc = "executing", !.open = number]
           base == Max(ExpectedCounts(run[r].receipts))
<1>1. /\ proc[w].pc = "starting" /\ Owns(w)
      /\ run' = [run EXCEPT ![r] = row] /\ proc' = [proc EXCEPT ![w] = p]
      /\ lease' = lease
  BY DEF StartAttempt
<1>2. /\ r \in RunIds /\ proc[w] \in Proc /\ run[r] \in Run
      /\ run[r].status = "running"
      /\ LedgerRow(run[r]) /\ ClaimAgrees(proc[w], run[r])
      /\ run[r].count \in Nat /\ run[r].retry \in Nat
      /\ run[r].attempts \in Seq(AttemptStatus)
      /\ DOMAIN run[r].attempts = 1..run[r].count /\ base \in Nat
  BY <1>1, OwnerFacts
<1>3. /\ number = run[r].count + 1 /\ proc[w].open = 0
      /\ run[r].count <= proc[w].base + run[r].retry /\ proc[w].base = base
      /\ proc[w].prior <= base + run[r].retry
      /\ \A i \in 1..run[r].count : run[r].attempts[i] # "running"
  BY <1>1, <1>2 DEF ClaimAgrees
<1>4. /\ row.status = "running" /\ row.count = run[r].count + 1
      /\ row.attempts = Append(run[r].attempts, "running")
      /\ row.retry = run[r].retry /\ row.receipts = run[r].receipts
  BY <1>2, <1>3 DEF Run
<1>5. /\ p.pc = "executing" /\ p.open = run[r].count + 1
      /\ p.run = r /\ p.token = proc[w].token /\ p.base = proc[w].base
      /\ p.prior = proc[w].prior /\ p.local = proc[w].local
      /\ p.prior + p.local = run[r].count + 1
  BY <1>2, <1>3 DEF Proc
<1> HIDE DEF row, p, r, base
<1>6. /\ Len(row.attempts) = run[r].count + 1
      /\ row.attempts[run[r].count + 1] = "running"
      /\ \A i \in 1..run[r].count : row.attempts[i] = run[r].attempts[i]
  <2>1. Len(run[r].attempts) = run[r].count
    BY <1>2 DEF LedgerRow
  <2>2. QED BY <1>2, <1>4, <2>1
<1>7. LedgerRow(row)
  <2>1. \A i \in 1..run[r].count : run[r].attempts[i] # "succeeded"
    BY <1>2 DEF LedgerRow
  <2>2. \A i \in 1..(run[r].count + 1) : i \in 1..run[r].count \/ i = run[r].count + 1
    BY <1>2
  <2>3. /\ \A i \in 1..row.count :
             row.attempts[i] = "running" => i = row.count /\ row.status = "running"
        /\ \A i \in 1..row.count :
             row.attempts[i] = "succeeded" <=> i = row.count /\ row.status = "succeeded"
    BY <1>3, <1>4, <1>6, <2>1, <2>2
  <2>4. \A e \in ExpectedCounts(row.receipts) : e <= row.count
    <3>1. \A e \in ExpectedCounts(run[r].receipts) : e \in Nat /\ e <= run[r].count
      BY <1>2 DEF LedgerRow, Run, ExpectedCounts
    <3>2. QED BY <1>2, <1>4, <3>1
  <2>5. row.count <= Max(ExpectedCounts(row.receipts)) + row.retry + 1
    <3>1. row.count <= base + run[r].retry + 1
      BY <1>2, <1>3, <1>4
    <3>2. QED BY <1>4, <3>1 DEF base
  <2>6. QED BY <1>4, <1>6, <2>3, <2>4, <2>5 DEF LedgerRow
<1>8. ClaimAgrees(p, row)
  <2>1. p.open # 0 /\ p.open = row.count /\ row.attempts[p.open] = "running"
    BY <1>2, <1>4, <1>5, <1>6
  <2>2. /\ p.base = Max(ExpectedCounts(row.receipts))
        /\ p.prior <= p.base + row.retry /\ p.prior + p.local = row.count
    BY <1>3, <1>4, <1>5 DEF base
  <2>3. QED BY <1>5, <2>1, <2>2 DEF ClaimAgrees
<1>9. QED BY <1>1, <1>5, <1>7, <1>8, OwnerAttemptStep DEF r

\* A failed attempt is closed, and leaves room for another one if there is to
\* be one.
LEMMA AttemptFailsAttempts ==
  ASSUME IInv, IInv', AttemptInv, NEW w \in Workers,
         NEW exc \in {"retryable", "fatal", "lookup", "cancelled"},
         AttemptFails(w, exc)
  PROVE  AttemptInv'
<1> DEFINE r == proc[w].run
           n == run[r].count
           again == exc = "retryable" /\ proc[w].local <= Remaining(w)
           st == IF exc = "cancelled" THEN "cancelled" ELSE "failed"
           row == [run[r] EXCEPT !.attempts[proc[w].open] = st]
           p == [proc[w] EXCEPT !.pc = IF again THEN "retrying" ELSE "finishing",
                                !.open = 0, !.exc = exc]
           base == Max(ExpectedCounts(run[r].receipts))
<1>1. /\ proc[w].pc = "executing" /\ Owns(w)
      /\ exc = "cancelled" => run[r].cancel
      /\ run' = [run EXCEPT ![r] = row] /\ proc' = [proc EXCEPT ![w] = p]
      /\ lease' = lease
  BY DEF AttemptFails
<1>2. /\ r \in RunIds /\ proc[w] \in Proc /\ run[r] \in Run
      /\ run[r].status = "running"
      /\ LedgerRow(run[r]) /\ ClaimAgrees(proc[w], run[r])
      /\ n \in Nat /\ run[r].retry \in Nat
      /\ run[r].attempts \in Seq(AttemptStatus)
      /\ DOMAIN run[r].attempts = 1..n /\ base \in Nat
      /\ proc[w].prior \in Nat /\ proc[w].local \in Nat
  BY <1>1, OwnerFacts
<1>3. /\ proc[w].prior + proc[w].local = n /\ proc[w].open = n /\ n # 0
      /\ proc[w].base = base /\ proc[w].prior <= base + run[r].retry
  BY <1>1, <1>2 DEF ClaimAgrees
<1>4. /\ row.status = "running" /\ row.count = n
      /\ row.attempts = [run[r].attempts EXCEPT ![n] = st]
      /\ row.retry = run[r].retry /\ row.receipts = run[r].receipts
      /\ row.cancel = run[r].cancel
  BY <1>2, <1>3 DEF Run
<1>5. /\ p.pc = (IF again THEN "retrying" ELSE "finishing") /\ p.open = 0
      /\ p.exc = exc /\ p.run = r /\ p.token = proc[w].token
      /\ p.base = base /\ p.prior = proc[w].prior /\ p.local = proc[w].local
  BY <1>2, <1>3 DEF Proc
<1>6. again => n <= base + run[r].retry
  <2>1. ASSUME NEW k \in Nat, NEW c \in Nat, NEW q \in Nat, NEW l \in Nat,
               NEW b \in Nat, q + l = k, l <= c - (q - b)
        PROVE  k <= b + c
    BY <2>1
  <2>2. again => proc[w].local <= run[r].retry - (proc[w].prior - base)
    BY <1>3 DEF Remaining
  <2> HIDE DEF again, r, n, base
  <2>3. QED BY <1>2, <1>3, <2>1, <2>2
<1> HIDE DEF row, p, again, r, n, base
<1>7. /\ Len(row.attempts) = n /\ DOMAIN row.attempts = 1..n
      /\ \A i \in 1..n : row.attempts[i] \notin {"running", "succeeded"}
  <2>1. \A i \in 1..n : i # n => run[r].attempts[i] \notin {"running", "succeeded"}
    BY <1>2 DEF LedgerRow
  <2>2. Len(run[r].attempts) = n
    BY <1>2 DEF LedgerRow
  <2>3. n \in DOMAIN run[r].attempts /\ st \in AttemptStatus
    BY <1>2, <1>3 DEF AttemptStatus
  <2>4. st \notin {"running", "succeeded"}
    OBVIOUS
  <2> HIDE DEF st
  <2>5. /\ Len(row.attempts) = n /\ DOMAIN row.attempts = 1..n
        /\ row.attempts[n] = st
        /\ \A i \in 1..n : i # n => row.attempts[i] = run[r].attempts[i]
    <3>1. PICK a : a = run[r].attempts
      OBVIOUS
    <3>2. /\ Len(row.attempts) = Len(a) /\ DOMAIN row.attempts = DOMAIN a
          /\ row.attempts[n] = st
          /\ \A j \in DOMAIN a : j # n => row.attempts[j] = a[j]
      BY <1>2, <1>4, <2>3, <3>1, OneAttemptClosed
    <3>3. QED BY <1>2, <2>2, <3>1, <3>2
  <2>6. QED BY <2>1, <2>4, <2>5
<1>8. LedgerRow(row)
  <2>1. /\ \A e \in ExpectedCounts(run[r].receipts) : e <= n
        /\ n <= Max(ExpectedCounts(run[r].receipts)) + run[r].retry + 1
    BY <1>2 DEF LedgerRow, n
  <2>2. QED BY <1>4, <1>7, <2>1 DEF LedgerRow
<1>9. ClaimAgrees(p, row)
  <2>1. p.base = Max(ExpectedCounts(row.receipts)) /\ p.prior <= p.base + row.retry
    BY <1>3, <1>4, <1>5 DEF base
  <2>2. p.pc \in {"retrying", "finishing"} /\ p.open = 0
    BY <1>5
  <2>3. p.pc = "retrying" => /\ p.prior + p.local = row.count
                             /\ row.count <= p.base + row.retry
    BY <1>3, <1>4, <1>5, <1>6
  <2>4. p.exc = "cancelled" => row.cancel
    BY <1>1, <1>4, <1>5 DEF r
  <2>5. QED BY <1>7, <2>1, <2>2, <2>3, <2>4 DEF ClaimAgrees
<1>10. QED BY <1>1, <1>5, <1>8, <1>9, OwnerAttemptStep DEF r

\* The successful attempt is the last one, and the run ends with it.
LEMMA CommitSuccessAttempts ==
  ASSUME IInv, IInv', AttemptInv, NEW w \in Workers, CommitSuccess(w)
  PROVE  AttemptInv'
<1> DEFINE r == proc[w].run
           n == run[r].count
           row == [run[r] EXCEPT !.attempts[proc[w].open] = "succeeded",
                                 !.status = "succeeded"]
<1>1. /\ proc[w].pc = "executing" /\ Owns(w)
      /\ run' = [run EXCEPT ![r] = row] /\ proc' = [proc EXCEPT ![w] = Idle]
      /\ lease' = [lease EXCEPT ![run[r].conv] = NoLease]
  BY DEF CommitSuccess, Leave
<1>2. /\ r \in RunIds /\ run[r] \in Run
      /\ run[r].status = "running"
      /\ LedgerRow(run[r]) /\ ClaimAgrees(proc[w], run[r])
      /\ n \in Nat /\ run[r].attempts \in Seq(AttemptStatus)
      /\ DOMAIN run[r].attempts = 1..n
  BY <1>1, OwnerFacts
<1>3. proc[w].open = n /\ n \in DOMAIN run[r].attempts
  BY <1>1, <1>2 DEF ClaimAgrees
<1>4. /\ row.status = "succeeded" /\ row.count = n
      /\ row.attempts = [run[r].attempts EXCEPT ![n] = "succeeded"]
      /\ row.retry = run[r].retry /\ row.receipts = run[r].receipts
  BY <1>2, <1>3 DEF Run
<1> HIDE DEF row, r, n
<1>5. /\ Len(row.attempts) = n
      /\ row.attempts[n] = "succeeded"
      /\ \A i \in 1..n : i # n => row.attempts[i] \notin {"running", "succeeded"}
  <2>1. /\ Len(run[r].attempts) = n
        /\ \A i \in 1..n : i # n => run[r].attempts[i] \notin {"running", "succeeded"}
    BY <1>2 DEF LedgerRow
  <2>2. "succeeded" \in AttemptStatus
    BY DEF AttemptStatus
  <2>3. /\ Len(row.attempts) = n /\ row.attempts[n] = "succeeded"
        /\ \A i \in 1..n : i # n => row.attempts[i] = run[r].attempts[i]
    <3>1. PICK a : a = run[r].attempts
      OBVIOUS
    <3>2. /\ Len(row.attempts) = Len(a) /\ row.attempts[n] = "succeeded"
          /\ \A j \in DOMAIN a : j # n => row.attempts[j] = a[j]
      BY <1>2, <1>3, <1>4, <2>2, <3>1, OneAttemptClosed
    <3>3. QED BY <1>2, <2>1, <3>1, <3>2
  <2>4. QED BY <2>1, <2>3
<1>6. LedgerRow(row)
  <2>1. /\ \A e \in ExpectedCounts(run[r].receipts) : e <= n
        /\ n <= Max(ExpectedCounts(run[r].receipts)) + run[r].retry + 1
    BY <1>2 DEF LedgerRow, n
  <2>2. QED BY <1>4, <1>5, <2>1 DEF LedgerRow
<1>7. \A d \in Conversations : lease'[d] = lease[d] \/ ~lease'[d].live
  BY <1>1 DEF IInv, TypeOK, NoLease
<1>8. Idle.pc \in {"idle", "down"}
  BY DEF Idle, Process
<1>9. QED BY <1>1, <1>6, <1>7, <1>8, OwnerAttemptStep DEF r

\* A run that ends or pauses otherwise has no open and no successful attempt.
LEMMA FinishUnsuccessfulAttempts ==
  ASSUME IInv, IInv', AttemptInv, NEW w \in Workers, FinishUnsuccessful(w)
  PROVE  AttemptInv'
<1> DEFINE r == proc[w].run
           n == run[r].count
           status == FinalStatus(r, proc[w].exc)
           closed == [i \in DOMAIN run[r].attempts |->
                        IF i # proc[w].open THEN run[r].attempts[i]
                        ELSE IF status = "cancelled" THEN "cancelled" ELSE "failed"]
           row == [run[r] EXCEPT !.status = status, !.attempts = closed]
<1>1. /\ Owns(w) /\ run' = [run EXCEPT ![r] = row]
      /\ proc' = [proc EXCEPT ![w] = Idle]
      /\ lease' = [lease EXCEPT ![run[r].conv] = NoLease]
  BY DEF FinishUnsuccessful, Leave
<1>2. /\ r \in RunIds /\ run[r] \in Run
      /\ run[r].status = "running"
      /\ LedgerRow(run[r]) /\ ClaimAgrees(proc[w], run[r])
      /\ n \in Nat /\ run[r].attempts \in Seq(AttemptStatus)
      /\ DOMAIN run[r].attempts = 1..n
  BY <1>1, OwnerFacts
<1>3. status \in {"cancelled", "paused", "failed"}
  BY DEF FinalStatus
<1>4. /\ row.status = status /\ row.count = n /\ row.attempts = closed
      /\ row.retry = run[r].retry /\ row.receipts = run[r].receipts
  BY <1>2 DEF Run
<1> HIDE DEF row, status
<1>5. /\ DOMAIN closed = 1..n
      /\ \A i \in 1..n : closed[i] \in AttemptStatus \ {"running", "succeeded"}
  <2>1. \A i \in 1..n : /\ run[r].attempts[i] \in AttemptStatus
                        /\ run[r].attempts[i] # "succeeded"
                        /\ run[r].attempts[i] = "running" => i = n
    BY <1>2 DEF LedgerRow
  <2>2. \A i \in 1..n : i # proc[w].open => run[r].attempts[i] # "running"
    BY <1>2, <2>1 DEF ClaimAgrees
  <2>3. QED BY <1>2, <2>1, <2>2 DEF AttemptStatus
<1>6. Len(closed) = n
  <2>1. closed \in [1..n -> AttemptStatus]
    BY <1>2, <1>5
  <2>2. closed \in Seq(AttemptStatus)
    BY <1>2, <2>1, IsSeq
  <2> HIDE DEF closed
  <2>3. QED BY <1>2, <1>5, <2>2, LenProperties
<1> HIDE DEF closed
<1>7. LedgerRow(row)
  BY <1>2, <1>3, <1>4, <1>5, <1>6 DEF LedgerRow
<1>8. \A d \in Conversations : lease'[d] = lease[d] \/ ~lease'[d].live
  BY <1>1 DEF IInv, TypeOK, NoLease
<1>9. Idle.pc \in {"idle", "down"}
  BY DEF Idle, Process
<1>10. QED BY <1>1, <1>7, <1>8, <1>9, OwnerAttemptStep

\* An owner stops as cancelled only when that was asked for.
ObeysRequest(w, exc) ==
  Owns(w) /\ exc = "cancelled" => run[proc[w].run].cancel

\* A claim's coroutine goes on to finishing, or from a failed attempt to the
\* wait before the next one.
LEMMA GotoAttempts ==
  ASSUME IInv, IInv', AttemptInv, NEW w \in Workers, NEW pc, NEW exc,
         Goto(w, pc, exc), RunUntouched,
         pc = "finishing" \/ (pc = "backoff" /\ proc[w].pc = "retrying"),
         pc = "finishing" => ObeysRequest(w, exc)
  PROVE  AttemptInv'
<1> DEFINE p == [proc[w] EXCEPT !.pc = pc, !.exc = exc]
<1>1. run' = run /\ lease' = lease /\ proc' = [proc EXCEPT ![w] = p]
  BY DEF Goto, RunUntouched
<1>2. proc \in [Workers -> Proc] /\ proc[w] \in Proc
  BY DEF IInv, TypeOK
<1>3. /\ p.pc = pc /\ p.exc = exc /\ p.run = proc[w].run
      /\ p.token = proc[w].token /\ p.base = proc[w].base
      /\ p.prior = proc[w].prior /\ p.local = proc[w].local
      /\ p.open = proc[w].open
  BY <1>2 DEF Proc
<1> HIDE DEF p
<1>4. ASSUME Owns(w) PROVE ClaimAgrees(p, run[proc[w].run])
  <2>1. ClaimAgrees(proc[w], run[proc[w].run])
    BY <1>4 DEF AttemptInv, ClaimsInv
  <2>2. QED BY <1>3, <1>4, <2>1 DEF ClaimAgrees, ObeysRequest
<1>5. \A v \in Workers :
        \/ proc'[v] = proc[v]
        \/ /\ proc'[v].run = proc[v].run /\ proc'[v].token = proc[v].token
           /\ Owns(v) => ClaimAgrees(proc'[v], run[proc[v].run])
  BY <1>1, <1>2, <1>3, <1>4
<1>6. \A c \in Conversations : lease'[c] = lease[c] \/ ~lease'[c].live
  BY <1>1
<1>7. QED BY <1>1, <1>5, <1>6, ProcessAttemptStep

\* A process drops its claim, or is gone, or starts again.
LEMMA DropAttempts ==
  ASSUME IInv, IInv', AttemptInv, NEW w \in Workers, NEW p \in {Idle, Down},
         proc' = [proc EXCEPT ![w] = p], RunUntouched
  PROVE  AttemptInv'
<1>1. run' = run /\ lease' = lease
  BY DEF RunUntouched
<1>2. proc \in [Workers -> Proc]
  BY DEF IInv, TypeOK
<1>3. p.pc \in {"idle", "down"}
  BY DEF Idle, Down, Process
<1>4. \A v \in Workers : proc'[v] = proc[v] \/ proc'[v].pc \in {"idle", "down"}
  BY <1>2, <1>3
<1>5. \A c \in Conversations : lease'[c] = lease[c] \/ ~lease'[c].live
  BY <1>1
<1>6. QED BY <1>1, <1>4, <1>5, ProcessAttemptStep

\* A running run that may not go on carries a cancel request.
LEMMA StoppedByRequest ==
  ASSUME IInv, AttemptInv, NEW w \in Workers, Owns(w), ~Executable(proc[w].run)
  PROVE  run[proc[w].run].cancel
BY OwnerFacts DEF Executable

\* The steps by which a claim is refused, interrupted or given up.
LEMMA DetourAttempts ==
  ASSUME IInv, IInv', AttemptInv, NEW w \in Workers,
         \/ StartRefused(w) \/ ExecutionLosesLease(w) \/ ScheduleRetry(w)
         \/ BackoffInterrupted(w) \/ CommitRefused(w) \/ FinishSettled(w)
         \/ FinishEscapes(w) \/ Exit(w)
  PROVE  AttemptInv'
<1>1. RunUntouched
  BY DEF StartRefused, ExecutionLosesLease, ScheduleRetry, BackoffInterrupted,
         CommitRefused, FinishSettled, FinishEscapes, Exit
<1>2. \/ Leave(w) \/ proc' = [proc EXCEPT ![w] = Down]
      \/ \E exc : Goto(w, "finishing", exc) /\ ObeysRequest(w, exc)
      \/ \E exc : Goto(w, "backoff", exc) /\ proc[w].pc = "retrying"
  <2>1. CASE StartRefused(w)
    BY <2>1, StoppedByRequest DEF StartRefused, ObeysRequest
  <2>2. CASE ScheduleRetry(w)
    BY <2>2 DEF ScheduleRetry, ObeysRequest
  <2>3. CASE BackoffInterrupted(w)
    BY <2>3 DEF BackoffInterrupted, ObeysRequest
  <2>4. CASE CommitRefused(w)
    BY <2>4, StoppedByRequest DEF CommitRefused, ObeysRequest
  <2>5. CASE ExecutionLosesLease(w) \/ FinishSettled(w) \/ FinishEscapes(w) \/ Exit(w)
    BY <2>5 DEF ExecutionLosesLease, FinishSettled, FinishEscapes, Exit
  <2>6. QED BY <2>1, <2>2, <2>3, <2>4, <2>5
<1>3. CASE Leave(w) \/ proc' = [proc EXCEPT ![w] = Down]
  BY <1>1, <1>3, DropAttempts DEF Leave
<1>4. CASE \E exc : Goto(w, "finishing", exc) /\ ObeysRequest(w, exc)
  BY <1>1, <1>4, GotoAttempts
<1>5. CASE \E exc : Goto(w, "backoff", exc) /\ proc[w].pc = "retrying"
  BY <1>1, <1>5, GotoAttempts
<1>6. QED BY <1>2, <1>3, <1>4, <1>5

\* After the wait the next attempt has the next number.
LEMMA BackoffElapsesAttempts ==
  ASSUME IInv, IInv', AttemptInv, NEW w \in Workers, BackoffElapses(w)
  PROVE  AttemptInv'
<1> DEFINE p == [proc[w] EXCEPT !.pc = "starting", !.local = proc[w].local + 1]
<1>1. /\ run' = run /\ lease' = lease /\ proc' = [proc EXCEPT ![w] = p]
      /\ proc[w].pc = "backoff"
  BY DEF BackoffElapses, RunUntouched
<1>2. proc \in [Workers -> Proc] /\ proc[w] \in Proc
  BY DEF IInv, TypeOK
<1>3. /\ p.pc = "starting" /\ p.run = proc[w].run
      /\ p.token = proc[w].token /\ p.base = proc[w].base
      /\ p.prior = proc[w].prior /\ p.local = proc[w].local + 1
      /\ p.open = proc[w].open
  BY <1>2 DEF Proc
<1> HIDE DEF p
<1>4. ASSUME Owns(w) PROVE ClaimAgrees(p, run[proc[w].run])
  <2>1. /\ ClaimAgrees(proc[w], run[proc[w].run])
        /\ proc[w].prior \in Nat /\ proc[w].local \in Nat
    BY <1>4, OwnerFacts
  <2>2. p.prior + p.local = run[proc[w].run].count + 1
    BY <1>1, <1>3, <2>1 DEF ClaimAgrees
  <2>3. QED BY <1>1, <1>3, <2>1, <2>2 DEF ClaimAgrees
<1>5. \A v \in Workers :
        \/ proc'[v] = proc[v]
        \/ /\ proc'[v].run = proc[v].run /\ proc'[v].token = proc[v].token
           /\ Owns(v) => ClaimAgrees(proc'[v], run[proc[v].run])
  BY <1>1, <1>2, <1>3, <1>4
<1>6. \A c \in Conversations : lease'[c] = lease[c] \/ ~lease'[c].live
  BY <1>1
<1>7. QED BY <1>1, <1>5, <1>6, ProcessAttemptStep

\* Archives, stop requests, expiring leases: no run row and no claim changes.
LEMMA QuietAttempts ==
  ASSUME IInv, IInv', AttemptInv, UNCHANGED <<run, proc>>,
         \A c \in Conversations : lease'[c] = lease[c] \/ ~lease'[c].live
  PROVE  AttemptInv'
<1>1. \A v \in Workers : proc'[v] = proc[v]
  OBVIOUS
<1>2. QED BY <1>1, ProcessAttemptStep

\* Processes that crash, stop and start, and leases that run out.
LEMMA EnvironmentAttempts ==
  ASSUME IInv, IInv', AttemptInv, Environment
  PROVE  AttemptInv'
<1>1. ASSUME NEW c \in Conversations, OrphanExpires(c) \/ HeldLeaseExpires(c)
      PROVE  AttemptInv'
  <2>1. /\ lease' = [lease EXCEPT ![c] = [@ EXCEPT !.live = FALSE]]
        /\ UNCHANGED <<run, proc>>
    BY <1>1 DEF OrphanExpires, HeldLeaseExpires
  <2>2. lease \in [Conversations -> Lease]
    BY DEF IInv, TypeOK
  <2>3. ~[lease[c] EXCEPT !.live = FALSE].live
    BY <2>2 DEF Lease
  <2>4. \A d \in Conversations : lease'[d] = lease[d] \/ ~lease'[d].live
    BY <2>1, <2>2, <2>3
  <2>5. QED BY <2>1, <2>4, QuietAttempts
<1>2. ASSUME NEW w \in Workers, Crash(w) \/ Restart(w)
      PROVE  AttemptInv'
  BY <1>2, DropAttempts DEF Crash, Restart
<1>3. ASSUME NEW w \in Workers, RequestStop(w)
      PROVE  AttemptInv'
  BY <1>3, QuietAttempts DEF RequestStop, RunUntouched
<1>4. QED BY <1>1, <1>2, <1>3 DEF Environment

\* Every request keeps the attempts in order.
LEMMA RequestAttempts ==
  ASSUME IInv, IInv', AttemptInv, Requests
  PROVE  AttemptInv'
<1>1. ASSUME NEW c \in Conversations, ArchiveConversation(c) \/ RestoreConversation(c)
      PROVE  AttemptInv'
  BY <1>1, QuietAttempts DEF ArchiveConversation, RestoreConversation
<1>2. ASSUME NEW s \in Subjects, ArchiveSubject(s) \/ RestoreSubject(s)
      PROVE  AttemptInv'
  BY <1>2, QuietAttempts DEF ArchiveSubject, RestoreSubject
<1>3. QED BY <1>1, <1>2, AcceptTurnAttempts, CancelRunAttempts,
             RetrySavedInputAttempts DEF Requests

\* Every step of a worker keeps the attempts in order.
LEMMA WorkerAttempts ==
  ASSUME IInv, IInv', AttemptInv, NEW w \in Workers, Claim(w) \/ Work(w)
  PROVE  AttemptInv'
<1>1. CASE Claim(w)
  BY <1>1, ClaimEndsAttempts, ClaimAndStartAttempts DEF Claim
<1>2. CASE Work(w)
  BY <1>2, StartAttemptAttempts, AttemptFailsAttempts, DetourAttempts,
     BackoffElapsesAttempts, CommitSuccessAttempts, FinishUnsuccessfulAttempts
     DEF Work
<1>3. QED BY <1>1, <1>2

\* Every step keeps the attempts in order.
THEOREM AttemptInvInductive == IInv /\ IInv' /\ AttemptInv /\ [Next]_vars => AttemptInv'
<1> SUFFICES ASSUME IInv, IInv', AttemptInv, [Next]_vars PROVE AttemptInv'
  OBVIOUS
<1>1. CASE UNCHANGED vars
  BY <1>1, QuietAttempts DEF vars
<1>2. CASE Next
  BY <1>2, RequestAttempts, WorkerAttempts, EnvironmentAttempts DEF Next
<1>3. QED BY <1>1, <1>2

\* The inductive invariant behind the attempt ledger and budget.
THEOREM AttemptInvariance == Spec => []AttemptInv
<1>1. QED BY InitAttempts, AttemptInvInductive, Invariance, PTL DEF Spec

\* The attempt rows agree with the run row and with the claim that writes them.
THEOREM LedgerAgrees == Spec => []AttemptLedger
<1>1. AttemptInv => AttemptLedger
  BY DEF AttemptInv
<1>2. QED BY <1>1, AttemptInvariance, PTL

\* A claimed worker always has an attempt left in the budget of the current
\* input, and no input is attempted more often than retry_count + 1 times.
THEOREM BudgetIsKept == Spec => []AttemptBudget
<1>1. ASSUME IInv, AttemptInv PROVE AttemptBudget
  <2>1. \A r \in RunIds : run[r].count <= AttemptBase(r) + run[r].retry + 1
    BY <1>1 DEF AttemptInv, BudgetInv
  <2>2. ASSUME NEW w \in Workers, Owns(w)
        PROVE  LET p == proc[w]
                   r == p.run
               IN  /\ 0 <= Remaining(w)
                   /\ p.base = AttemptBase(r)
                   /\ p.pc \in {"starting", "backoff"} =>
                        run[r].count < p.base + run[r].retry + 1
                   /\ p.pc = "starting" => p.prior + p.local = run[r].count + 1
                   /\ p.pc = "executing" => p.open = run[r].count
    <3> DEFINE p == proc[w]
               r == p.run
    <3>1. /\ ClaimAgrees(p, run[r]) /\ run[r].count \in Nat
          /\ run[r].retry \in Nat /\ Max(ExpectedCounts(run[r].receipts)) \in Nat
          /\ p.prior \in Nat
      BY <1>1, <2>2, OwnerFacts
    <3>2. p.base = AttemptBase(r) /\ p.base \in Nat /\ p.prior <= p.base + run[r].retry
      BY <3>1 DEF ClaimAgrees, AttemptBase
    <3>3. 0 <= Remaining(w)
      BY <3>1, <3>2 DEF Remaining
    <3>4. p.pc \in {"starting", "backoff"} => run[r].count < p.base + run[r].retry + 1
      BY <3>1, <3>2 DEF ClaimAgrees
    <3>5. /\ p.pc = "starting" => p.prior + p.local = run[r].count + 1
          /\ p.pc = "executing" => p.open = run[r].count
      BY <3>1 DEF ClaimAgrees
    <3>6. QED BY <3>2, <3>3, <3>4, <3>5
  <2>3. QED BY <2>1, <2>2 DEF AttemptBudget
<1>2. QED BY <1>1, Invariance, AttemptInvariance, PTL

-----------------------------------------------------------------------------
(* What a step makes of a turn.                                             *)

\* Neither its conversation nor its transcript changes. It goes on as it was
\* (whether pending or running), is handed back, taken up again, given up,
\* withdrawn by a request, or cancelled because of an earlier one.
Moved(old, new) ==
  /\ new.conv = old.conv
  /\ \/ /\ new.cancel = old.cancel
        /\ \/ new.status = old.status
           \/ old.status \in {"pending", "running"} /\ new.status = "running"
           \/ old.status = "running" /\ ~old.cancel /\ new.status = "paused"
           \/ old.status = "paused" /\ new.status = "pending"
           \/ /\ old.status \in {"pending", "running"} /\ ~old.cancel
              /\ new.status = "failed"
           \/ /\ old.status \in {"pending", "running"} /\ old.cancel
              /\ new.status = "cancelled"
     \/ /\ old.status \in Active /\ new.cancel
        /\ \/ old.status = "running" /\ new.status = "running"
           \/ old.status # "running" /\ new.status = "cancelled"

\* The row of q is moved, every other row stays.
MovesOne(q) ==
  \E x : run' = [run EXCEPT ![q] = x] /\ Moved(run[q], x)

\* A cancel request withdraws a turn.
LEMMA CancelRunMoves ==
  ASSUME IInv, NEW q \in RunIds, CancelRun(q)
  PROVE  MovesOne(q)
<1>1. run[q] \in Run
  BY DEF IInv, TypeOK
<1>2. CASE run[q].status = "running"
  <2> DEFINE x == [run[q] EXCEPT !.cancel = TRUE]
  <2>1. run' = [run EXCEPT ![q] = x]
    BY <1>2 DEF CancelRun
  <2>2. x.conv = run[q].conv /\ x.cancel = TRUE /\ x.status = run[q].status
    BY <1>1 DEF Run
  <2> HIDE DEF x
  <2>3. Moved(run[q], x)
    BY <1>2, <2>2 DEF Moved, Active
  <2>4. QED BY <2>1, <2>3 DEF MovesOne
<1>3. CASE run[q].status # "running"
  <2> DEFINE x == [run[q] EXCEPT !.cancel = TRUE, !.status = "cancelled"]
  <2>1. run' = [run EXCEPT ![q] = x] /\ run[q].status \in Active
    BY <1>3 DEF CancelRun
  <2>2. x.conv = run[q].conv /\ x.cancel = TRUE /\ x.status = "cancelled"
    BY <1>1 DEF Run
  <2> HIDE DEF x
  <2>3. Moved(run[q], x)
    BY <1>3, <2>1, <2>2 DEF Moved
  <2>4. QED BY <2>1, <2>3 DEF MovesOne
<1>4. QED BY <1>2, <1>3

\* A Retry takes the turn up again.
LEMMA RetrySavedInputMoves ==
  ASSUME IInv, NEW q \in RunIds, NEW k \in RetryKeys,
         RetrySavedInput(q, k, run[q].count)
  PROVE  MovesOne(q)
<1> DEFINE x == [run[q] EXCEPT !.status = "pending",
                               !.receipts = run[q].receipts \cup
                                 {[key |-> k, expected |-> run[q].count]}]
<1>1. run[q] \in Run
  BY DEF IInv, TypeOK
<1>2. run' = [run EXCEPT ![q] = x] /\ run[q].status = "paused"
  BY DEF RetrySavedInput
<1>3. x.conv = run[q].conv /\ x.cancel = run[q].cancel /\ x.status = "pending"
  BY <1>1 DEF Run
<1> HIDE DEF x
<1>4. Moved(run[q], x)
  BY <1>2, <1>3 DEF Moved
<1>5. QED BY <1>2, <1>4 DEF MovesOne

\* A claim carries the request out, gives an exhausted turn up, or goes on.
LEMMA ClaimMoves ==
  ASSUME IInv, NEW w \in Workers, NEW q \in RunIds,
         \/ ClaimAndCancel(w, q) \/ ClaimAndExhaust(w, q)
         \/ \E t \in Tokens : ClaimAndStart(w, q, t)
  PROVE  MovesOne(q)
<1>1. run[q] \in Run
  BY DEF IInv, TypeOK
<1>2. run[q].status \in {"pending", "running"}
  BY DEF ClaimAndCancel, ClaimAndExhaust, ClaimAndStart, Claiming, Claimable,
         Abandoned
<1>3. PICK st \in {"cancelled", "failed", "running"} :
        /\ run' = [run EXCEPT ![q] = [@ EXCEPT !.status = st, !.attempts = Claimed(q)]]
        /\ st = "cancelled" => run[q].cancel
        /\ st = "failed" => ~run[q].cancel
  BY DEF ClaimAndCancel, ClaimAndExhaust, ClaimAndStart
<1> DEFINE x == [run[q] EXCEPT !.status = st, !.attempts = Claimed(q)]
<1>4. run' = [run EXCEPT ![q] = x]
  BY <1>3
<1>5. x.conv = run[q].conv /\ x.cancel = run[q].cancel /\ x.status = st
  BY <1>1 DEF Run
<1> HIDE DEF x
<1>6. Moved(run[q], x)
  BY <1>2, <1>3, <1>5 DEF Moved
<1>7. QED BY <1>4, <1>6 DEF MovesOne

\* An attempt that starts or fails shows nothing of itself.
LEMMA AttemptMoves ==
  ASSUME IInv, NEW w \in Workers, proc[w].run \in RunIds,
         \/ StartAttempt(w)
         \/ \E exc \in {"retryable", "fatal", "lookup", "cancelled"} :
              AttemptFails(w, exc)
  PROVE  MovesOne(proc[w].run)
<1> DEFINE q == proc[w].run
<1>1. run[q] \in Run
  BY DEF IInv, TypeOK
<1>2. CASE StartAttempt(w)
  <2> DEFINE number == proc[w].prior + proc[w].local
             x == [run[q] EXCEPT !.count = number,
                                 !.attempts = Append(run[q].attempts, "running")]
  <2>1. run' = [run EXCEPT ![q] = x]
    BY <1>2 DEF StartAttempt
  <2>2. x.conv = run[q].conv /\ x.cancel = run[q].cancel /\ x.status = run[q].status
    BY <1>1 DEF Run
  <2> HIDE DEF x
  <2>3. Moved(run[q], x)
    BY <2>2 DEF Moved
  <2>4. QED BY <2>1, <2>3 DEF MovesOne
<1>3. ASSUME NEW exc \in {"retryable", "fatal", "lookup", "cancelled"},
             AttemptFails(w, exc)
      PROVE  MovesOne(q)
  <2> DEFINE st == IF exc = "cancelled" THEN "cancelled" ELSE "failed"
             x == [run[q] EXCEPT !.attempts[proc[w].open] = st]
  <2>1. run' = [run EXCEPT ![q] = x]
    BY <1>3 DEF AttemptFails
  <2>2. x.conv = run[q].conv /\ x.cancel = run[q].cancel /\ x.status = run[q].status
    BY <1>1 DEF Run
  <2> HIDE DEF x
  <2>3. Moved(run[q], x)
    BY <2>2 DEF Moved
  <2>4. QED BY <2>1, <2>3 DEF MovesOne
<1>4. QED BY <1>2, <1>3

\* An owner finishes a turn as what the request and the exception say.
LEMMA FinishMoves ==
  ASSUME IInv, AttemptInv, NEW w \in Workers, FinishUnsuccessful(w)
  PROVE  MovesOne(proc[w].run)
<1> DEFINE q == proc[w].run
           status == FinalStatus(q, proc[w].exc)
           closed == [i \in DOMAIN run[q].attempts |->
                        IF i # proc[w].open THEN run[q].attempts[i]
                        ELSE IF status = "cancelled" THEN "cancelled" ELSE "failed"]
           x == [run[q] EXCEPT !.status = status, !.attempts = closed]
<1>1. /\ proc[w].pc = "finishing" /\ Owns(w)
      /\ run' = [run EXCEPT ![q] = x]
  BY DEF FinishUnsuccessful
<1>2. run[q] \in Run /\ run[q].status = "running" /\ ClaimAgrees(proc[w], run[q])
  BY <1>1, OwnerFacts
<1>3. \/ status = "cancelled" /\ run[q].cancel
      \/ status \in {"paused", "failed"} /\ ~run[q].cancel
  <2>1. proc[w].exc = "cancelled" => run[q].cancel
    BY <1>1, <1>2 DEF ClaimAgrees
  <2>2. QED BY <2>1 DEF FinalStatus
<1>4. x.conv = run[q].conv /\ x.cancel = run[q].cancel /\ x.status = status
  BY <1>2 DEF Run
<1> HIDE DEF x, status
<1>5. Moved(run[q], x)
  BY <1>2, <1>3, <1>4 DEF Moved
<1>6. QED BY <1>1, <1>5 DEF MovesOne

\* A step accepts a turn, answers it, moves one, or changes none.
LEMMA TurnMoves ==
  ASSUME IInv, AttemptInv, [Next]_vars
  PROVE  \/ \E c \in Conversations, k \in Keys, n \in RetryCounts, q \in RunIds :
              AcceptTurn(c, k, n, q)
         \/ \E w \in Workers : CommitSuccess(w)
         \/ \E q \in RunIds : MovesOne(q) /\ messages' = messages
         \/ UNCHANGED <<run, messages>>
<1>1. CASE UNCHANGED <<run, messages>>
  BY <1>1
<1>2. ASSUME NEW q \in RunIds, CancelRun(q)
      PROVE  MovesOne(q) /\ messages' = messages
  BY <1>2, CancelRunMoves DEF CancelRun
<1>3. ASSUME NEW q \in RunIds, NEW k \in RetryKeys,
             RetrySavedInput(q, k, run[q].count)
      PROVE  MovesOne(q) /\ messages' = messages
  BY <1>3, RetrySavedInputMoves DEF RetrySavedInput
<1>4. ASSUME NEW w \in Workers, NEW q \in RunIds,
             \/ ClaimAndCancel(w, q) \/ ClaimAndExhaust(w, q)
             \/ \E t \in Tokens : ClaimAndStart(w, q, t)
      PROVE  MovesOne(q) /\ messages' = messages
  BY <1>4, ClaimMoves DEF ClaimAndCancel, ClaimAndExhaust, ClaimAndStart
<1>5. ASSUME NEW w \in Workers,
             \/ StartAttempt(w) \/ FinishUnsuccessful(w)
             \/ \E exc \in {"retryable", "fatal", "lookup", "cancelled"} :
                  AttemptFails(w, exc)
      PROVE  /\ proc[w].run \in RunIds
             /\ MovesOne(proc[w].run) /\ messages' = messages
  <2>1. Owns(w) /\ messages' = messages
    BY <1>5 DEF StartAttempt, FinishUnsuccessful, AttemptFails
  <2>2. proc[w].run \in RunIds
    BY <2>1, OwnerFacts
  <2>3. QED BY <1>5, <2>1, <2>2, AttemptMoves, FinishMoves
<1>6. CASE RowWrite
  BY <1>2, <1>3, <1>4, <1>5, <1>6 DEF RowWrite
<1>7. QED BY <1>1, <1>6, WritesOrNot

-----------------------------------------------------------------------------
(* The refinement of ConversationTurns.                                     *)

\* The turn that a run row shows, as Turns sees it.
View(x) ==
  [state |-> CASE x.status = "absent" -> "unknown"
               [] x.status \in {"pending", "running"} -> "open"
               [] x.status = "paused" -> "waiting"
               [] x.status = "succeeded" -> "answered"
               [] OTHER -> x.status,
   conv |-> x.conv, withdrawn |-> x.cancel]

ViewOfRuns == [r \in RunIds |-> View(run[r])]

\* ViewOfRuns is what Turns is instantiated with.
LEMMA TurnsSeesViews ==
  ViewOfRuns = [r \in RunIds |-> [state |-> TurnState(r), conv |-> run[r].conv,
                                  withdrawn |-> run[r].cancel]]
BY DEF ViewOfRuns, View, TurnState

\* No turn has been accepted in an empty database.
LEMMA InitTurns == Init => Turns!Init
<1> SUFFICES ASSUME Init PROVE Turns!Init
  OBVIOUS
<1>1. \A r \in RunIds : View(run[r]) = Turns!Unknown
  <2>1. View(NoRun) = Turns!Unknown
    BY DEF View, NoRun, Turns!Unknown
  <2>2. QED BY <2>1 DEF Init
<1>2. ViewOfRuns = [r \in RunIds |-> Turns!Unknown]
  BY <1>1 DEF ViewOfRuns
<1>3. messages = [c \in Conversations |-> <<>>]
  BY DEF Init
<1>4. QED BY <1>2, <1>3, TurnsSeesViews DEF Turns!Init

\* One row changes, one turn changes.
LEMMA OneViewChanges ==
  ASSUME IInv, NEW q \in RunIds, NEW x, run' = [run EXCEPT ![q] = x]
  PROVE  ViewOfRuns' = [ViewOfRuns EXCEPT ![q] = View(x)]
<1>1. run \in [RunIds -> Run]
  BY DEF IInv, TypeOK
<1>2. run'[q] = x /\ \A r \in RunIds : r # q => run'[r] = run[r]
  BY <1>1
<1>3. ViewOfRuns' = [r \in RunIds |-> View(run'[r])]
  BY DEF ViewOfRuns, View
<1>4. \A r \in RunIds : View(run'[r]) = IF r = q THEN View(x) ELSE ViewOfRuns[r]
  BY <1>2 DEF ViewOfRuns
<1>5. [ViewOfRuns EXCEPT ![q] = View(x)]
        = [r \in RunIds |-> IF r = q THEN View(x) ELSE ViewOfRuns[r]]
  BY DEF ViewOfRuns
<1>6. QED BY <1>3, <1>4, <1>5

\* What the views show of the states a turn is in.
LEMMA ViewFields ==
  ASSUME IInv, NEW q \in RunIds
  PROVE  /\ ViewOfRuns[q] = View(run[q])
         /\ ViewOfRuns[q].conv = run[q].conv
         /\ ViewOfRuns[q].withdrawn = run[q].cancel
         /\ run[q].status \in {"pending", "running"} => ViewOfRuns[q].state = "open"
         /\ run[q].status = "paused" => ViewOfRuns[q].state = "waiting"
         /\ ViewOfRuns[q].state \in Turns!Unsettled => run[q].status \in Active
<1>1. ViewOfRuns[q] = View(run[q])
  BY DEF ViewOfRuns
<1>2. /\ View(run[q]).conv = run[q].conv /\ View(run[q]).withdrawn = run[q].cancel
      /\ run[q].status \in {"pending", "running"} => View(run[q]).state = "open"
      /\ run[q].status = "paused" => View(run[q]).state = "waiting"
  BY DEF View
<1>3. View(run[q]).state \in Turns!Unsettled => run[q].status \in Active
  <2>1. run[q].status \in RunStatus
    BY DEF IInv, TypeOK, Run
  <2>2. QED BY <2>1 DEF View, Turns!Unsettled, Active, RunStatus, Terminal
<1>4. QED BY <1>1, <1>2, <1>3

\* The refinement mapping, before and after a step.
LEMMA Mapping ==
  /\ ViewOfRuns = [r \in RunIds |-> [state |-> TurnState(r), conv |-> run[r].conv,
                                     withdrawn |-> run[r].cancel]]
  /\ ViewOfRuns' = [r \in RunIds |-> [state |-> TurnState(r)', conv |-> run'[r].conv,
                                      withdrawn |-> run'[r].cancel]]
BY TurnsSeesViews DEF ViewOfRuns, View, TurnState

\* Accepting a turn is accepting it.
LEMMA AcceptTurnIsAccept ==
  ASSUME IInv, NEW c \in Conversations, NEW k \in Keys, NEW n \in RetryCounts,
         NEW q \in RunIds, AcceptTurn(c, k, n, q)
  PROVE  Turns!Accept(c, q)
<1> DEFINE row == [status |-> "pending", conv |-> c, key |-> k, retry |-> n,
                   accepted |-> conv[c].version, count |-> 0,
                   attempts |-> <<>>, cancel |-> FALSE, receipts |-> {}]
<1>1. /\ run' = [run EXCEPT ![q] = row] /\ run[q].status = "absent"
      /\ messages' = [messages EXCEPT ![c] = Append(@, [run |-> q, role |-> "user"])]
      /\ ActiveRuns(c) = {}
  BY DEF AcceptTurn
<1>2. ViewOfRuns[q] = Turns!Unknown
  <2>1. run[q] = NoRun
    BY <1>1 DEF IInv, RowsInv
  <2>2. View(NoRun) = Turns!Unknown
    BY DEF View, NoRun, Turns!Unknown
  <2>3. QED BY <2>1, <2>2, ViewFields
<1>3. \A r \in RunIds : ViewOfRuns[r].conv = c => ViewOfRuns[r].state \notin Turns!Unsettled
  BY <1>1, ViewFields DEF ActiveRuns, RunsOf
<1>4. View(row) = [state |-> "open", conv |-> c, withdrawn |-> FALSE]
  <2>1. row.status = "pending" /\ row.conv = c /\ row.cancel = FALSE
    OBVIOUS
  <2> HIDE DEF row
  <2>2. QED BY <2>1 DEF View
<1>5. ViewOfRuns' = [ViewOfRuns EXCEPT ![q] = View(row)]
  BY <1>1, OneViewChanges
<1> HIDE DEF row
<1>6. QED BY <1>1, <1>2, <1>3, <1>4, <1>5, Mapping DEF Turns!Accept

\* A row that keeps its conversation and its request changes the state shown.
LEMMA StateUpdate ==
  ASSUME IInv, NEW q \in RunIds, NEW x, run' = [run EXCEPT ![q] = x],
         x.conv = run[q].conv, x.cancel = run[q].cancel
  PROVE  ViewOfRuns' = [ViewOfRuns EXCEPT ![q].state = View(x).state]
<1> DEFINE v == ViewOfRuns[q]
<1> DEFINE st == View(x).state
<1>1. [v EXCEPT !.state = st] = [state |-> st, conv |-> v.conv, withdrawn |-> v.withdrawn]
  <2>1. v = [state |-> v.state, conv |-> v.conv, withdrawn |-> v.withdrawn]
    <3>1. PICK y : y = run[q]
      OBVIOUS
    <3>2. View(y) = [state |-> View(y).state, conv |-> View(y).conv,
                     withdrawn |-> View(y).withdrawn]
      BY DEF View
    <3>3. QED BY <3>1, <3>2, ViewFields
  <2> HIDE DEF v, st
  <2>2. [state |-> v.state, conv |-> v.conv, withdrawn |-> v.withdrawn]
          \in [state : {v.state, st}, conv : {v.conv}, withdrawn : {v.withdrawn}]
    OBVIOUS
  <2>3. v \in [state : {v.state, st}, conv : {v.conv}, withdrawn : {v.withdrawn}]
    BY <2>1, <2>2
  <2>4. QED BY <2>3
<1>2. View(x) = [state |-> st, conv |-> v.conv, withdrawn |-> v.withdrawn]
  <2>1. v.conv = x.conv /\ v.withdrawn = x.cancel
    BY ViewFields
  <2> HIDE DEF v
  <2>2. QED BY <2>1 DEF View
<1>3. ViewOfRuns' = [ViewOfRuns EXCEPT ![q] = View(x)]
  BY OneViewChanges
<1>4. View(x) = [v EXCEPT !.state = st]
  BY <1>1, <1>2
<1> HIDE DEF st
<1>5. QED BY <1>3, <1>4 DEF st

\* Committing a reply answers the turn.
LEMMA CommitSuccessIsAnswer ==
  ASSUME IInv, AttemptInv, NEW w \in Workers, CommitSuccess(w),
         NEW q \in RunIds, q = proc[w].run
  PROVE  Turns!Answer(q)
<1> DEFINE x == [run[q] EXCEPT !.attempts[proc[w].open] = "succeeded",
                               !.status = "succeeded"]
           reply == [run |-> q, role |-> "assistant"]
<1>1. /\ Owns(w) /\ run[q].status = "running" /\ ~run[q].cancel
      /\ run' = [run EXCEPT ![q] = x]
      /\ messages' = [messages EXCEPT ![run[q].conv] = Append(@, reply)]
  BY DEF CommitSuccess, Executable
<1>2. q \in RunIds /\ run[q] \in Run
  BY <1>1, OwnerFacts
<1>3. x.conv = run[q].conv /\ x.cancel = run[q].cancel /\ x.status = "succeeded"
  BY <1>2 DEF Run
<1> HIDE DEF x
<1>4. View(x).state = "answered"
  BY <1>3 DEF View
<1>5. ViewOfRuns' = [ViewOfRuns EXCEPT ![q].state = "answered"]
  <2>1. ViewOfRuns' = [ViewOfRuns EXCEPT ![q].state = View(x).state]
    BY <1>1, <1>2, <1>3, StateUpdate
  <2>2. QED BY <1>4, <2>1
<1>6. /\ ViewOfRuns[q].state = "open" /\ ~ViewOfRuns[q].withdrawn
      /\ ViewOfRuns[q].conv = run[q].conv
  BY <1>1, <1>2, ViewFields
<1>7. QED BY <1>1, <1>5, <1>6, Mapping DEF Turns!Answer

\* What moves a row is a step of its turn, or shows nothing.
LEMMA MoveIsTurnStep ==
  ASSUME IInv, NEW q \in RunIds, MovesOne(q), messages' = messages
  PROVE  \/ Turns!HandBack(q) \/ Turns!GiveUp(q) \/ Turns!TakeBack(q)
         \/ Turns!Resume(q) \/ Turns!Withdraw(q)
         \/ UNCHANGED Turns!vars
<1> DEFINE v == ViewOfRuns[q]
<1>1. PICK x : run' = [run EXCEPT ![q] = x] /\ Moved(run[q], x)
  BY DEF MovesOne
<1>2. /\ ViewOfRuns' = [ViewOfRuns EXCEPT ![q] = View(x)]
      /\ x.conv = run[q].conv
  BY <1>1, OneViewChanges DEF Moved
<1>3. CASE x.cancel = run[q].cancel
  <2>1. ViewOfRuns' = [ViewOfRuns EXCEPT ![q].state = View(x).state]
    BY <1>1, <1>2, <1>3, StateUpdate
  <2>2. CASE View(x).state = v.state
    <3>1. View(x) = ViewOfRuns[q]
      <4>1. PICK y : y = run[q]
        OBVIOUS
      <4>2. View(x).state = View(y).state /\ x.conv = y.conv /\ x.cancel = y.cancel
        BY <1>2, <1>3, <2>2, <4>1, ViewFields
      <4>3. View(x) = View(y)
        BY <4>2 DEF View
      <4>4. QED BY <4>1, <4>3, ViewFields
    <3>2. ViewOfRuns' = ViewOfRuns
      BY <1>2, <3>1 DEF ViewOfRuns
    <3>3. QED BY <3>2, Mapping DEF Turns!vars
  <2>3. CASE run[q].status = "running" /\ ~run[q].cancel /\ x.status = "paused"
    <3>1. View(x).state = "waiting" /\ v.state = "open" /\ ~v.withdrawn
      BY <2>3, ViewFields DEF View
    <3>2. ViewOfRuns' = [ViewOfRuns EXCEPT ![q].state = "waiting"]
      BY <2>1, <3>1
    <3>3. Turns!HandBack(q)
      BY <3>1, <3>2, Mapping DEF Turns!HandBack
    <3>4. QED BY <3>3
  <2>4. CASE run[q].status = "paused" /\ x.status = "pending"
    <3>1. View(x).state = "open" /\ v.state = "waiting"
      BY <2>4, ViewFields DEF View
    <3>2. ViewOfRuns' = [ViewOfRuns EXCEPT ![q].state = "open"]
      BY <2>1, <3>1
    <3>3. Turns!Resume(q)
      BY <3>1, <3>2, Mapping DEF Turns!Resume
    <3>4. QED BY <3>3
  <2>5. CASE run[q].status \in {"pending", "running"} /\ ~run[q].cancel /\ x.status = "failed"
    <3>1. View(x).state = "failed" /\ v.state = "open" /\ ~v.withdrawn
      BY <2>5, ViewFields DEF View
    <3>2. ViewOfRuns' = [ViewOfRuns EXCEPT ![q].state = "failed"]
      BY <2>1, <3>1
    <3>3. Turns!GiveUp(q)
      BY <3>1, <3>2, Mapping DEF Turns!GiveUp
    <3>4. QED BY <3>3
  <2>6. CASE run[q].status \in {"pending", "running"} /\ run[q].cancel /\ x.status = "cancelled"
    <3>1. View(x).state = "cancelled" /\ v.state = "open" /\ v.withdrawn
      BY <2>6, ViewFields DEF View
    <3>2. ViewOfRuns' = [ViewOfRuns EXCEPT ![q].state = "cancelled"]
      BY <2>1, <3>1
    <3>3. Turns!TakeBack(q)
      BY <3>1, <3>2, Mapping DEF Turns!TakeBack
    <3>4. QED BY <3>3
  <2>7. CASE \/ x.status = run[q].status
             \/ run[q].status \in {"pending", "running"} /\ x.status = "running"
    <3>1. View(x).state = View(run[q]).state
      BY <2>7 DEF View
    <3>2. QED BY <2>2, <3>1, ViewFields
  <2>8. CASE /\ run[q].status \in Active /\ x.cancel
             /\ \/ run[q].status = "running" /\ x.status = "running"
                \/ run[q].status # "running" /\ x.status = "cancelled"
    <3>1. run[q].cancel
      BY <1>3, <2>8
    <3>2. run[q].status \in {"running", "cancelled"}
      BY <3>1 DEF IInv, CancelInv
    <3>3. run[q].status = "running"
      BY <2>8, <3>2 DEF Active
    <3>4. QED BY <2>7, <2>8, <3>3
  <2>9. QED BY <1>1, <2>3, <2>4, <2>5, <2>6, <2>7, <2>8 DEF Moved
<1>4. CASE x.cancel # run[q].cancel
  <2>1. /\ run[q].status \in Active /\ x.cancel
        /\ \/ run[q].status = "running" /\ x.status = "running"
           \/ run[q].status # "running" /\ x.status = "cancelled"
    BY <1>1, <1>4 DEF Moved
  <2> DEFINE s == IF run[q].status = "running" THEN "open" ELSE "cancelled"
  <2>2. x.cancel = TRUE
    <3>1. run[q].cancel \in BOOLEAN
      BY DEF IInv, TypeOK, Run
    <3>2. QED BY <2>1, <3>1
  <2>3. View(x) = [state |-> s, conv |-> v.conv, withdrawn |-> TRUE]
    <3>1. x.conv = v.conv
      BY <1>2, ViewFields
    <3>2. QED BY <2>1, <2>2, <3>1 DEF View
  <2>4. v.state \in Turns!Unsettled /\ s \in {v.state, "cancelled"} /\ s # "waiting"
    BY <2>1, ViewFields DEF Active, Turns!Unsettled
  <2> HIDE DEF s
  <2>5. ViewOfRuns' = [ViewOfRuns EXCEPT ![q] =
                         [state |-> s, conv |-> @.conv, withdrawn |-> TRUE]]
    BY <1>2, <2>3
  <2>6. Turns!Withdraw(q)
    BY <2>4, <2>5, Mapping DEF Turns!Withdraw
  <2>7. QED BY <2>6
<1>5. QED BY <1>3, <1>4

\* Every step of the database and its workers is a step of the conversation,
\* or is invisible in it.
THEOREM TurnStep == IInv /\ AttemptInv /\ [Next]_vars => [Turns!Next]_(Turns!vars)
<1> SUFFICES ASSUME IInv, AttemptInv, [Next]_vars
             PROVE  Turns!Next \/ UNCHANGED Turns!vars
  OBVIOUS
<1>1. ASSUME NEW c \in Conversations, NEW k \in Keys, NEW n \in RetryCounts,
             NEW q \in RunIds, AcceptTurn(c, k, n, q)
      PROVE  Turns!Next
  BY <1>1, AcceptTurnIsAccept DEF Turns!Next
<1>2. ASSUME NEW w \in Workers, CommitSuccess(w)
      PROVE  Turns!Next
  <2>1. proc[w].run \in RunIds
    BY <1>2, OwnerFacts DEF CommitSuccess
  <2>2. \E q \in RunIds : Turns!Answer(q)
    <3>1. PICK q \in RunIds : q = proc[w].run
      BY <2>1
    <3>2. Turns!Answer(q)
      BY <1>2, <3>1, CommitSuccessIsAnswer
    <3>3. QED BY <3>2
  <2>3. QED BY <2>2 DEF Turns!Next, Turns!Settle
<1>3. ASSUME NEW q \in RunIds, MovesOne(q), messages' = messages
      PROVE  Turns!Next \/ UNCHANGED Turns!vars
  BY <1>3, MoveIsTurnStep DEF Turns!Next, Turns!Settle
<1>4. CASE UNCHANGED <<run, messages>>
  BY <1>4, Mapping DEF Turns!vars, ViewOfRuns
<1>5. QED BY <1>1, <1>2, <1>3, <1>4, TurnMoves

\* RunLifecycle implements ConversationTurns: nothing a worker, a crash, a
\* takeover, a retry or a request does shows a person anything but a turn that
\* is accepted, answered once in its place, handed back, taken up again, given
\* up, or withdrawn.
THEOREM ImplementsTurns == Spec => KeepsTurnContract
<1>1. Init => Turns!Init
  BY InitTurns
<1>2. IInv /\ AttemptInv /\ [Next]_vars => [Turns!Next]_(Turns!vars)
  BY TurnStep
<1>3. QED BY <1>1, <1>2, Invariance, AttemptInvariance, PTL
          DEF Spec, KeepsTurnContract, Turns!SafeSpec

-----------------------------------------------------------------------------
(* The transcript.                                                          *)

\* The positions of a transcript at which one of some messages stands.
Marked(m, S) == {i \in DOMAIN m : m[i] \in S}

Says(r, role) == [run |-> r, role |-> role]
ReplyMessages == {y \in Message : y.role = "assistant"}

\* What the transcript of its conversation says of a row.
Shown(r, row, m) ==
  /\ row.status # "absent" =>
       /\ Cardinality(Marked(m, {Says(r, "user")})) = 1
       /\ Cardinality(Marked(m, {Says(r, "assistant")})) =
            IF row.status = "succeeded" THEN 1 ELSE 0
  /\ row.status \in Active => m # <<>> /\ m[Len(m)] = Says(r, "user")

\* What the transcript says of its own replies.
InOrder(m, version) ==
  /\ \A i \in Marked(m, ReplyMessages) : i > 1 /\ m[i - 1] = Says(m[i].run, "user")
  /\ version = 1 + Cardinality(Marked(m, ReplyMessages))

\* TranscriptInv, part by part.
LEMMA TranscriptParts ==
  TypeOK =>
    (TranscriptInv <=>
       /\ \A r \in RunIds : Shown(r, run[r], messages[run[r].conv])
       /\ \A c \in Conversations : InOrder(messages[c], conv[c].version)
       /\ \A c \in Conversations :
            \A i \in DOMAIN messages[c] : run[messages[c][i].run].conv = c)
<1> SUFFICES ASSUME TypeOK
             PROVE  TranscriptInv <=>
                      /\ \A r \in RunIds : Shown(r, run[r], messages[run[r].conv])
                      /\ \A c \in Conversations : InOrder(messages[c], conv[c].version)
                      /\ \A c \in Conversations :
                           \A i \in DOMAIN messages[c] : run[messages[c][i].run].conv = c
  OBVIOUS
<1>1. \A r \in RunIds, role \in {"user", "assistant"} :
         MessageCount(r, role) = Cardinality(Marked(messages[run[r].conv], {Says(r, role)}))
  <2> SUFFICES ASSUME NEW r \in RunIds, NEW role \in {"user", "assistant"}
               PROVE  {i \in DOMAIN messages[run[r].conv] :
                         messages[run[r].conv][i] = [run |-> r, role |-> role]}
                        = Marked(messages[run[r].conv], {Says(r, role)})
    BY DEF MessageCount
  <2>1. QED BY DEF Marked, Says
<1>2. \A c \in Conversations :
         {i \in DOMAIN messages[c] : messages[c][i].role = "assistant"}
           = Marked(messages[c], ReplyMessages)
  <2> SUFFICES ASSUME NEW c \in Conversations
               PROVE  {i \in DOMAIN messages[c] : messages[c][i].role = "assistant"}
                        = Marked(messages[c], ReplyMessages)
    OBVIOUS
  <2>1. messages[c] \in Seq(Message)
    BY DEF TypeOK
  <2>2. \A i \in DOMAIN messages[c] : messages[c][i] \in Message
    BY <2>1
  <2>3. QED BY <2>2 DEF Marked, ReplyMessages
<1>3. ASSUME NEW r \in RunIds
      PROVE  /\ MessageCount(r, "user")
                  = Cardinality(Marked(messages[run[r].conv], {Says(r, "user")}))
             /\ MessageCount(r, "assistant")
                  = Cardinality(Marked(messages[run[r].conv], {Says(r, "assistant")}))
  BY <1>1
<1>4. ASSUME NEW c \in Conversations
      PROVE  (LET m == messages[c]
                  replies == {i \in DOMAIN m : m[i].role = "assistant"}
              IN  /\ \A i \in replies :
                       i > 1 /\ m[i - 1] = [run |-> m[i].run, role |-> "user"]
                  /\ conv[c].version = 1 + Cardinality(replies))
             <=> InOrder(messages[c], conv[c].version)
  BY <1>2 DEF InOrder, Says
<1>5. TranscriptAnswersInOrder <=>
        /\ \A r \in RunIds :
             run[r].status # "absent" =>
               /\ Cardinality(Marked(messages[run[r].conv], {Says(r, "user")})) = 1
               /\ Cardinality(Marked(messages[run[r].conv], {Says(r, "assistant")})) =
                    IF run[r].status = "succeeded" THEN 1 ELSE 0
        /\ \A c \in Conversations : InOrder(messages[c], conv[c].version)
  BY <1>3, <1>4 DEF TranscriptAnswersInOrder
<1>6. QED BY <1>5 DEF TranscriptInv, Shown, Says

\* One more message is one more marked position, or none.
LEMMA AppendMarked ==
  ASSUME NEW T, NEW m \in Seq(T), NEW x \in T, NEW S
  PROVE  /\ IsFiniteSet(Marked(m, S)) /\ Cardinality(Marked(m, S)) \in Nat
         /\ x \in S => /\ Marked(Append(m, x), S) = Marked(m, S) \cup {Len(m) + 1}
                       /\ Cardinality(Marked(Append(m, x), S))
                            = Cardinality(Marked(m, S)) + 1
         /\ x \notin S => Marked(Append(m, x), S) = Marked(m, S)
<1>1. /\ Len(m) \in Nat /\ DOMAIN m = 1..Len(m)
      /\ DOMAIN Append(m, x) = 1..(Len(m) + 1)
      /\ Append(m, x)[Len(m) + 1] = x
      /\ \A i \in 1..Len(m) : Append(m, x)[i] = m[i]
  OBVIOUS
<1>2. IsFiniteSet(Marked(m, S)) /\ Cardinality(Marked(m, S)) \in Nat
  <2>1. IsFiniteSet(1..Len(m)) /\ Marked(m, S) \in SUBSET (1..Len(m))
    BY <1>1, FS_Interval DEF Marked
  <2>2. QED BY <2>1, FS_Subset, FS_CardinalityType
<1>3. ASSUME x \in S PROVE Marked(Append(m, x), S) = Marked(m, S) \cup {Len(m) + 1}
  BY <1>1, <1>3 DEF Marked
<1>4. ASSUME x \notin S PROVE Marked(Append(m, x), S) = Marked(m, S)
  BY <1>1, <1>4 DEF Marked
<1>5. Len(m) + 1 \notin Marked(m, S)
  BY <1>1 DEF Marked
<1>6. Cardinality(Marked(m, S) \cup {Len(m) + 1}) = Cardinality(Marked(m, S)) + 1
  BY <1>2, <1>5, FS_AddElement
<1>7. QED BY <1>2, <1>3, <1>4, <1>6

\* A message of another run, in a conversation where this one is not active,
\* does not change what the transcript says of this one.
LEMMA ShownStays ==
  ASSUME NEW r, NEW row, NEW m \in Seq(Message), NEW x \in Message,
         Shown(r, row, m), x.run # r, row.status \notin Active
  PROVE  Shown(r, row, Append(m, x))
<1>1. x \notin {Says(r, "user")} /\ x \notin {Says(r, "assistant")}
  BY DEF Says
<1>2. /\ Marked(Append(m, x), {Says(r, "user")}) = Marked(m, {Says(r, "user")})
      /\ Marked(Append(m, x), {Says(r, "assistant")}) = Marked(m, {Says(r, "assistant")})
  BY <1>1, AppendMarked
<1>3. QED BY <1>2 DEF Shown

\* The input of an accepted turn stands in no reply's place.
LEMMA InOrderAfterInput ==
  ASSUME NEW m \in Seq(Message), NEW r \in RunIds, NEW v, InOrder(m, v)
  PROVE  InOrder(Append(m, Says(r, "user")), v)
<1> DEFINE x == Says(r, "user")
<1>1. x \in Message /\ x \notin ReplyMessages
  BY DEF Message, Says, ReplyMessages
<1> HIDE DEF x
<1>2. Marked(Append(m, x), ReplyMessages) = Marked(m, ReplyMessages)
  BY <1>1, AppendMarked
<1>3. ASSUME NEW i \in Marked(m, ReplyMessages)
      PROVE  i > 1 /\ Append(m, x)[i - 1] = Says(Append(m, x)[i].run, "user")
  <2>1. i \in 1..Len(m) /\ i > 1 /\ m[i - 1] = Says(m[i].run, "user")
    BY <1>3 DEF InOrder, Marked
  <2>2. i - 1 \in 1..Len(m)
    BY <2>1
  <2>3. Append(m, x)[i - 1] = m[i - 1] /\ Append(m, x)[i] = m[i]
    BY <2>1, <2>2, <1>1
  <2>4. QED BY <2>1, <2>3
<1>4. QED BY <1>2, <1>3 DEF InOrder, x

\* A reply after the input it answers is in order, and one more version.
LEMMA InOrderAfterReply ==
  ASSUME NEW m \in Seq(Message), NEW r \in RunIds, NEW v, InOrder(m, v),
         m # <<>>, m[Len(m)] = Says(r, "user")
  PROVE  InOrder(Append(m, Says(r, "assistant")), v + 1)
<1> DEFINE x == Says(r, "assistant")
<1>1. x \in Message /\ x \in ReplyMessages /\ x.run = r
  BY DEF Message, Says, ReplyMessages
<1> HIDE DEF x
<1>2. /\ Marked(Append(m, x), ReplyMessages) = Marked(m, ReplyMessages) \cup {Len(m) + 1}
      /\ Cardinality(Marked(Append(m, x), ReplyMessages))
           = Cardinality(Marked(m, ReplyMessages)) + 1
      /\ Cardinality(Marked(m, ReplyMessages)) \in Nat
  BY <1>1, AppendMarked
<1>3. ASSUME NEW i \in Marked(m, ReplyMessages)
      PROVE  i > 1 /\ Append(m, x)[i - 1] = Says(Append(m, x)[i].run, "user")
  <2>1. i \in 1..Len(m) /\ i > 1 /\ m[i - 1] = Says(m[i].run, "user")
    BY <1>3 DEF InOrder, Marked
  <2>2. i - 1 \in 1..Len(m)
    BY <2>1
  <2>3. Append(m, x)[i - 1] = m[i - 1] /\ Append(m, x)[i] = m[i]
    BY <2>1, <2>2, <1>1
  <2>4. QED BY <2>1, <2>3
<1>4. ASSUME NEW i, i = Len(m) + 1
      PROVE  i > 1 /\ Append(m, x)[i - 1] = Says(Append(m, x)[i].run, "user")
  <2>1. Len(m) \in Nat /\ Len(m) > 0
    OBVIOUS
  <2>2. i > 1 /\ i - 1 = Len(m) /\ Len(m) \in 1..Len(m)
    BY <1>4, <2>1
  <2>3. Append(m, x)[i - 1] = m[Len(m)] /\ Append(m, x)[i] = x
    BY <1>1, <1>4, <2>2
  <2>4. QED BY <1>1, <2>2, <2>3
<1>5. v + 1 = 1 + Cardinality(Marked(Append(m, x), ReplyMessages))
  BY <1>2 DEF InOrder
<1>6. QED BY <1>2, <1>3, <1>4, <1>5 DEF InOrder, x

\* TranscriptInv after a step, part by part.
LEMMA TranscriptAfter ==
  ASSUME IInv',
         \A r \in RunIds : Shown(r, run'[r], messages'[run'[r].conv]),
         \A c \in Conversations : InOrder(messages'[c], conv'[c].version),
         \A c \in Conversations :
           \A i \in DOMAIN messages'[c] : run'[messages'[c][i].run].conv = c
  PROVE  TranscriptInv'
<1>1. TypeOK'
  BY DEF IInv
<1>2. (TypeOK =>
        (TranscriptInv <=>
           /\ \A r \in RunIds : Shown(r, run[r], messages[run[r].conv])
           /\ \A c \in Conversations : InOrder(messages[c], conv[c].version)
           /\ \A c \in Conversations :
                \A i \in DOMAIN messages[c] : run[messages[c][i].run].conv = c))'
  BY TranscriptParts, PTL
<1>3. QED BY <1>1, <1>2 DEF Shown, InOrder

\* A message is some run's.
LEMMA MessageRuns ==
  ASSUME TypeOK, NEW c \in Conversations, NEW i \in DOMAIN messages[c]
  PROVE  messages[c][i].run \in RunIds
<1>1. messages[c] \in Seq(Message)
  BY DEF TypeOK
<1>2. messages[c][i] \in Message
  BY <1>1
<1>3. QED BY <1>2 DEF Message

\* An empty database has an empty transcript.
LEMMA InitTranscript == Init => TranscriptInv
<1> SUFFICES ASSUME Init PROVE TranscriptInv
  OBVIOUS
<1>1. TypeOK
  BY InitIInv DEF IInv
<1>2. \A r \in RunIds : Shown(r, run[r], messages[run[r].conv])
  BY DEF Init, NoRun, Shown, Active
<1>3. \A c \in Conversations : messages[c] = <<>> /\ conv[c].version = 1
  BY DEF Init
<1>4. Marked(<<>>, ReplyMessages) = {}
  BY DEF Marked
<1>5. \A c \in Conversations : InOrder(messages[c], conv[c].version)
  <2>1. InOrder(<<>>, 1)
    BY <1>4, FS_EmptySet DEF InOrder
  <2>2. QED BY <1>3, <2>1
<1>6. QED BY <1>1, <1>2, <1>3, <1>5, TranscriptParts

\* Accepting a turn writes its one input.
LEMMA AcceptTurnTranscript ==
  ASSUME IInv, IInv', TranscriptInv, NEW c \in Conversations, NEW k \in Keys,
         NEW n \in RetryCounts, NEW q \in RunIds, AcceptTurn(c, k, n, q)
  PROVE  TranscriptInv'
<1> DEFINE row == [status |-> "pending", conv |-> c, key |-> k, retry |-> n,
                   accepted |-> conv[c].version, count |-> 0,
                   attempts |-> <<>>, cancel |-> FALSE, receipts |-> {}]
           x == Says(q, "user")
<1> USE RunLifecycleAssumption
<1>1. /\ run' = [run EXCEPT ![q] = row] /\ run[q].status = "absent"
      /\ messages' = [messages EXCEPT ![c] = Append(@, x)]
      /\ ActiveRuns(c) = {} /\ conv' = conv
  BY DEF AcceptTurn, Says
<1>2. row.status = "pending" /\ row.conv = c
  OBVIOUS
<1> HIDE DEF row
<1>3. /\ TypeOK /\ run \in [RunIds -> Run]
      /\ messages \in [Conversations -> Seq(Message)]
  BY DEF IInv, TypeOK
<1>4. /\ \A r \in RunIds : Shown(r, run[r], messages[run[r].conv])
      /\ \A d \in Conversations : InOrder(messages[d], conv[d].version)
      /\ \A d \in Conversations :
           \A i \in DOMAIN messages[d] : run[messages[d][i].run].conv = d
  BY <1>3, TranscriptParts
<1>5. x \in Message /\ x.run = q /\ x.role = "user"
  BY DEF Message, Says
<1>6. /\ run'[q] = row /\ \A r \in RunIds : r # q => run'[r] = run[r]
      /\ messages'[c] = Append(messages[c], x)
      /\ \A d \in Conversations : d # c => messages'[d] = messages[d]
      /\ messages[c] \in Seq(Message)
  BY <1>1, <1>3
<1>7. run[q].conv = Nil /\ Nil \notin Conversations
  BY <1>1 DEF IInv, RowsInv, NoRun
<1>8. \A i \in DOMAIN messages[c] : messages[c][i].run # q
  BY <1>4, <1>7
<1>9. ASSUME NEW r \in RunIds
      PROVE  Shown(r, run'[r], messages'[run'[r].conv])
  <2>1. CASE r = q
    <3>1. /\ Marked(messages[c], {Says(q, "user")}) = {}
          /\ Marked(messages[c], {Says(q, "assistant")}) = {}
      BY <1>8 DEF Marked, Says
    <3>2. x \notin {Says(q, "assistant")} /\ x \in {Says(q, "user")}
      BY DEF Says
    <3>3. /\ Cardinality(Marked(messages'[c], {Says(q, "user")})) = 1
          /\ Cardinality(Marked(messages'[c], {Says(q, "assistant")})) = 0
      <4>1. Cardinality(Marked(messages[c], {Says(q, "user")})) = 0
        BY <3>1, FS_EmptySet
      <4>2. PICK m \in Seq(Message) : m = messages[c]
        BY <1>6
      <4>3. Cardinality(Marked(Append(m, x), {Says(q, "user")}))
              = Cardinality(Marked(m, {Says(q, "user")})) + 1
        BY <1>5, <3>2, AppendMarked
      <4>4. Marked(Append(m, x), {Says(q, "assistant")}) = Marked(m, {Says(q, "assistant")})
        BY <1>5, <3>2, AppendMarked
      <4>5. messages'[c] = Append(m, x)
        BY <1>6, <4>2
      <4>6. Cardinality(Marked(Append(m, x), {Says(q, "user")})) = 1
        BY <4>1, <4>2, <4>3
      <4>7. Marked(Append(m, x), {Says(q, "assistant")}) = {}
        BY <3>1, <4>2, <4>4
      <4>8. QED BY <4>5, <4>6, <4>7, FS_EmptySet
    <3>4. messages'[c] # <<>> /\ messages'[c][Len(messages'[c])] = x
      BY <1>5, <1>6
    <3>5. QED BY <1>2, <1>6, <2>1, <3>3, <3>4 DEF Shown
  <2>2. CASE r # q /\ run[r].conv = c
    <3>1. run[r].status \notin Active
      BY <1>1, <2>2 DEF ActiveRuns, RunsOf
    <3>2. Shown(r, run[r], messages[c])
      BY <1>4, <2>2
    <3>3. Shown(r, run[r], Append(messages[c], x))
      BY <1>5, <1>6, <2>2, <3>1, <3>2, ShownStays
    <3>4. QED BY <1>6, <2>2, <3>3
  <2>3. CASE r # q /\ run[r].conv # c
    <3>1. messages'[run[r].conv] = messages[run[r].conv]
      BY <1>1, <1>3, <2>3
    <3>2. QED BY <1>4, <1>6, <2>3, <3>1
  <2>4. QED BY <2>1, <2>2, <2>3
<1>10. ASSUME NEW d \in Conversations
       PROVE  InOrder(messages'[d], conv'[d].version)
  BY <1>1, <1>4, <1>6, InOrderAfterInput
<1>11. ASSUME NEW d \in Conversations, NEW i \in DOMAIN messages'[d]
       PROVE  run'[messages'[d][i].run].conv = d
  <2>1. CASE d # c
    <3>1. i \in DOMAIN messages[d] /\ messages'[d][i] = messages[d][i]
      BY <1>6, <1>11, <2>1
    <3>2. run[messages[d][i].run].conv = d /\ messages[d][i].run \in RunIds
      BY <1>3, <1>4, <3>1, MessageRuns
    <3>3. QED BY <1>6, <1>7, <3>1, <3>2
  <2>2. CASE d = c /\ i \in DOMAIN messages[c]
    <3>1. messages'[c][i] = messages[c][i]
      BY <1>5, <1>6, <2>2
    <3>2. run[messages[c][i].run].conv = c /\ messages[c][i].run \in RunIds
      BY <1>3, <1>4, <2>2, MessageRuns
    <3>3. QED BY <1>6, <1>8, <2>2, <3>1, <3>2
  <2>3. CASE d = c /\ i \notin DOMAIN messages[c]
    <3>1. messages'[c][i] = x
      BY <1>5, <1>6, <1>11, <2>3
    <3>2. QED BY <1>2, <1>5, <1>6, <2>3, <3>1
  <2>4. QED BY <2>1, <2>2, <2>3
<1>12. QED BY <1>9, <1>10, <1>11, TranscriptAfter

\* Committing a reply puts it after the input it answers.
LEMMA CommitTranscript ==
  ASSUME IInv, IInv', AttemptInv, TranscriptInv, NEW w \in Workers, CommitSuccess(w)
  PROVE  TranscriptInv'
<1> DEFINE q == proc[w].run
           c == run[q].conv
           row == [run[q] EXCEPT !.attempts[proc[w].open] = "succeeded",
                                 !.status = "succeeded"]
           x == Says(q, "assistant")
<1>1. /\ Owns(w) /\ run[q].status = "running" /\ Committable(q)
      /\ run' = [run EXCEPT ![q] = row]
      /\ messages' = [messages EXCEPT ![c] = Append(@, x)]
      /\ conv' = [conv EXCEPT ![c] = [@ EXCEPT !.version = run[q].accepted + 1]]
  BY DEF CommitSuccess, Executable, Says
<1>2. q \in RunIds /\ run[q] \in Run /\ c \in Conversations
  BY <1>1, OwnerFacts
<1>3. row.conv = c /\ row.status = "succeeded"
  BY <1>2 DEF Run
<1> HIDE DEF row, q, c
<1>4. /\ TypeOK /\ run \in [RunIds -> Run]
      /\ messages \in [Conversations -> Seq(Message)]
      /\ conv \in [Conversations -> [version : Nat, archived : BOOLEAN]]
  BY DEF IInv, TypeOK
<1>5. /\ \A r \in RunIds : Shown(r, run[r], messages[run[r].conv])
      /\ \A d \in Conversations : InOrder(messages[d], conv[d].version)
      /\ \A d \in Conversations :
           \A i \in DOMAIN messages[d] : run[messages[d][i].run].conv = d
  BY <1>4, TranscriptParts
<1>6. x \in Message /\ x.run = q
  BY <1>2 DEF Message, Says
<1>7. /\ run'[q] = row /\ \A r \in RunIds : r # q => run'[r] = run[r]
      /\ messages'[c] = Append(messages[c], x)
      /\ \A d \in Conversations : d # c => messages'[d] = messages[d]
      /\ messages[c] \in Seq(Message)
  BY <1>1, <1>2, <1>4
<1>8. \A r \in RunIds : run'[r].conv = run[r].conv
  BY <1>2, <1>3, <1>7 DEF c
<1>9. run[q].conv = c /\ Shown(q, run[q], messages[c])
  BY <1>2, <1>5 DEF c
<1>10. /\ Cardinality(Marked(messages[c], {Says(q, "user")})) = 1
       /\ Cardinality(Marked(messages[c], {Says(q, "assistant")})) = 0
       /\ messages[c] # <<>> /\ messages[c][Len(messages[c])] = Says(q, "user")
  BY <1>1, <1>9 DEF Shown, Active
<1>11. ASSUME NEW r \in RunIds
       PROVE  Shown(r, run'[r], messages'[run'[r].conv])
  <2>1. CASE r = q
    <3>1. x \in {Says(q, "assistant")} /\ x \notin {Says(q, "user")}
      BY DEF Says
    <3>2. /\ Cardinality(Marked(messages'[c], {Says(q, "user")})) = 1
          /\ Cardinality(Marked(messages'[c], {Says(q, "assistant")})) = 1
      BY <1>6, <1>7, <1>10, <3>1, AppendMarked
    <3>3. QED BY <1>3, <1>7, <2>1, <3>2 DEF Shown, Active
  <2>2. CASE r # q /\ run[r].conv = c
    <3>1. run[r].status \notin Active
      BY <1>1, <1>2, <1>9, <2>2, RunLifecycleAssumption DEF IInv, OneActiveRun, Active
    <3>2. Shown(r, run[r], messages[c])
      BY <1>5, <2>2
    <3>3. QED BY <1>6, <1>7, <2>2, <3>1, <3>2, ShownStays
  <2>3. CASE r # q /\ run[r].conv # c
    <3>1. messages'[run[r].conv] = messages[run[r].conv]
      BY <1>1, <1>4, <2>3
    <3>2. QED BY <1>5, <1>7, <2>3, <3>1
  <2>4. QED BY <2>1, <2>2, <2>3
<1>12. ASSUME NEW d \in Conversations
       PROVE  InOrder(messages'[d], conv'[d].version)
  <2>1. CASE d = c
    <3>1. conv'[c].version = conv[c].version + 1
      BY <1>1, <1>2, <1>4, <1>9 DEF Committable
    <3>2. QED BY <1>2, <1>5, <1>7, <1>10, <2>1, <3>1, InOrderAfterReply
  <2>2. CASE d # c
    BY <1>1, <1>4, <1>5, <1>7, <2>2
  <2>3. QED BY <2>1, <2>2
<1>13. ASSUME NEW d \in Conversations, NEW i \in DOMAIN messages'[d]
       PROVE  run'[messages'[d][i].run].conv = d
  <2>1. CASE d # c
    <3>1. i \in DOMAIN messages[d] /\ messages'[d][i] = messages[d][i]
      BY <1>7, <1>13, <2>1
    <3>2. run[messages[d][i].run].conv = d /\ messages[d][i].run \in RunIds
      BY <1>4, <1>5, <3>1, MessageRuns
    <3>3. QED BY <1>8, <3>1, <3>2
  <2>2. CASE d = c /\ i \in DOMAIN messages[c]
    <3>1. messages'[c][i] = messages[c][i]
      BY <1>6, <1>7, <2>2
    <3>2. run[messages[c][i].run].conv = c /\ messages[c][i].run \in RunIds
      BY <1>2, <1>4, <1>5, <2>2, MessageRuns
    <3>3. QED BY <1>8, <2>2, <3>1, <3>2
  <2>3. CASE d = c /\ i \notin DOMAIN messages[c]
    <3>1. messages'[c][i] = x
      BY <1>6, <1>7, <1>13, <2>3
    <3>2. QED BY <1>2, <1>3, <1>6, <1>7, <2>3, <3>1
  <2>4. QED BY <2>1, <2>2, <2>3
<1>14. QED BY <1>11, <1>12, <1>13, TranscriptAfter

\* A conversation's version counts its replies: nothing else changes it.
LEMMA VersionsStay ==
  ASSUME IInv, [Next]_vars
  PROVE  \/ \E w \in Workers : CommitSuccess(w)
         \/ \A c \in Conversations : conv'[c].version = conv[c].version
<1>1. conv \in [Conversations -> [version : Nat, archived : BOOLEAN]]
  BY DEF IInv, TypeOK
<1>2. CASE Requests
  <2>1. ASSUME NEW c \in Conversations,
               ArchiveConversation(c) \/ RestoreConversation(c)
        PROVE  \A d \in Conversations : conv'[d].version = conv[d].version
    BY <1>1, <2>1 DEF ArchiveConversation, RestoreConversation
  <2>2. QED BY <1>2, <2>1 DEF Requests, AcceptTurn, CancelRun, RetrySavedInput,
                              ArchiveSubject, RestoreSubject
<1>3. ASSUME NEW w \in Workers, Claim(w) PROVE conv' = conv
  BY <1>3 DEF Claim, ClaimAndCancel, ClaimAndExhaust, ClaimAndStart
<1>4. ASSUME NEW w \in Workers, Work(w) PROVE CommitSuccess(w) \/ conv' = conv
  BY <1>4 DEF Work, StartAttempt, StartRefused, AttemptFails, ExecutionLosesLease,
              ScheduleRetry, BackoffElapses, BackoffInterrupted, CommitRefused,
              FinishUnsuccessful, FinishSettled, FinishEscapes, Exit, RunUntouched
<1>5. CASE Environment
  BY <1>5 DEF Environment, OrphanExpires, HeldLeaseExpires, Crash, RequestStop,
              Restart, RunUntouched
<1>6. CASE UNCHANGED vars
  BY <1>6 DEF vars
<1>7. QED BY <1>2, <1>3, <1>4, <1>5, <1>6 DEF Next

\* A row that is moved keeps what the transcript says of it.
LEMMA MovedShown ==
  ASSUME NEW r, NEW old, NEW new, NEW m, Moved(old, new), Shown(r, old, m)
  PROVE  Shown(r, new, m)
<1>1. /\ new.status = "absent" <=> old.status = "absent"
      /\ new.status = "succeeded" <=> old.status = "succeeded"
      /\ new.status \in Active => old.status \in Active
  BY DEF Moved, Active
<1>2. QED BY <1>1 DEF Shown

\* Moving a row changes no transcript.
LEMMA MoveTranscript ==
  ASSUME IInv, IInv', TranscriptInv, messages' = messages,
         \A c \in Conversations : conv'[c].version = conv[c].version,
         run' = run \/ \E q \in RunIds : MovesOne(q)
  PROVE  TranscriptInv'
<1>1. TypeOK /\ run \in [RunIds -> Run] /\ messages \in [Conversations -> Seq(Message)]
  BY DEF IInv, TypeOK
<1>2. /\ \A r \in RunIds : Shown(r, run[r], messages[run[r].conv])
      /\ \A d \in Conversations : InOrder(messages[d], conv[d].version)
      /\ \A d \in Conversations :
           \A i \in DOMAIN messages[d] : run[messages[d][i].run].conv = d
  BY <1>1, TranscriptParts
<1>3. ASSUME NEW r \in RunIds
      PROVE  /\ run'[r].conv = run[r].conv
             /\ Shown(r, run'[r], messages[run[r].conv])
  <2>1. CASE run'[r] = run[r]
    BY <1>2, <2>1
  <2>2. CASE Moved(run[r], run'[r])
    BY <1>2, <2>2, MovedShown DEF Moved
  <2>3. run'[r] = run[r] \/ Moved(run[r], run'[r])
    BY <1>1 DEF MovesOne
  <2>4. QED BY <2>1, <2>2, <2>3
<1>4. \A d \in Conversations :
        \A i \in DOMAIN messages[d] : messages[d][i].run \in RunIds
  BY <1>1, MessageRuns
<1>5. QED BY <1>2, <1>3, <1>4, TranscriptAfter

\* The transcript invariant is inductive.
THEOREM TranscriptInvInductive ==
  IInv /\ IInv' /\ AttemptInv /\ TranscriptInv /\ [Next]_vars => TranscriptInv'
<1> SUFFICES ASSUME IInv, IInv', AttemptInv, TranscriptInv, [Next]_vars
             PROVE  TranscriptInv'
  OBVIOUS
<1>1. ASSUME NEW c \in Conversations, NEW k \in Keys, NEW n \in RetryCounts,
             NEW q \in RunIds, AcceptTurn(c, k, n, q)
      PROVE  TranscriptInv'
  BY <1>1, AcceptTurnTranscript
<1>2. ASSUME NEW w \in Workers, CommitSuccess(w)
      PROVE  TranscriptInv'
  BY <1>2, CommitTranscript
<1>3. CASE \A c \in Conversations : conv'[c].version = conv[c].version
  BY <1>1, <1>2, <1>3, TurnMoves, MoveTranscript
<1>4. QED BY <1>2, <1>3, VersionsStay

\* Every accepted run has exactly one input in the transcript, a reply exactly
\* if it succeeded and directly after that input, and the conversation's version
\* counts the replies.
THEOREM TranscriptIsFaithful == Spec => []TranscriptAnswersInOrder
<1>1. TranscriptInv => TranscriptAnswersInOrder
  BY DEF TranscriptInv
<1>2. QED BY <1>1, InitTranscript, TranscriptInvInductive, Invariance,
             AttemptInvariance, PTL DEF Spec

=============================================================================

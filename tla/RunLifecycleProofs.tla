------------------------- MODULE RunLifecycleProofs -------------------------
(* The safety properties of RunLifecycle, for all values of its constants. *)
EXTENDS RunLifecycle, SequenceTheorems, TLAPS

\* Functions on 1..n are the sequences of length n.
LEMMA IsSeq ==
  ASSUME NEW S, NEW n \in Nat, NEW s \in [1..n -> S]
  PROVE  s \in Seq(S)
  BY SeqDef

\* A sequence with one element overwritten is still a sequence of such elements.
LEMMA OverwriteType ==
  ASSUME NEW S, NEW s \in Seq(S), NEW i, NEW v \in S
  PROVE  [s EXCEPT ![i] = v] \in Seq(S)
<1>1. Len(s) \in Nat /\ s \in [1..Len(s) -> S]
  OBVIOUS
<1>2. [s EXCEPT ![i] = v] \in [1..Len(s) -> S]
  BY <1>1
<1>3. QED BY <1>1, <1>2, IsSeq

\* CloseOpen keeps the shape of the attempts, whatever status it closes with.
LEMMA CloseOpenType ==
  ASSUME NEW a \in Seq(AttemptStatus), NEW st \in AttemptStatus
  PROVE  CloseOpen(a, st) \in Seq(AttemptStatus)
<1>1. PICK n \in Nat : a \in [1..n -> AttemptStatus]
  BY SeqDef
<1>2. CloseOpen(a, st) \in [1..n -> AttemptStatus]
  BY <1>1 DEF CloseOpen
<1> QED BY <1>1, <1>2, SeqDef

\* attempt_base is a number as soon as the receipts have a latest one.
LEMMA AttemptBaseType ==
  ASSUME NEW r \in RunIds, RowsInv, TypeOK
  PROVE  AttemptBase(r) \in Nat
<1> DEFINE E == ExpectedCounts(run[r].receipts)
<1>1. E \subseteq Nat
  BY DEF TypeOK, Run, ExpectedCounts
<1>2. PICK b \in E : \A e \in E : b >= e
  BY DEF RowsInv, HasLatest
<1>3. Max(E) \in E
  BY <1>2 DEF Max
<1> QED BY <1>1, <1>3 DEF AttemptBase

\* A run without receipts has the budget of its first input.
LEMMA NoReceipts == HasLatest({})
  BY DEF HasLatest, ExpectedCounts

\* One more receipt: the later of it and the latest so far.
LEMMA OneMoreReceipt ==
  ASSUME NEW R, NEW k, NEW n \in Nat, HasLatest(R),
         ExpectedCounts(R) \subseteq Nat
  PROVE  HasLatest(R \cup {[key |-> k, expected |-> n]})
<1> DEFINE Q == R \cup {[key |-> k, expected |-> n]}
<1> SUFFICES HasLatest(Q)
  OBVIOUS
<1>1. /\ n \in ExpectedCounts(Q)
      /\ \A e \in ExpectedCounts(Q) : e = n \/ e \in ExpectedCounts(R)
      /\ ExpectedCounts(R) \subseteq ExpectedCounts(Q)
  <2>1. \A x : x \in Q <=> x \in R \/ x = [key |-> k, expected |-> n]
    OBVIOUS
  <2>2. [key |-> k, expected |-> n].expected = n
    OBVIOUS
  <2> HIDE DEF Q
  <2>3. QED BY <2>1, <2>2 DEF ExpectedCounts
<1> HIDE DEF Q
<1>2. PICK b \in ExpectedCounts(R) : \A e \in ExpectedCounts(R) : b >= e
  BY DEF HasLatest
<1>3. CASE b >= n
  BY <1>1, <1>2, <1>3 DEF HasLatest
<1>4. CASE ~(b >= n)
  <2>1. \A e \in ExpectedCounts(Q) : n >= e
    <3>1. b \in Nat /\ ~(b >= n)
      BY <1>2, <1>4
    <3>2. \A e \in ExpectedCounts(R) : e \in Nat /\ b >= e
      BY <1>2
    <3>3. \A e \in ExpectedCounts(R) : n >= e
      BY <3>1, <3>2
    <3>4. QED BY <1>1, <3>3
  <2>2. QED BY <1>1, <2>1 DEF HasLatest
<1>5. QED BY <1>3, <1>4

\* An empty database with idle workers satisfies the invariant.
THEOREM InitIInv == Init => IInv
<1> SUFFICES ASSUME Init PROVE IInv
  OBVIOUS
<1> USE RunLifecycleAssumption
<1>1. TypeOK
  <2>1. NoRun \in Run
    BY DEF NoRun, Run, RunStatus
  <2>2. NoLease \in Lease
    BY DEF NoLease, Lease
  <2>3. Idle \in Proc
    BY DEF Idle, Process, Proc, Step
  <2> QED BY <2>1, <2>2, <2>3 DEF Init, TypeOK
<1>2. RowsInv
  BY NoReceipts DEF Init, RowsInv, NoRun
<1>3. ProcsInv
  BY DEF Init, ProcsInv, ProcOK, Idle, Process
<1>4. CancelInv
  BY DEF Init, CancelInv, NoRun
<1>5. LeaseMatchesRun
  BY DEF Init, LeaseMatchesRun, NoRun, NoLease
<1>6. OneActiveRun
  BY DEF Init, OneActiveRun, NoRun
<1>7. ActiveRunStaysCommittable
  BY DEF Init, ActiveRunStaysCommittable, NoRun, Active
<1> QED BY <1>1, <1>2, <1>3, <1>4, <1>5, <1>6, <1>7 DEF IInv

-----------------------------------------------------------------------------
(* API transactions.                                                       *)

\* A turn is accepted only into a conversation with no active run, under its
\* placeholder lease and against the version that is current.
LEMMA AcceptTurnStep ==
  ASSUME IInv, NEW c \in Conversations, NEW k \in Keys, NEW n \in RetryCounts,
         NEW r \in RunIds, AcceptTurn(c, k, n, r)
  PROVE  IInv'
<1> DEFINE row == [status |-> "pending", conv |-> c, key |-> k, retry |-> n,
                   accepted |-> conv[c].version, count |-> 0,
                   attempts |-> <<>>, cancel |-> FALSE, receipts |-> {}]
           message == [run |-> r, role |-> "user"]
<1> USE RunLifecycleAssumption
<1>1. /\ TypeOK /\ RowsInv /\ ProcsInv /\ CancelInv
      /\ LeaseMatchesRun /\ OneActiveRun /\ ActiveRunStaysCommittable
  BY DEF IInv
<1>2. /\ run' = [run EXCEPT ![r] = row]
      /\ messages' = [messages EXCEPT ![c] = Append(@, message)]
      /\ lease' = [lease EXCEPT ![c] = Placeholder(r)]
      /\ UNCHANGED <<conv, subject, proc, stopping, faults>>
  BY DEF AcceptTurn
<1>3. /\ ~conv[c].archived /\ ~subject[SubjectOf[c]]
      /\ \A q \in RunIds : run[q].conv = c => run[q].key # k /\ run[q].status \notin Active
  BY DEF AcceptTurn, RunsOf, ActiveRuns
<1>4. run[r].status = "absent" /\ run[r].conv = Nil
  BY <1>1 DEF AcceptTurn, RowsInv, NoRun
<1>5. TypeOK'
  <2>1. row \in Run
    BY <1>1 DEF TypeOK, Run, RunStatus, Active
  <2>2. Placeholder(r) \in Lease
    BY DEF Placeholder, Lease
  <2>3. message \in Message
    BY DEF Message
  <2> HIDE DEF row, message
  <2>4. QED BY <1>1, <1>2, <2>1, <2>2, <2>3 DEF TypeOK
<1>6. RowsInv'
  BY <1>1, <1>2, NoReceipts DEF RowsInv, TypeOK
<1>7. ProcsInv'
  BY <1>1, <1>2 DEF ProcsInv, ProcOK, TypeOK
<1>8. CancelInv'
  BY <1>1, <1>2 DEF CancelInv, TypeOK
<1>9. LeaseMatchesRun'
  <2>1. \A d \in Conversations : d # c => lease[d].run # r
    BY <1>1, <1>4 DEF LeaseMatchesRun
  <2>2. \A q \in RunIds : LET l == lease'[run'[q].conv]
                          IN  /\ run'[q].status = "pending" => l = Placeholder(q)
                              /\ run'[q].status = "running" => l.run = q /\ l.token \in Tokens
    <3> SUFFICES ASSUME NEW q \in RunIds
                 PROVE  /\ run'[q].status = "pending" => lease'[run'[q].conv] = Placeholder(q)
                        /\ run'[q].status = "running" => /\ lease'[run'[q].conv].run = q
                                                         /\ lease'[run'[q].conv].token \in Tokens
      OBVIOUS
    <3>1. CASE q = r
      BY <1>1, <1>2, <3>1 DEF TypeOK
    <3>2. CASE q # r
      BY <1>1, <1>2, <1>3, <3>2 DEF LeaseMatchesRun, TypeOK, RowsInv, Active
    <3>3. QED BY <3>1, <3>2
  <2>3. \A d \in Conversations :
          lease'[d].run # Nil => /\ run'[lease'[d].run].conv = d
                                 /\ run'[lease'[d].run].status \in {"pending", "running"}
    BY <1>1, <1>2, <2>1 DEF LeaseMatchesRun, TypeOK, Placeholder, Lease
  <2>4. QED BY <2>2, <2>3 DEF LeaseMatchesRun, Placeholder
<1>10. OneActiveRun'
  BY <1>1, <1>2, <1>3 DEF OneActiveRun, TypeOK
<1>11. ActiveRunStaysCommittable'
  BY <1>1, <1>2, <1>3 DEF ActiveRunStaysCommittable, Committable, TypeOK
<1>12. QED BY <1>5, <1>6, <1>7, <1>8, <1>9, <1>10, <1>11 DEF IInv

-----------------------------------------------------------------------------
(* Three shapes of step cover all other transactions.                      *)

\* A worker process takes a new record p; the rows it may know only grow.
LEMMA ProcUpdate ==
  ASSUME TypeOK, ProcsInv, NEW w \in Workers, NEW p \in Proc,
         proc' = [proc EXCEPT ![w] = p], ProcOK(p),
         \A q \in RunIds : run[q].status # "absent" => run'[q].status # "absent"
  PROVE  proc' \in [Workers -> Proc] /\ ProcsInv'
<1>1. proc' \in [Workers -> Proc]
  BY DEF TypeOK
<1>2. ASSUME NEW v \in Workers PROVE ProcOK(proc[v])'
  <2>1. CASE v = w
    BY <2>1 DEF ProcOK, TypeOK
  <2>2. CASE v # w
    BY <2>2 DEF ProcOK, ProcsInv, TypeOK
  <2>3. QED BY <2>1, <2>2
<1>3. QED BY <1>1, <1>2 DEF ProcsInv

\* No row disappears and no process moves: what processes know stays true.
LEMMA ProcsKept ==
  ASSUME ProcsInv, proc' = proc,
         \A q \in RunIds : run[q].status # "absent" => run'[q].status # "absent"
  PROVE  ProcsInv'
<1>1. ASSUME NEW v \in Workers PROVE ProcOK(proc[v])'
  <2>1. ProcOK(proc[v])
    BY DEF ProcsInv
  <2>2. QED BY <2>1 DEF ProcOK
<1>2. QED BY <1>1 DEF ProcsInv

\* Only processes and the fault counter move.
LEMMA ProcStep ==
  ASSUME IInv, UNCHANGED <<conv, subject, run, lease, messages>>,
         proc' \in [Workers -> Proc], ProcsInv',
         stopping' \in [Workers -> BOOLEAN], faults' \in 0..MaxFaults
  PROVE  IInv'
<1>1. /\ TypeOK /\ RowsInv /\ CancelInv
      /\ LeaseMatchesRun /\ OneActiveRun /\ ActiveRunStaysCommittable
  BY DEF IInv
<1>2. TypeOK'
  BY <1>1 DEF TypeOK
<1>3. RowsInv' /\ CancelInv' /\ OneActiveRun'
  BY <1>1 DEF RowsInv, CancelInv, OneActiveRun
<1>4. LeaseMatchesRun'
  BY <1>1 DEF LeaseMatchesRun
<1>5. ActiveRunStaysCommittable'
  BY <1>1 DEF ActiveRunStaysCommittable, Committable
<1>6. QED BY <1>2, <1>3, <1>4, <1>5 DEF IInv

\* One run row and its conversation's lease change together, and the
\* conversation itself only when the run ends with it.
LEMMA RowStep ==
  ASSUME IInv, NEW r \in RunIds, NEW l \in Lease,
         run[r].status \in Active,
         run' \in [RunIds -> Run],
         \A q \in RunIds : q # r => run'[q] = run[q],
         run'[r].status # "absent", run'[r].conv = run[r].conv,
         run'[r].key = run[r].key, run'[r].accepted = run[r].accepted,
         run'[r].cancel => run'[r].status \in {"running", "cancelled"},
         HasLatest(run'[r].receipts),
         lease[run[r].conv].run \in {Nil, r},
         \/ run'[r].status = "pending" /\ l = Placeholder(r)
         \/ run'[r].status = "running" /\ l.run = r /\ l.token \in Tokens
         \/ run'[r].status \notin {"pending", "running"} /\ l.run = Nil,
         lease' = [lease EXCEPT ![run[r].conv] = l],
         subject' = subject,
         conv' \in [Conversations -> [version : Nat, archived : BOOLEAN]],
         \A d \in Conversations :
           conv'[d] = conv[d] \/ (d = run[r].conv /\ run'[r].status \notin Active),
         messages' \in [Conversations -> Seq(Message)],
         proc' \in [Workers -> Proc], ProcsInv',
         stopping' \in [Workers -> BOOLEAN], faults' \in 0..MaxFaults
  PROVE  IInv'
<1> DEFINE c == run[r].conv
           row == run'[r]
<1> USE RunLifecycleAssumption
<1>1. /\ TypeOK /\ RowsInv /\ ProcsInv /\ CancelInv
      /\ LeaseMatchesRun /\ OneActiveRun /\ ActiveRunStaysCommittable
  BY DEF IInv
<1>2. c \in Conversations
  BY <1>1 DEF RowsInv, Active
<1>3. ASSUME NEW q \in RunIds, q # r, run[q].conv = c
      PROVE  run[q].status \notin Active
  <2>1. run[q].conv = run[r].conv /\ run[q].conv # Nil
    BY <1>2, <1>3
  <2>2. ~(run[q].status \in Active /\ run[r].status \in Active)
    BY <1>1, <1>3, <2>1 DEF OneActiveRun
  <2>3. QED BY <2>2
<1>4. TypeOK'
  BY <1>1 DEF TypeOK
<1>5. RowsInv'
  BY <1>1, <1>2 DEF RowsInv, TypeOK
<1>6. CancelInv'
  BY <1>1 DEF CancelInv, TypeOK
<1>7. LeaseMatchesRun'
  <2>1. ASSUME NEW q \in RunIds
        PROVE  /\ run'[q].status = "pending" => lease'[run'[q].conv] = Placeholder(q)
               /\ run'[q].status = "running" => /\ lease'[run'[q].conv].run = q
                                                /\ lease'[run'[q].conv].token \in Tokens
    <3>1. CASE q = r
      BY <1>1, <1>2, <3>1 DEF TypeOK
    <3>2. CASE q # r
      BY <1>1, <1>2, <1>3, <3>2 DEF LeaseMatchesRun, TypeOK, RowsInv, Active
    <3>3. QED BY <3>1, <3>2
  <2>2. ASSUME NEW d \in Conversations, lease'[d].run # Nil
        PROVE  /\ run'[lease'[d].run].conv = d
               /\ run'[lease'[d].run].status \in {"pending", "running"}
    <3>1. CASE d = c
      BY <1>1, <1>2, <2>2, <3>1 DEF TypeOK, Placeholder, NoLease
    <3>2. CASE d # c
      <4>1. lease'[d] = lease[d] /\ lease[d].run \in RunIds
        BY <1>1, <2>2, <3>2 DEF TypeOK, Lease
      <4>2. /\ run[lease[d].run].conv = d /\ lease[d].run # r
            /\ run[lease[d].run].status \in {"pending", "running"}
        BY <1>1, <2>2, <3>2, <4>1 DEF LeaseMatchesRun
      <4>3. run'[lease[d].run] = run[lease[d].run]
        BY <4>1, <4>2
      <4>4. QED BY <4>1, <4>2, <4>3
    <3>3. QED BY <3>1, <3>2
  <2>3. QED BY <2>1, <2>2 DEF LeaseMatchesRun, Placeholder
<1>8. OneActiveRun'
  BY <1>1 DEF OneActiveRun, TypeOK
<1>9. ActiveRunStaysCommittable'
  <2>1. ASSUME NEW q \in RunIds, run'[q].status \in Active
        PROVE  Committable(q)'
    <3>1. /\ run[q].status \in Active
          /\ run'[q].conv = run[q].conv /\ run'[q].accepted = run[q].accepted
      BY <1>1, <2>1 DEF TypeOK
    <3>2. Committable(q)
      BY <1>1, <3>1 DEF ActiveRunStaysCommittable
    <3>3. run[q].conv \in Conversations
      BY <1>1, <3>1 DEF RowsInv, Active
    <3>4. conv'[run[q].conv] = conv[run[q].conv]
      <4>1. CASE q = r
        BY <1>1, <2>1, <3>3, <4>1 DEF TypeOK
      <4>2. CASE q # r /\ row.status \notin Active /\ run[q].conv = c
        BY <1>3, <3>1, <4>2
      <4>3. CASE q # r /\ (row.status \in Active \/ run[q].conv # c)
        BY <3>3, <4>3
      <4>4. QED BY <4>1, <4>2, <4>3
    <3>5. QED BY <3>1, <3>2, <3>4 DEF Committable
  <2>2. QED BY <2>1 DEF ActiveRunStaysCommittable
<1>10. QED BY <1>4, <1>5, <1>6, <1>7, <1>8, <1>9 DEF IInv

-----------------------------------------------------------------------------
(* The other API transactions.                                             *)

\* An active run is in a conversation, whose lease is its own or nobody's.
LEMMA ActiveRow ==
  ASSUME IInv, NEW r \in RunIds, run[r].status \in Active
  PROVE  /\ run[r] \in Run /\ run[r].conv \in Conversations
         /\ HasLatest(run[r].receipts)
         /\ run[r].status # "absent"
         /\ lease[run[r].conv].run \in {Nil, r}
<1> USE RunLifecycleAssumption
<1>1. TypeOK /\ RowsInv /\ LeaseMatchesRun /\ OneActiveRun
  BY DEF IInv
<1>2. /\ run[r] \in Run /\ run[r].conv \in Conversations
      /\ HasLatest(run[r].receipts) /\ run[r].status # "absent"
  BY <1>1 DEF TypeOK, RowsInv, Active
<1>3. ASSUME lease[run[r].conv].run # Nil, lease[run[r].conv].run # r
      PROVE  FALSE
  <2> DEFINE q == lease[run[r].conv].run
  <2>1. q \in RunIds
    BY <1>1, <1>2, <1>3 DEF TypeOK, Lease
  <2>2. run[q].conv = run[r].conv /\ run[q].status \in Active
    BY <1>1, <1>2, <1>3 DEF LeaseMatchesRun, Active
  <2>3. QED BY <1>1, <1>2, <1>3, <2>1, <2>2 DEF OneActiveRun
<1>4. QED BY <1>2, <1>3

\* The row of a running run changes, and it goes on running under its lease.
LEMMA RunningRowStep ==
  ASSUME IInv, NEW r \in RunIds, run[r].status = "running",
         run' \in [RunIds -> Run],
         \A q \in RunIds : q # r => run'[q] = run[q],
         run'[r].status = "running", run'[r].conv = run[r].conv,
         run'[r].key = run[r].key, run'[r].accepted = run[r].accepted,
         run'[r].receipts = run[r].receipts,
         UNCHANGED <<conv, subject, lease, messages>>,
         proc' \in [Workers -> Proc], ProcsInv',
         stopping' \in [Workers -> BOOLEAN], faults' \in 0..MaxFaults
  PROVE  IInv'
<1> DEFINE l == lease[run[r].conv]
<1>1. /\ TypeOK /\ RowsInv /\ LeaseMatchesRun
  BY DEF IInv
<1>2. run[r].status \in Active
  BY DEF Active
<1>3. run[r].conv \in Conversations /\ HasLatest(run[r].receipts)
  BY <1>1 DEF RowsInv
<1>4. l.run = r /\ l.token \in Tokens
  BY <1>1 DEF LeaseMatchesRun
<1>5. l \in Lease /\ lease' = [lease EXCEPT ![run[r].conv] = l]
  BY <1>1, <1>3 DEF TypeOK
<1>6. lease[run[r].conv].run \in {Nil, r}
  BY <1>4
<1> HIDE DEF l
<1>7. /\ conv' \in [Conversations -> [version : Nat, archived : BOOLEAN]]
      /\ messages' \in [Conversations -> Seq(Message)]
      /\ \A d \in Conversations : conv'[d] = conv[d]
  BY <1>1 DEF TypeOK
<1>8. QED BY <1>2, <1>3, <1>4, <1>5, <1>6, <1>7, RowStep

\* Cancelling a waiting run takes its placeholder along; a running one keeps
\* its lease.
LEMMA CancelRunStep ==
  ASSUME IInv, NEW r \in RunIds, CancelRun(r)
  PROVE  IInv'
<1> USE RunLifecycleAssumption
<1>1. TypeOK /\ RowsInv /\ ProcsInv /\ LeaseMatchesRun
  BY DEF IInv
<1>2. run[r].status \in Active /\ UNCHANGED <<conv, subject, messages, proc, stopping, faults>>
  BY DEF CancelRun
<1>3. /\ run[r] \in Run /\ run[r].conv \in Conversations
      /\ HasLatest(run[r].receipts)
      /\ lease[run[r].conv].run \in {Nil, r}
  BY <1>2, ActiveRow
<1>4. CASE run[r].status = "running"
  <2> DEFINE row == [run[r] EXCEPT !.cancel = TRUE]
  <2>1. run' = [run EXCEPT ![r] = row] /\ lease' = lease
    BY <1>4 DEF CancelRun
  <2>9. /\ row \in Run /\ row.status = run[r].status
        /\ row.conv = run[r].conv /\ row.key = run[r].key
        /\ row.accepted = run[r].accepted /\ row.receipts = run[r].receipts
    BY <1>3 DEF Run
  <2> HIDE DEF row
  <2>2. /\ run' \in [RunIds -> Run]
        /\ \A q \in RunIds : q # r => run'[q] = run[q]
        /\ run'[r].status = run[r].status /\ run'[r].conv = run[r].conv
        /\ run'[r].key = run[r].key /\ run'[r].accepted = run[r].accepted
        /\ run'[r].receipts = run[r].receipts
    BY <1>1, <2>1, <2>9 DEF TypeOK
  <2>3. \A q \in RunIds : run[q].status # "absent" => run'[q].status # "absent"
    BY <2>2
  <2>4. ProcsInv'
    BY <1>1, <1>2, <2>3, ProcsKept
  <2>5. QED BY <1>1, <1>2, <1>4, <2>1, <2>2, <2>4, RunningRowStep DEF TypeOK
<1>5. CASE run[r].status # "running"
  <2> DEFINE row == [run[r] EXCEPT !.cancel = TRUE, !.status = "cancelled"]
  <2>1. /\ run' = [run EXCEPT ![r] = row]
        /\ lease' = [c \in Conversations |->
                         IF lease[c].run = r THEN NoLease ELSE lease[c]]
    BY <1>5 DEF CancelRun
  <2>9. /\ row \in Run /\ row.status = "cancelled"
        /\ row.conv = run[r].conv /\ row.key = run[r].key
        /\ row.accepted = run[r].accepted /\ row.receipts = run[r].receipts
    BY <1>3 DEF Run, RunStatus, Terminal
  <2> HIDE DEF row
  <2>2. /\ run' \in [RunIds -> Run]
        /\ \A q \in RunIds : q # r => run'[q] = run[q]
        /\ run'[r].status = "cancelled" /\ run'[r].conv = run[r].conv
        /\ run'[r].key = run[r].key /\ run'[r].accepted = run[r].accepted
        /\ run'[r].receipts = run[r].receipts
    BY <1>1, <2>1, <2>9 DEF TypeOK
  <2> DEFINE l == IF lease[run[r].conv].run = r THEN NoLease
                                              ELSE lease[run[r].conv]
  <2>3. l \in Lease /\ l.run = Nil
    BY <1>1, <1>3 DEF TypeOK, NoLease, Lease
  <2>5. \A d \in Conversations : d # run[r].conv => lease[d].run # r
    BY <1>1, <1>2 DEF LeaseMatchesRun
  <2>6. lease' = [lease EXCEPT ![run[r].conv] = l]
    BY <1>1, <1>3, <2>1, <2>5 DEF TypeOK
  <2>10. \A q \in RunIds : run[q].status # "absent" => run'[q].status # "absent"
    BY <2>2
  <2>7. ProcsInv'
    BY <1>1, <1>2, <2>10, ProcsKept
  <2> HIDE DEF l
  <2>8. QED BY <1>1, <1>2, <1>3, <2>2, <2>3, <2>6, <2>7, RowStep DEF TypeOK
<1>6. QED BY <1>4, <1>5

\* A Retry puts the run back under a placeholder, still against the version
\* it was accepted against.
LEMMA RetrySavedInputStep ==
  ASSUME IInv, NEW r \in RunIds, NEW k \in RetryKeys,
         RetrySavedInput(r, k, run[r].count)
  PROVE  IInv'
<1> DEFINE receipt == [key |-> k, expected |-> run[r].count]
           row == [run[r] EXCEPT !.status = "pending",
                                 !.receipts = run[r].receipts \cup {receipt}]
<1> USE RunLifecycleAssumption
<1>1. TypeOK /\ RowsInv /\ ProcsInv /\ CancelInv
  BY DEF IInv
<1>2. /\ run[r].status = "paused"
      /\ run' = [run EXCEPT ![r] = row]
      /\ lease' = [lease EXCEPT ![run[r].conv] = Placeholder(r)]
      /\ UNCHANGED <<conv, subject, messages, proc, stopping, faults>>
  BY DEF RetrySavedInput
<1>3. run[r].status \in Active
  BY <1>2 DEF Active
<1>4. /\ run[r] \in Run /\ run[r].conv \in Conversations
      /\ HasLatest(run[r].receipts)
      /\ lease[run[r].conv].run \in {Nil, r}
  BY <1>3, ActiveRow
<1>5. HasLatest(run[r].receipts \cup {receipt})
  <2>1. run[r].count \in Nat /\ ExpectedCounts(run[r].receipts) \subseteq Nat
    BY <1>4 DEF Run, ExpectedCounts
  <2>2. QED BY <1>4, <2>1, OneMoreReceipt
<1>6. /\ run' \in [RunIds -> Run]
      /\ \A q \in RunIds : q # r => run'[q] = run[q]
      /\ run'[r].status = "pending" /\ run'[r].conv = run[r].conv
      /\ run'[r].key = run[r].key /\ run'[r].accepted = run[r].accepted
      /\ run'[r].receipts = run[r].receipts \cup {receipt}
      /\ run'[r].cancel = run[r].cancel
  <2>1. receipt \in [key : RetryKeys, expected : Nat]
    BY <1>4 DEF Run
  <2> HIDE DEF receipt
  <2>2. /\ row \in Run /\ row.status = "pending" /\ row.cancel = run[r].cancel
        /\ row.conv = run[r].conv /\ row.key = run[r].key
        /\ row.accepted = run[r].accepted
        /\ row.receipts = run[r].receipts \cup {receipt}
    BY <1>4, <2>1 DEF Run, RunStatus, Active
  <2> HIDE DEF row
  <2>3. QED BY <1>1, <1>2, <2>2 DEF TypeOK
<1>7. ~run'[r].cancel
  BY <1>1, <1>2, <1>6 DEF CancelInv
<1>8. Placeholder(r) \in Lease
  BY DEF Placeholder, Lease
<1>13. \A q \in RunIds : run[q].status # "absent" => run'[q].status # "absent"
  BY <1>6
<1>9. ProcsInv'
  BY <1>1, <1>2, <1>13, ProcsKept
<1> HIDE DEF receipt, row
<1>10. /\ conv' \in [Conversations -> [version : Nat, archived : BOOLEAN]]
       /\ messages' \in [Conversations -> Seq(Message)]
       /\ proc' \in [Workers -> Proc]
       /\ stopping' \in [Workers -> BOOLEAN] /\ faults' \in 0..MaxFaults
       /\ subject' = subject /\ conv' = conv
  BY <1>1, <1>2 DEF TypeOK
<1>11. /\ run'[r].status # "absent"
       /\ run'[r].cancel => run'[r].status \in {"running", "cancelled"}
       /\ HasLatest(run'[r].receipts)
  BY <1>5, <1>6, <1>7
<1>12. QED BY <1>2, <1>3, <1>4, <1>6, <1>8, <1>9, <1>10, <1>11, RowStep

\* Archiving touches only conversations without an active run.
LEMMA ArchiveConversationStep ==
  ASSUME IInv, NEW c \in Conversations, ArchiveConversation(c)
  PROVE  IInv'
<1>1. /\ TypeOK /\ RowsInv /\ ProcsInv /\ CancelInv
      /\ LeaseMatchesRun /\ OneActiveRun /\ ActiveRunStaysCommittable
  BY DEF IInv
<1>2. /\ conv' = [conv EXCEPT ![c] = [@ EXCEPT !.archived = TRUE]]
      /\ UNCHANGED <<subject, run, lease, messages, proc, stopping, faults>>
      /\ \A r \in RunIds : run[r].conv = c => run[r].status \notin Active
  BY DEF ArchiveConversation, ActiveRuns, RunsOf
<1>3. TypeOK'
  BY <1>1, <1>2 DEF TypeOK
<1>4. RowsInv' /\ ProcsInv' /\ CancelInv' /\ OneActiveRun'
  BY <1>1, <1>2 DEF RowsInv, ProcsInv, ProcOK, CancelInv, OneActiveRun
<1>5. LeaseMatchesRun'
  BY <1>1, <1>2 DEF LeaseMatchesRun
<1>6. ActiveRunStaysCommittable'
  BY <1>1, <1>2 DEF ActiveRunStaysCommittable, Committable, RowsInv, TypeOK, Active
<1>7. QED BY <1>3, <1>4, <1>5, <1>6 DEF IInv

\* Restoring can only help: what was committable stays so.
LEMMA RestoreStep ==
  ASSUME IInv, UNCHANGED <<run, lease, messages, proc, stopping, faults>>,
         conv' \in [Conversations -> [version : Nat, archived : BOOLEAN]],
         subject' \in [Subjects -> BOOLEAN],
         \A c \in Conversations : /\ conv'[c].version = conv[c].version
                                  /\ conv'[c].archived => conv[c].archived,
         \A s \in Subjects : subject'[s] => subject[s]
  PROVE  IInv'
<1> USE RunLifecycleAssumption
<1>1. /\ TypeOK /\ RowsInv /\ ProcsInv /\ CancelInv
      /\ LeaseMatchesRun /\ OneActiveRun /\ ActiveRunStaysCommittable
  BY DEF IInv
<1>3. TypeOK'
  BY <1>1 DEF TypeOK
<1>4. RowsInv' /\ ProcsInv' /\ CancelInv' /\ OneActiveRun'
  BY <1>1 DEF RowsInv, ProcsInv, ProcOK, CancelInv, OneActiveRun
<1>5. LeaseMatchesRun'
  BY <1>1 DEF LeaseMatchesRun
<1>6. ActiveRunStaysCommittable'
  BY <1>1 DEF ActiveRunStaysCommittable, Committable, RowsInv, Active
<1>7. QED BY <1>3, <1>4, <1>5, <1>6 DEF IInv

\* unarchive_conversation keeps the invariant.
LEMMA RestoreConversationStep ==
  ASSUME IInv, NEW c \in Conversations, RestoreConversation(c)
  PROVE  IInv'
<1>1. TypeOK
  BY DEF IInv
<1>2. /\ conv' = [conv EXCEPT ![c] = [@ EXCEPT !.archived = FALSE]]
      /\ UNCHANGED <<subject, run, lease, messages, proc, stopping, faults>>
  BY DEF RestoreConversation
<1>3. /\ conv' \in [Conversations -> [version : Nat, archived : BOOLEAN]]
      /\ \A d \in Conversations : /\ conv'[d].version = conv[d].version
                                  /\ conv'[d].archived => conv[d].archived
  BY <1>1, <1>2 DEF TypeOK
<1>4. QED BY <1>1, <1>2, <1>3, RestoreStep DEF TypeOK

\* unarchive_subject keeps the invariant.
LEMMA RestoreSubjectStep ==
  ASSUME IInv, NEW s \in Subjects, RestoreSubject(s)
  PROVE  IInv'
<1>1. TypeOK
  BY DEF IInv
<1>2. /\ subject' = [subject EXCEPT ![s] = FALSE]
      /\ UNCHANGED <<conv, run, lease, messages, proc, stopping, faults>>
  BY DEF RestoreSubject
<1>3. subject' \in [Subjects -> BOOLEAN] /\ \A x \in Subjects : subject'[x] => subject[x]
  BY <1>1, <1>2, Zenon DEF TypeOK
<1>4. QED BY <1>1, <1>2, <1>3, RestoreStep DEF TypeOK

\* A subject is archived only when all its conversations are.
LEMMA ArchiveSubjectStep ==
  ASSUME IInv, NEW s \in Subjects, ArchiveSubject(s)
  PROVE  IInv'
<1> USE RunLifecycleAssumption
<1>1. /\ TypeOK /\ RowsInv /\ ProcsInv /\ CancelInv
      /\ LeaseMatchesRun /\ OneActiveRun /\ ActiveRunStaysCommittable
  BY DEF IInv
<1>2. /\ subject' = [subject EXCEPT ![s] = TRUE]
      /\ UNCHANGED <<conv, run, lease, messages, proc, stopping, faults>>
      /\ \A c \in Conversations : SubjectOf[c] = s => conv[c].archived
  BY DEF ArchiveSubject
<1>3. TypeOK'
  BY <1>1, <1>2 DEF TypeOK
<1>4. RowsInv' /\ ProcsInv' /\ CancelInv' /\ OneActiveRun'
  BY <1>1, <1>2 DEF RowsInv, ProcsInv, ProcOK, CancelInv, OneActiveRun
<1>5. LeaseMatchesRun'
  BY <1>1, <1>2 DEF LeaseMatchesRun
<1>6. ActiveRunStaysCommittable'
  BY <1>1, <1>2 DEF ActiveRunStaysCommittable, Committable, RowsInv, TypeOK, Active
<1>7. QED BY <1>3, <1>4, <1>5, <1>6 DEF IInv

-----------------------------------------------------------------------------
(* Steps that settle a run or hand it back, by a claimer or by its owner.   *)

\* A run leaves "running" or "pending" for good or for its user, and its
\* lease goes with it.
LEMMA SettleStep ==
  ASSUME IInv, NEW r \in RunIds, NEW row \in Run, run[r].status \in Active,
         run' = [run EXCEPT ![r] = row],
         row.status \in Terminal \cup {"paused"}, row.conv = run[r].conv,
         row.key = run[r].key, row.accepted = run[r].accepted,
         row.receipts = run[r].receipts,
         row.cancel => row.status = "cancelled",
         lease' = [lease EXCEPT ![run[r].conv] = NoLease],
         subject' = subject,
         conv' \in [Conversations -> [version : Nat, archived : BOOLEAN]],
         \A d \in Conversations :
           conv'[d] = conv[d] \/ (d = run[r].conv /\ row.status # "paused"),
         messages' \in [Conversations -> Seq(Message)],
         UNCHANGED <<stopping, faults>>,
         proc' = proc \/ \E w \in Workers : proc' = [proc EXCEPT ![w] = Idle]
  PROVE  IInv'
<1> USE RunLifecycleAssumption
<1>1. TypeOK /\ ProcsInv
  BY DEF IInv
<1>2. /\ run[r].conv \in Conversations /\ HasLatest(run[r].receipts)
      /\ lease[run[r].conv].run \in {Nil, r}
  BY ActiveRow
<1>3. /\ run' \in [RunIds -> Run] /\ run'[r] = row
      /\ \A q \in RunIds : q # r => run'[q] = run[q]
  BY <1>1 DEF TypeOK
<1>4. row.status \notin {"absent", "pending", "running"}
      /\ (row.status # "paused" => row.status \notin Active)
  BY DEF Terminal, Active
<1>5. \A q \in RunIds : run[q].status # "absent" => run'[q].status # "absent"
  BY <1>3, <1>4
<1>6. proc' \in [Workers -> Proc] /\ ProcsInv'
  <2>1. CASE proc' = proc
    BY <1>1, <1>5, <2>1 DEF TypeOK, ProcsInv, ProcOK
  <2>2. ASSUME NEW w \in Workers, proc' = [proc EXCEPT ![w] = Idle]
        PROVE  proc' \in [Workers -> Proc] /\ ProcsInv'
    <3>1. Idle \in Proc /\ ProcOK(Idle)
      BY DEF Idle, Process, Proc, Step, ProcOK
    <3>2. QED BY <1>1, <1>5, <2>2, <3>1, ProcUpdate
  <2>3. QED BY <2>1, <2>2
<1>7. NoLease \in Lease /\ NoLease.run = Nil
  BY DEF NoLease, Lease
<1>8. stopping' \in [Workers -> BOOLEAN] /\ faults' \in 0..MaxFaults
  BY <1>1 DEF TypeOK
<1>9. HasLatest(run'[r].receipts)
  BY <1>2, <1>3
<1>10. QED BY <1>2, <1>3, <1>4, <1>6, <1>7, <1>8, <1>9, RowStep

\* What a claimer knows of the run it takes.
LEMMA ClaimedRow ==
  ASSUME IInv, NEW w \in Workers, NEW r \in RunIds, Claiming(w, r)
  PROVE  /\ run[r] \in Run /\ run[r].status \in Active
         /\ run[r].conv \in Conversations
         /\ HasLatest(run[r].receipts)
         /\ lease[run[r].conv].run = r
         /\ Claimed(r) \in Seq(AttemptStatus)
         /\ AttemptBase(r) \in Nat
<1>1. TypeOK /\ RowsInv /\ LeaseMatchesRun
  BY DEF IInv
<1>2. run[r].status \in {"pending", "running"}
  BY DEF Claiming, Claimable, Abandoned
<1>3. run[r].status \in Active
  BY <1>2 DEF Active
<1>4. /\ run[r] \in Run /\ run[r].conv \in Conversations
      /\ HasLatest(run[r].receipts)
  BY <1>3, ActiveRow
<1>5. lease[run[r].conv].run = r
  <2>1. Placeholder(r).run = r
    BY DEF Placeholder
  <2>2. QED BY <1>1, <1>2, <2>1 DEF LeaseMatchesRun
<1>6. Claimed(r) \in Seq(AttemptStatus)
  <2>1. run[r].attempts \in Seq(AttemptStatus) /\ "failed" \in AttemptStatus
    BY <1>4 DEF Run, AttemptStatus
  <2>2. QED BY <2>1, CloseOpenType DEF Claimed
<1>7. AttemptBase(r) \in Nat
  BY <1>1, AttemptBaseType
<1>8. QED BY <1>3, <1>4, <1>5, <1>6, <1>7

\* The claimer ends a run that is cancelled or out of budget.
LEMMA ClaimEndsStep ==
  ASSUME IInv, NEW w \in Workers, NEW r \in RunIds, Claiming(w, r),
         NEW st \in {"cancelled", "failed"}, run[r].cancel => st = "cancelled",
         run' = [run EXCEPT ![r] =
                   [@ EXCEPT !.status = st, !.attempts = Claimed(r)]],
         lease' = [lease EXCEPT ![run[r].conv] = NoLease],
         UNCHANGED <<conv, subject, messages, proc, stopping, faults>>
  PROVE  IInv'
<1> DEFINE row == [run[r] EXCEPT !.status = st, !.attempts = Claimed(r)]
<1>1. TypeOK
  BY DEF IInv
<1>2. /\ run[r] \in Run /\ run[r].status \in Active
      /\ Claimed(r) \in Seq(AttemptStatus)
  BY ClaimedRow
<1>3. run' = [run EXCEPT ![r] = row]
  OBVIOUS
<1>4. /\ row \in Run /\ row.status = st
      /\ row.conv = run[r].conv /\ row.key = run[r].key
      /\ row.accepted = run[r].accepted /\ row.receipts = run[r].receipts
      /\ row.cancel = run[r].cancel
  BY <1>2 DEF Run, RunStatus, Terminal
<1> HIDE DEF row
<1>5. /\ row.status \in Terminal \cup {"paused"}
      /\ row.cancel => row.status = "cancelled"
  BY <1>4 DEF Terminal
<1>6. /\ conv' \in [Conversations -> [version : Nat, archived : BOOLEAN]]
      /\ messages' \in [Conversations -> Seq(Message)]
      /\ conv' = conv /\ proc' = proc /\ subject' = subject
  BY <1>1 DEF TypeOK
<1>7. QED BY <1>2, <1>3, <1>4, <1>5, <1>6, SettleStep

\* A claim turns the placeholder, or the expired lease, into the worker's own.
LEMMA ClaimAndStartStep ==
  ASSUME IInv, NEW w \in Workers, NEW r \in RunIds, NEW t \in Tokens,
         ClaimAndStart(w, r, t)
  PROVE  IInv'
<1> DEFINE row == [run[r] EXCEPT !.status = "running", !.attempts = Claimed(r)]
           remaining == run[r].retry - (run[r].count - AttemptBase(r))
           p == [pc |-> IF remaining < 0 THEN "finishing" ELSE "starting",
                 run |-> r, token |-> t, prior |-> run[r].count,
                 base |-> AttemptBase(r), local |-> 1, open |-> 0,
                 exc |-> IF remaining < 0 THEN "fatal" ELSE Nil]
           l == [run |-> r, token |-> t, live |-> TRUE]
<1>1. TypeOK /\ ProcsInv
  BY DEF IInv
<1>2. /\ Claiming(w, r) /\ ~run[r].cancel
      /\ run' = [run EXCEPT ![r] = row]
      /\ lease' = [lease EXCEPT ![run[r].conv] = l]
      /\ proc' = [proc EXCEPT ![w] = p]
      /\ UNCHANGED <<conv, subject, messages, stopping, faults>>
  BY DEF ClaimAndStart
<1>3. /\ run[r] \in Run /\ run[r].status \in Active
      /\ HasLatest(run[r].receipts)
      /\ lease[run[r].conv].run = r
      /\ Claimed(r) \in Seq(AttemptStatus)
      /\ AttemptBase(r) \in Nat
  BY <1>2, ClaimedRow
<1>4. /\ row \in Run /\ row.status = "running"
      /\ row.conv = run[r].conv /\ row.key = run[r].key
      /\ row.accepted = run[r].accepted /\ row.receipts = run[r].receipts
  BY <1>3 DEF Run, RunStatus, Active
<1>5. l \in Lease /\ l.run = r /\ l.token \in Tokens
  BY DEF Lease
<1>6. p \in Proc /\ p.run = r /\ p.token \in Tokens /\ p.pc \notin {"idle", "down"}
  <2>1. run[r].count \in Nat
    BY <1>3 DEF Run
  <2>2. CASE remaining < 0
    BY <1>3, <2>1, <2>2 DEF Proc, Step, Outcome
  <2>3. CASE ~(remaining < 0)
    BY <1>3, <2>1, <2>3 DEF Proc, Step, Outcome
  <2>4. QED BY <2>2, <2>3
<1> HIDE DEF row, p, l
<1>7. /\ run' \in [RunIds -> Run] /\ run'[r] = row
      /\ \A q \in RunIds : q # r => run'[q] = run[q]
  BY <1>1, <1>2, <1>4 DEF TypeOK
<1>8. \A q \in RunIds : run[q].status # "absent" => run'[q].status # "absent"
  BY <1>4, <1>7
<1>9. run[r].status # "absent"
  BY <1>3 DEF Active
<1>10. proc' \in [Workers -> Proc] /\ ProcsInv'
  <2>1. ProcOK(p)
    BY <1>6, <1>9 DEF ProcOK
  <2>2. QED BY <1>1, <1>2, <1>6, <1>8, <2>1, ProcUpdate
<1>11. /\ conv' \in [Conversations -> [version : Nat, archived : BOOLEAN]]
       /\ messages' \in [Conversations -> Seq(Message)]
       /\ stopping' \in [Workers -> BOOLEAN] /\ faults' \in 0..MaxFaults
       /\ subject' = subject /\ conv' = conv
  BY <1>1, <1>2 DEF TypeOK
<1>12. HasLatest(run'[r].receipts)
  BY <1>3, <1>4, <1>7
<1>13. QED BY <1>2, <1>3, <1>4, <1>5, <1>7, <1>10, <1>11, <1>12, RowStep

-----------------------------------------------------------------------------
(* Steps of a worker inside its claim.                                      *)

\* What owning the lease tells a worker about the run it works on.
LEMMA OwnerRow ==
  ASSUME IInv, NEW w \in Workers, proc[w].pc \notin {"idle", "down"}, Owns(w)
  PROVE  LET r == proc[w].run
         IN  /\ r \in RunIds /\ run[r] \in Run
             /\ run[r].status = "running"
             /\ run[r].conv \in Conversations
             /\ lease[run[r].conv].run = r
             /\ lease[run[r].conv] =
                  [run |-> r, token |-> proc[w].token, live |-> TRUE]
<1> DEFINE r == proc[w].run
<1> USE RunLifecycleAssumption
<1>1. TypeOK /\ RowsInv /\ ProcsInv /\ LeaseMatchesRun
  BY DEF IInv
<1>2. r \in RunIds /\ proc[w].token \in Tokens
  BY <1>1 DEF ProcsInv, ProcOK
<1>3. PICK c \in Conversations :
        lease[c] = [run |-> r, token |-> proc[w].token, live |-> TRUE]
  BY DEF Owns
<1>4. run[r].conv = c /\ run[r].status \in {"pending", "running"}
  BY <1>1, <1>2, <1>3 DEF LeaseMatchesRun
<1>5. run[r].status # "pending"
  <2>1. lease[c].live /\ ~Placeholder(r).live
    BY <1>3 DEF Placeholder
  <2>2. run[r].status = "pending" => lease[c] = Placeholder(r)
    BY <1>1, <1>2, <1>4 DEF LeaseMatchesRun
  <2>3. QED BY <2>1, <2>2
<1>6. run[r] \in Run
  BY <1>1, <1>2 DEF TypeOK
<1>7. QED BY <1>2, <1>3, <1>4, <1>5, <1>6

\* Only the process of one worker changes, to a record p it may have.
LEMMA ProcessStep ==
  ASSUME IInv, NEW w \in Workers, NEW p \in Proc, ProcOK(p),
         proc' = [proc EXCEPT ![w] = p],
         UNCHANGED <<conv, subject, run, lease, messages>>,
         stopping' \in [Workers -> BOOLEAN], faults' \in 0..MaxFaults
  PROVE  IInv'
<1>1. TypeOK /\ ProcsInv
  BY DEF IInv
<1>2. proc' \in [Workers -> Proc] /\ ProcsInv'
  BY <1>1, ProcUpdate
<1>3. QED BY <1>2, ProcStep

\* The process drops its claim, or is gone.
LEMMA DropStep ==
  ASSUME IInv, NEW w \in Workers, NEW p \in {Idle, Down},
         proc' = [proc EXCEPT ![w] = p],
         UNCHANGED <<conv, subject, run, lease, messages>>,
         stopping' \in [Workers -> BOOLEAN], faults' \in 0..MaxFaults
  PROVE  IInv'
<1>1. p \in Proc
  BY DEF Idle, Down, Process, Proc, Step
<1>2. ProcOK(p)
  BY DEF Idle, Down, Process, ProcOK
<1>3. QED BY <1>1, <1>2, ProcessStep

\* The claim's coroutine goes on to another step.
LEMMA GotoStep ==
  ASSUME IInv, NEW w \in Workers, proc[w].pc \notin {"idle", "down"},
         NEW pc \in Step \ {"idle", "down"}, NEW exc \in Outcome \cup {Nil},
         Goto(w, pc, exc), RunUntouched, NoFault
  PROVE  IInv'
<1> DEFINE p == [proc[w] EXCEPT !.pc = pc, !.exc = exc]
<1>1. TypeOK /\ ProcsInv
  BY DEF IInv
<1>2. proc' = [proc EXCEPT ![w] = p]
  BY DEF Goto
<1>3. /\ p \in Proc /\ p.pc = pc
      /\ p.run = proc[w].run /\ p.token = proc[w].token
  <2>1. proc[w] \in Proc
    BY <1>1 DEF TypeOK
  <2>2. QED BY <2>1 DEF Proc
<1> HIDE DEF p
<1>4. ProcOK(p)
  BY <1>1, <1>3 DEF ProcsInv, ProcOK
<1>5. /\ UNCHANGED <<conv, subject, run, lease, messages>>
      /\ stopping' \in [Workers -> BOOLEAN] /\ faults' \in 0..MaxFaults
  BY <1>1 DEF RunUntouched, NoFault, TypeOK
<1>6. QED BY <1>2, <1>3, <1>4, <1>5, ProcessStep

\* LeaseLost, or nothing left to do.
LEMMA LeaveStep ==
  ASSUME IInv, NEW w \in Workers, Leave(w), RunUntouched, NoFault
  PROVE  IInv'
<1>1. TypeOK
  BY DEF IInv
<1>2. /\ proc' = [proc EXCEPT ![w] = Idle]
      /\ UNCHANGED <<conv, subject, run, lease, messages>>
      /\ stopping' \in [Workers -> BOOLEAN] /\ faults' \in 0..MaxFaults
  BY <1>1 DEF Leave, RunUntouched, NoFault, TypeOK
<1>3. QED BY <1>2, DropStep

\* The owner writes the attempts of its run, which goes on running.
LEMMA AttemptStep ==
  ASSUME IInv, NEW w \in Workers, proc[w].pc \notin {"idle", "down"}, Owns(w),
         NEW row \in Run, NEW p \in Proc,
         run' = [run EXCEPT ![proc[w].run] = row],
         row.status = "running", row.conv = run[proc[w].run].conv,
         row.key = run[proc[w].run].key,
         row.accepted = run[proc[w].run].accepted,
         row.receipts = run[proc[w].run].receipts,
         proc' = [proc EXCEPT ![w] = p],
         p.pc \notin {"idle", "down"}, p.run = proc[w].run,
         p.token = proc[w].token,
         UNCHANGED <<conv, subject, lease, messages, stopping, faults>>
  PROVE  IInv'
<1> DEFINE r == proc[w].run
<1>1. TypeOK /\ ProcsInv /\ LeaseMatchesRun
  BY DEF IInv
<1>2. /\ r \in RunIds /\ run[r].status = "running"
      /\ run[r].conv \in Conversations
      /\ lease[run[r].conv].run = r
  BY OwnerRow
<1>3. run[r].status \in Active
  BY <1>2 DEF Active
<1>4. HasLatest(run[r].receipts)
  BY <1>2, <1>3, ActiveRow
<1>5. /\ run' \in [RunIds -> Run] /\ run'[r] = row
      /\ \A q \in RunIds : q # r => run'[q] = run[q]
  BY <1>1, <1>2 DEF TypeOK
<1>6. \A q \in RunIds : run[q].status # "absent" => run'[q].status # "absent"
  BY <1>5
<1>7. proc' \in [Workers -> Proc] /\ ProcsInv'
  <2>1. ProcOK(p)
    BY <1>1 DEF ProcsInv, ProcOK
  <2>2. QED BY <1>1, <1>6, <2>1, ProcUpdate
<1>8. /\ run'[r].status = "running" /\ run'[r].conv = run[r].conv
      /\ run'[r].key = run[r].key /\ run'[r].accepted = run[r].accepted
      /\ run'[r].receipts = run[r].receipts
  BY <1>5
<1>9. stopping' \in [Workers -> BOOLEAN] /\ faults' \in 0..MaxFaults
  BY <1>1 DEF TypeOK
<1>10. QED BY <1>2, <1>5, <1>7, <1>8, <1>9, RunningRowStep

\* start_attempt by the owner.
LEMMA StartAttemptStep ==
  ASSUME IInv, NEW w \in Workers, StartAttempt(w)
  PROVE  IInv'
<1> DEFINE r == proc[w].run
           number == proc[w].prior + proc[w].local
           row == [run[r] EXCEPT !.count = number,
                                 !.attempts = Append(run[r].attempts, "running")]
           p == [proc[w] EXCEPT !.pc = "executing", !.open = number]
<1>1. TypeOK
  BY DEF IInv
<1>2. /\ proc[w].pc \notin {"idle", "down"} /\ Owns(w)
      /\ run' = [run EXCEPT ![r] = row] /\ proc' = [proc EXCEPT ![w] = p]
      /\ UNCHANGED <<conv, subject, lease, messages, stopping, faults>>
  BY DEF StartAttempt, NoFault
<1>3. run[r] \in Run /\ run[r].status = "running"
  BY <1>2, OwnerRow
<1>4. proc[w] \in Proc
  BY <1>1 DEF TypeOK
<1>5. number \in Nat
  BY <1>4 DEF Proc
<1>6. Append(run[r].attempts, "running") \in Seq(AttemptStatus)
  BY <1>3 DEF Run, AttemptStatus
<1> HIDE DEF number
<1>7. /\ row \in Run /\ row.status = "running" /\ row.conv = run[r].conv
      /\ row.key = run[r].key /\ row.accepted = run[r].accepted
      /\ row.receipts = run[r].receipts
  BY <1>3, <1>5, <1>6 DEF Run
<1>8. /\ p \in Proc /\ p.pc = "executing"
      /\ p.run = proc[w].run /\ p.token = proc[w].token
  BY <1>4, <1>5 DEF Proc, Step
<1> HIDE DEF row, p
<1>9. QED BY <1>2, <1>7, <1>8, AttemptStep

\* finish_attempt_failure by the owner, or LeaseLost.
LEMMA AttemptFailsStep ==
  ASSUME IInv, NEW w \in Workers,
         NEW exc \in {"retryable", "fatal", "lookup", "cancelled"},
         AttemptFails(w, exc)
  PROVE  IInv'
<1> DEFINE r == proc[w].run
           st == IF exc = "cancelled" THEN "cancelled" ELSE "failed"
           pc == IF exc = "retryable" /\ proc[w].local <= Remaining(w)
                 THEN "retrying" ELSE "finishing"
           row == [run[r] EXCEPT !.attempts[proc[w].open] = st]
           p == [proc[w] EXCEPT !.pc = pc, !.open = 0, !.exc = exc]
<1>1. TypeOK
  BY DEF IInv
<1>2. /\ proc[w].pc \notin {"idle", "down"} /\ Owns(w)
      /\ run' = [run EXCEPT ![r] = row] /\ proc' = [proc EXCEPT ![w] = p]
      /\ UNCHANGED <<conv, subject, lease, messages, stopping, faults>>
  BY DEF AttemptFails, NoFault
<1>3. run[r] \in Run /\ run[r].status = "running"
  BY <1>2, OwnerRow
<1>4. proc[w] \in Proc
  BY <1>1 DEF TypeOK
<1>5. [run[r].attempts EXCEPT ![proc[w].open] = st] \in Seq(AttemptStatus)
  BY <1>3, OverwriteType DEF Run, AttemptStatus
<1>6. pc \in Step \ {"idle", "down"}
  BY DEF Step
<1> HIDE DEF st, pc
<1>7. /\ row \in Run /\ row.status = "running" /\ row.conv = run[r].conv
      /\ row.key = run[r].key /\ row.accepted = run[r].accepted
      /\ row.receipts = run[r].receipts
  BY <1>3, <1>5 DEF Run
<1>8. /\ p \in Proc /\ p.pc = pc
      /\ p.run = proc[w].run /\ p.token = proc[w].token
  BY <1>4, <1>6 DEF Proc, Outcome
<1> HIDE DEF row, p
<1>9. QED BY <1>2, <1>6, <1>7, <1>8, AttemptStep

\* Refusals and interruptions: another step of the coroutine, or LeaseLost.
LEMMA DetourStep ==
  ASSUME IInv, NEW w \in Workers,
         \/ StartRefused(w) \/ ExecutionLosesLease(w) \/ ScheduleRetry(w)
         \/ BackoffInterrupted(w) \/ CommitRefused(w) \/ FinishSettled(w)
  PROVE  IInv'
<1>1. RunUntouched /\ NoFault /\ proc[w].pc \notin {"idle", "down"}
  BY DEF StartRefused, ExecutionLosesLease, ScheduleRetry, BackoffInterrupted,
         CommitRefused, FinishSettled
<1>2. \/ Leave(w) \/ Goto(w, "backoff", Nil)
      \/ \E exc \in {"draining", "cancelled", "fatal"} : Goto(w, "finishing", exc)
  BY DEF StartRefused, ExecutionLosesLease, ScheduleRetry, BackoffInterrupted,
         CommitRefused, FinishSettled
<1>3. CASE Leave(w)
  BY <1>1, <1>3, LeaveStep
<1>4. CASE Goto(w, "backoff", Nil)
  BY <1>1, <1>4, GotoStep DEF Step
<1>5. ASSUME NEW exc \in {"draining", "cancelled", "fatal"},
             Goto(w, "finishing", exc)
      PROVE  IInv'
  <2>1. "finishing" \in Step \ {"idle", "down"} /\ exc \in Outcome \cup {Nil}
    BY DEF Step, Outcome
  <2>2. QED BY <1>1, <1>5, <2>1, GotoStep
<1>6. QED BY <1>2, <1>3, <1>4, <1>5

\* The backoff ends with another attempt or with a refusal.
LEMMA BackoffElapsesStep ==
  ASSUME IInv, NEW w \in Workers, BackoffElapses(w)
  PROVE  IInv'
<1> DEFINE p == [proc[w] EXCEPT !.pc = "starting", !.local = proc[w].local + 1]
<1>1. TypeOK /\ ProcsInv
  BY DEF IInv
<1>2. /\ proc[w].pc \notin {"idle", "down"}
      /\ proc' = [proc EXCEPT ![w] = p]
      /\ UNCHANGED <<conv, subject, run, lease, messages, stopping, faults>>
  BY DEF BackoffElapses, RunUntouched, NoFault
<1>3. /\ p \in Proc /\ p.pc = "starting"
      /\ p.run = proc[w].run /\ p.token = proc[w].token
  <2>1. proc[w] \in Proc
    BY <1>1 DEF TypeOK
  <2> DEFINE n == proc[w].local + 1
  <2>2. n \in Nat
    BY <2>1 DEF Proc
  <2> HIDE DEF n
  <2>3. p = [proc[w] EXCEPT !.pc = "starting", !.local = n]
    BY DEF n
  <2> HIDE DEF p
  <2>4. QED BY <2>1, <2>2, <2>3 DEF Proc, Step
<1> HIDE DEF p
<1>4. ProcOK(p)
  BY <1>1, <1>2, <1>3 DEF ProcsInv, ProcOK
<1>5. stopping' \in [Workers -> BOOLEAN] /\ faults' \in 0..MaxFaults
  BY <1>1, <1>2 DEF TypeOK
<1>6. QED BY <1>2, <1>3, <1>4, <1>5, ProcessStep

-----------------------------------------------------------------------------
(* Finishing.                                                               *)

\* The final commit settles the run and advances its conversation.
LEMMA CommitSuccessStep ==
  ASSUME IInv, NEW w \in Workers, CommitSuccess(w)
  PROVE  IInv'
<1> DEFINE r == proc[w].run
           row == [run[r] EXCEPT !.attempts[proc[w].open] = "succeeded",
                                 !.status = "succeeded"]
           reply == [run |-> r, role |-> "assistant"]
<1>1. TypeOK
  BY DEF IInv
<1>2. /\ proc[w].pc \notin {"idle", "down"} /\ Owns(w) /\ ~run[r].cancel
      /\ run' = [run EXCEPT ![r] = row]
      /\ lease' = [lease EXCEPT ![run[r].conv] = NoLease]
      /\ messages' = [messages EXCEPT ![run[r].conv] = Append(@, reply)]
      /\ conv' = [conv EXCEPT ![run[r].conv] =
                    [@ EXCEPT !.version = run[r].accepted + 1]]
      /\ proc' = [proc EXCEPT ![w] = Idle]
      /\ UNCHANGED <<subject, stopping, faults>>
  BY DEF CommitSuccess, NoFault, Leave, Executable
<1>3. /\ r \in RunIds /\ run[r] \in Run /\ run[r].status = "running"
      /\ run[r].conv \in Conversations
  BY <1>2, OwnerRow
<1>4. [run[r].attempts EXCEPT ![proc[w].open] = "succeeded"] \in Seq(AttemptStatus)
  BY <1>3, OverwriteType DEF Run, AttemptStatus
<1>5. /\ row \in Run /\ row.status = "succeeded" /\ row.conv = run[r].conv
      /\ row.key = run[r].key /\ row.accepted = run[r].accepted
      /\ row.receipts = run[r].receipts /\ row.cancel = run[r].cancel
  BY <1>3, <1>4 DEF Run, RunStatus, Terminal
<1>6. reply \in Message
  BY <1>3 DEF Message
<1> HIDE DEF row, reply
<1>7. messages' \in [Conversations -> Seq(Message)]
  <2> DEFINE answered == Append(messages[run[r].conv], reply)
  <2>1. messages[run[r].conv] \in Seq(Message)
    BY <1>1, <1>3 DEF TypeOK
  <2>2. answered \in Seq(Message)
    BY <1>6, <2>1
  <2>3. messages' = [messages EXCEPT ![run[r].conv] = answered]
    BY <1>2
  <2> HIDE DEF answered
  <2>4. QED BY <1>1, <2>2, <2>3 DEF TypeOK
<1>8. /\ conv' \in [Conversations -> [version : Nat, archived : BOOLEAN]]
      /\ \A d \in Conversations : conv'[d] = conv[d] \/ d = run[r].conv
  <2>1. run[r].accepted + 1 \in Nat
    BY <1>3 DEF Run
  <2>2. QED BY <1>1, <1>2, <1>3, <2>1 DEF TypeOK
<1>9. /\ row.status \in Terminal /\ row.status # "paused"
      /\ row.cancel => row.status = "cancelled"
  BY <1>2, <1>5 DEF Terminal
<1>10. run[r].status \in Active
  BY <1>3 DEF Active
<1>11. QED BY <1>2, <1>3, <1>5, <1>7, <1>8, <1>9, <1>10, SettleStep

\* _finish_unsuccessful by the owner settles or pauses the run.
LEMMA FinishUnsuccessfulStep ==
  ASSUME IInv, NEW w \in Workers, FinishUnsuccessful(w)
  PROVE  IInv'
<1> DEFINE r == proc[w].run
           status == FinalStatus(r, proc[w].exc)
           closed == [i \in DOMAIN run[r].attempts |->
                        IF i # proc[w].open THEN run[r].attempts[i]
                        ELSE IF status = "cancelled" THEN "cancelled" ELSE "failed"]
           row == [run[r] EXCEPT !.status = status, !.attempts = closed]
<1>1. TypeOK
  BY DEF IInv
<1>2. /\ proc[w].pc \notin {"idle", "down"} /\ Owns(w)
      /\ run' = [run EXCEPT ![r] = row]
      /\ lease' = [lease EXCEPT ![run[r].conv] = NoLease]
      /\ proc' = [proc EXCEPT ![w] = Idle]
      /\ UNCHANGED <<conv, subject, messages, stopping, faults>>
  BY DEF FinishUnsuccessful, NoFault, Leave
<1>3. /\ r \in RunIds /\ run[r] \in Run /\ run[r].status = "running"
  BY <1>2, OwnerRow
<1>4. /\ status \in {"cancelled", "paused", "failed"}
      /\ run[r].cancel => status = "cancelled"
  BY DEF FinalStatus
<1>5. closed \in Seq(AttemptStatus)
  <2>1. PICK n \in Nat : run[r].attempts \in [1..n -> AttemptStatus]
    BY <1>3, SeqDef DEF Run
  <2>2. closed \in [1..n -> AttemptStatus]
    BY <2>1 DEF AttemptStatus
  <2> HIDE DEF closed
  <2>3. QED BY <2>2, IsSeq
<1> HIDE DEF status, closed
<1>6. /\ row \in Run /\ row.status = status /\ row.conv = run[r].conv
      /\ row.key = run[r].key /\ row.accepted = run[r].accepted
      /\ row.receipts = run[r].receipts /\ row.cancel = run[r].cancel
  BY <1>3, <1>4, <1>5 DEF Run, RunStatus, Terminal, Active
<1> HIDE DEF row
<1>7. /\ row.status \in Terminal \cup {"paused"}
      /\ row.cancel => row.status = "cancelled"
  BY <1>4, <1>6 DEF Terminal
<1>8. run[r].status \in Active
  BY <1>3 DEF Active
<1>9. /\ conv' \in [Conversations -> [version : Nat, archived : BOOLEAN]]
      /\ messages' \in [Conversations -> Seq(Message)]
      /\ conv' = conv /\ subject' = subject
  BY <1>1, <1>2 DEF TypeOK
<1>10. QED BY <1>2, <1>3, <1>6, <1>7, <1>8, <1>9, SettleStep

-----------------------------------------------------------------------------
(* Processes and time.                                                      *)

\* A process starts, ends, or is told to stop.
LEMMA ProcessLifeStep ==
  ASSUME IInv, NEW w \in Workers,
         FinishEscapes(w) \/ Exit(w) \/ Restart(w) \/ Crash(w) \/ RequestStop(w)
  PROVE  IInv'
<1> USE RunLifecycleAssumption
<1>1. TypeOK /\ ProcsInv
  BY DEF IInv
<1>2. UNCHANGED <<conv, subject, run, lease, messages>>
  BY DEF FinishEscapes, Exit, Restart, Crash, RequestStop, RunUntouched
<1>3. stopping' \in [Workers -> BOOLEAN]
  <2>1. stopping' = stopping \/ \E b \in BOOLEAN : stopping' = [stopping EXCEPT ![w] = b]
    BY DEF FinishEscapes, Exit, Restart, Crash, RequestStop, NoFault
  <2>2. QED BY <1>1, <2>1, Zenon DEF TypeOK
<1>4. faults' \in 0..MaxFaults
  <2>1. faults' = faults \/ (faults < MaxFaults /\ faults' = faults + 1)
    BY DEF FinishEscapes, Exit, Restart, Crash, RequestStop, NoFault
  <2>2. faults \in 0..MaxFaults
    BY <1>1 DEF TypeOK
  <2>3. QED BY <2>1, <2>2
<1>5. proc' = proc \/ \E p \in {Idle, Down} : proc' = [proc EXCEPT ![w] = p]
  BY DEF FinishEscapes, Exit, Restart, Crash, RequestStop
<1>6. CASE proc' = proc
  <2>1. proc' \in [Workers -> Proc] /\ ProcsInv'
    BY <1>1, <1>2, <1>6 DEF TypeOK, ProcsInv, ProcOK
  <2>2. QED BY <1>2, <1>3, <1>4, <2>1, ProcStep
<1>7. ASSUME NEW p \in {Idle, Down}, proc' = [proc EXCEPT ![w] = p]
      PROVE  IInv'
  BY <1>2, <1>3, <1>4, <1>7, DropStep
<1>8. QED BY <1>5, <1>6, <1>7

\* A lease that runs out keeps its run and its token.
LEMMA LeaseExpiresStep ==
  ASSUME IInv, NEW c \in Conversations, OrphanExpires(c) \/ HeldLeaseExpires(c)
  PROVE  IInv'
<1> DEFINE l == [lease[c] EXCEPT !.live = FALSE]
<1> USE RunLifecycleAssumption
<1>1. /\ TypeOK /\ RowsInv /\ ProcsInv /\ CancelInv
      /\ LeaseMatchesRun /\ OneActiveRun /\ ActiveRunStaysCommittable
  BY DEF IInv
<1>2. /\ lease[c].live /\ lease' = [lease EXCEPT ![c] = l]
      /\ UNCHANGED <<conv, subject, run, messages, proc, stopping>>
      /\ faults' = faults \/ (faults < MaxFaults /\ faults' = faults + 1)
  BY DEF OrphanExpires, HeldLeaseExpires, NoFault
<1>3. l \in Lease /\ l.run = lease[c].run /\ l.token = lease[c].token
  <2>1. lease[c] \in Lease
    BY <1>1 DEF TypeOK
  <2>2. QED BY <2>1 DEF Lease
<1> HIDE DEF l
<1>4. /\ lease' \in [Conversations -> Lease]
      /\ \A d \in Conversations : /\ lease'[d].run = lease[d].run
                                  /\ lease'[d].token = lease[d].token
                                  /\ d # c => lease'[d] = lease[d]
  BY <1>1, <1>2, <1>3 DEF TypeOK
<1>5. TypeOK'
  <2>1. faults' \in 0..MaxFaults
    BY <1>1, <1>2 DEF TypeOK
  <2>2. QED BY <1>1, <1>2, <1>4, <2>1 DEF TypeOK
<1>6. RowsInv' /\ ProcsInv' /\ CancelInv' /\ OneActiveRun'
  BY <1>1, <1>2 DEF RowsInv, ProcsInv, ProcOK, CancelInv, OneActiveRun
<1>7. LeaseMatchesRun'
  <2>1. ASSUME NEW r \in RunIds, run[r].status = "pending"
        PROVE  lease'[run[r].conv] = Placeholder(r)'
    <3>1. run[r].conv \in Conversations
      BY <1>1, <2>1 DEF RowsInv
    <3>2. lease[run[r].conv] = Placeholder(r) /\ ~Placeholder(r).live
      BY <1>1, <2>1 DEF LeaseMatchesRun, Placeholder
    <3>3. run[r].conv # c
      BY <1>2, <3>2
    <3>4. QED BY <1>4, <3>1, <3>2, <3>3 DEF Placeholder
  <2>2. ASSUME NEW r \in RunIds, run[r].status = "running"
        PROVE  /\ lease'[run[r].conv].run = r
               /\ lease'[run[r].conv].token \in Tokens
    <3>1. run[r].conv \in Conversations
      BY <1>1, <2>2 DEF RowsInv
    <3>2. QED BY <1>1, <1>4, <2>2, <3>1 DEF LeaseMatchesRun
  <2>3. ASSUME NEW d \in Conversations, lease'[d].run # Nil
        PROVE  /\ run[lease'[d].run].conv = d
               /\ run[lease'[d].run].status \in {"pending", "running"}
    BY <1>1, <1>4, <2>3 DEF LeaseMatchesRun
  <2>4. run' = run
    BY <1>2
  <2>5. QED BY <2>1, <2>2, <2>3, <2>4 DEF LeaseMatchesRun
<1>8. ActiveRunStaysCommittable'
  BY <1>1, <1>2 DEF ActiveRunStaysCommittable, Committable
<1>9. QED BY <1>5, <1>6, <1>7, <1>8 DEF IInv

-----------------------------------------------------------------------------
(* The invariant is inductive, and what follows from it.                    *)

\* Nothing changes when nothing happens.
LEMMA StutterStep ==
  ASSUME IInv, UNCHANGED vars
  PROVE  IInv'
<1>1. TypeOK /\ ProcsInv
  BY DEF IInv
<1>2. proc' \in [Workers -> Proc] /\ ProcsInv'
  BY <1>1 DEF TypeOK, ProcsInv, ProcOK, vars
<1>3. QED BY <1>1, <1>2, ProcStep DEF TypeOK, vars

\* Every API transaction keeps the invariant.
LEMMA RequestStep ==
  ASSUME IInv, Requests
  PROVE  IInv'
BY AcceptTurnStep, CancelRunStep, RetrySavedInputStep, ArchiveConversationStep,
   RestoreConversationStep, ArchiveSubjectStep, RestoreSubjectStep DEF Requests

\* Every step of a worker keeps the invariant.
LEMMA WorkerStep ==
  ASSUME IInv, NEW w \in Workers, Claim(w) \/ Work(w)
  PROVE  IInv'
<1>1. CASE Claim(w)
  <2>1. ASSUME NEW r \in RunIds, ClaimAndCancel(w, r)
        PROVE  IInv'
    BY <2>1, ClaimEndsStep DEF ClaimAndCancel
  <2>2. ASSUME NEW r \in RunIds, ClaimAndExhaust(w, r)
        PROVE  IInv'
    BY <2>2, ClaimEndsStep DEF ClaimAndExhaust
  <2>3. ASSUME NEW r \in RunIds, NEW t \in Tokens, ClaimAndStart(w, r, t)
        PROVE  IInv'
    BY <2>3, ClaimAndStartStep
  <2>4. QED BY <1>1, <2>1, <2>2, <2>3 DEF Claim
<1>2. CASE Work(w)
  BY <1>2, StartAttemptStep, AttemptFailsStep, DetourStep, BackoffElapsesStep,
     CommitSuccessStep, FinishUnsuccessfulStep, ProcessLifeStep DEF Work
<1>3. QED BY <1>1, <1>2

\* The conjunction is inductive: every step of any actor keeps it.
THEOREM IInvInductive == IInv /\ [Next]_vars => IInv'
<1> SUFFICES ASSUME IInv, [Next]_vars PROVE IInv'
  OBVIOUS
<1>1. CASE Requests
  BY <1>1, RequestStep
<1>2. ASSUME NEW w \in Workers, Claim(w) \/ Work(w)
      PROVE  IInv'
  BY <1>2, WorkerStep
<1>3. CASE Environment
  BY <1>3, LeaseExpiresStep, ProcessLifeStep DEF Environment
<1>4. CASE UNCHANGED vars
  BY <1>4, StutterStep
<1>5. QED BY <1>1, <1>2, <1>3, <1>4 DEF Next

\* The inductive invariant holds in every reachable state.
THEOREM Invariance == Spec => []IInv
<1>1. QED BY InitIInv, IInvInductive, PTL DEF Spec

\* Every row and every process record keeps its shape.
THEOREM TypeCorrect == Spec => []TypeOK
<1>1. IInv => TypeOK
  BY DEF IInv
<1>2. QED BY <1>1, Invariance, PTL

\* The lease row always says what the run row says.
THEOREM LeaseAgreement == Spec => []LeaseMatchesRun
<1>1. IInv => LeaseMatchesRun
  BY DEF IInv
<1>2. QED BY <1>1, Invariance, PTL

\* At most one run of a conversation is unsettled, and keys are not reused.
THEOREM SingleActiveRun == Spec => []OneActiveRun
<1>1. IInv => OneActiveRun
  BY DEF IInv
<1>2. QED BY <1>1, Invariance, PTL

\* What an active run was accepted against is not taken away from it.
THEOREM CommittableThroughout == Spec => []ActiveRunStaysCommittable
<1>1. IInv => ActiveRunStaysCommittable
  BY DEF IInv
<1>2. QED BY <1>1, Invariance, PTL

-----------------------------------------------------------------------------
(* Action properties.                                                       *)

\* The steps of Next that write a run row or the transcript.
RowWrite ==
  \/ \E c \in Conversations, k \in Keys, n \in RetryCounts, q \in RunIds :
       AcceptTurn(c, k, n, q)
  \/ \E q \in RunIds : CancelRun(q)
  \/ \E q \in RunIds, k \in RetryKeys : RetrySavedInput(q, k, run[q].count)
  \/ \E w \in Workers, q \in RunIds :
       \/ ClaimAndCancel(w, q) \/ ClaimAndExhaust(w, q)
       \/ \E t \in Tokens : ClaimAndStart(w, q, t)
  \/ \E w \in Workers :
       \/ StartAttempt(w) \/ CommitSuccess(w) \/ FinishUnsuccessful(w)
       \/ \E exc \in {"retryable", "fatal", "lookup", "cancelled"} :
            AttemptFails(w, exc)

\* A step either leaves all run rows alone or is one of the writers.
LEMMA WritesOrNot ==
  ASSUME [Next]_vars
  PROVE  UNCHANGED <<run, messages>> \/ RowWrite
<1>1. CASE Requests
  BY <1>1 DEF Requests, RowWrite, ArchiveConversation, RestoreConversation,
              ArchiveSubject, RestoreSubject
<1>2. ASSUME NEW w \in Workers, Claim(w) PROVE RowWrite
  BY <1>2 DEF Claim, RowWrite
<1>3. ASSUME NEW w \in Workers, Work(w)
      PROVE  UNCHANGED <<run, messages>> \/ RowWrite
  BY <1>3 DEF Work, RowWrite, StartRefused, ExecutionLosesLease, ScheduleRetry,
              BackoffElapses, BackoffInterrupted, CommitRefused, FinishSettled,
              FinishEscapes, Exit, RunUntouched
<1>4. CASE Environment
  BY <1>4 DEF Environment, OrphanExpires, HeldLeaseExpires, Crash, RequestStop,
              Restart, RunUntouched
<1>5. CASE UNCHANGED vars
  BY <1>5 DEF vars
<1>6. QED BY <1>1, <1>2, <1>3, <1>4, <1>5 DEF Next

\* A written row is not a settled one, and all others stay as they are.
LEMMA WrittenRow ==
  ASSUME IInv, RowWrite
  PROVE  \E q \in RunIds : /\ run[q].status \notin Terminal
                           /\ \A r \in RunIds : r # q => run'[r] = run[r]
<1>1. TypeOK
  BY DEF IInv
<1>2. ASSUME NEW c \in Conversations, NEW k \in Keys, NEW n \in RetryCounts,
             NEW q \in RunIds, AcceptTurn(c, k, n, q)
      PROVE  /\ run[q].status \notin Terminal
             /\ \A r \in RunIds : r # q => run'[r] = run[r]
  BY <1>1, <1>2 DEF AcceptTurn, Terminal, TypeOK
<1>3. ASSUME NEW q \in RunIds, CancelRun(q)
      PROVE  /\ run[q].status \notin Terminal
             /\ \A r \in RunIds : r # q => run'[r] = run[r]
  <2>1. \E row : run' = [run EXCEPT ![q] = row]
    BY <1>3 DEF CancelRun
  <2>2. QED BY <1>1, <1>3, <2>1 DEF CancelRun, Terminal, Active, TypeOK
<1>4. ASSUME NEW q \in RunIds, NEW k \in RetryKeys,
             RetrySavedInput(q, k, run[q].count)
      PROVE  /\ run[q].status \notin Terminal
             /\ \A r \in RunIds : r # q => run'[r] = run[r]
  <2>1. run[q].status = "paused" /\ \E row : run' = [run EXCEPT ![q] = row]
    BY <1>4 DEF RetrySavedInput
  <2>2. QED BY <1>1, <2>1 DEF Terminal, TypeOK
<1>5. ASSUME NEW w \in Workers, NEW q \in RunIds,
             \/ ClaimAndCancel(w, q) \/ ClaimAndExhaust(w, q)
             \/ \E t \in Tokens : ClaimAndStart(w, q, t)
      PROVE  /\ run[q].status \notin Terminal
             /\ \A r \in RunIds : r # q => run'[r] = run[r]
  <2>1. Claiming(w, q) /\ \E row : run' = [run EXCEPT ![q] = row]
    BY <1>5 DEF ClaimAndCancel, ClaimAndExhaust, ClaimAndStart
  <2>2. QED BY <1>1, <2>1, ClaimedRow DEF Terminal, Active, TypeOK
<1>6. ASSUME NEW w \in Workers,
             \/ StartAttempt(w) \/ CommitSuccess(w) \/ FinishUnsuccessful(w)
             \/ \E exc \in {"retryable", "fatal", "lookup", "cancelled"} :
                  AttemptFails(w, exc)
      PROVE  /\ proc[w].run \in RunIds
             /\ run[proc[w].run].status \notin Terminal
             /\ \A r \in RunIds : r # proc[w].run => run'[r] = run[r]
  <2>1. /\ proc[w].pc \notin {"idle", "down"} /\ Owns(w)
        /\ \E row : run' = [run EXCEPT ![proc[w].run] = row]
    BY <1>6 DEF StartAttempt, CommitSuccess, FinishUnsuccessful, AttemptFails
  <2>2. QED BY <1>1, <2>1, OwnerRow DEF Terminal, TypeOK
<1>7. QED BY <1>2, <1>3, <1>4, <1>5, <1>6 DEF RowWrite

\* A settled run never changes again, whatever stale workers still try.
THEOREM SettledForever == Spec => TerminalIsFinal
<1>1. ASSUME IInv, [Next]_vars, NEW r \in RunIds, run[r].status \in Terminal
      PROVE  run'[r] = run[r]
  BY <1>1, WritesOrNot, WrittenRow
<1>2. IInv /\ [Next]_vars =>
        [\A r \in RunIds : run[r].status \in Terminal => run'[r] = run[r]]_vars
  BY <1>1
<1>3. QED BY <1>2, Invariance, PTL DEF Spec, TerminalIsFinal

\* The part of a row that NoWorkAfterCancel is about.
Obeys(old, new) ==
  /\ Len(new.attempts) = Len(old.attempts)
  /\ new.status \in {old.status, "cancelled"}
  /\ new.cancel

\* Closing or overwriting attempts does not add one.
LEMMA SameLength ==
  ASSUME NEW S, NEW T, NEW a \in Seq(S), NEW b \in Seq(T), DOMAIN a = DOMAIN b
  PROVE  Len(a) = Len(b)
<1>1. /\ Len(a) \in Nat /\ DOMAIN a = 1..Len(a)
      /\ Len(b) \in Nat /\ DOMAIN b = 1..Len(b)
  BY LenProperties
<1>2. ASSUME NEW m \in Nat, NEW n \in Nat, 1..m = 1..n
      PROVE  m = n
  <2>1. m = 0 \/ m \in 1..n
    BY <1>2
  <2>2. n = 0 \/ n \in 1..m
    BY <1>2
  <2>3. QED BY <1>2, <2>1, <2>2
<1>3. QED BY <1>1, <1>2

\* After a stored cancel request a run does no further work: no attempt is
\* added, and the only other status it can take is "cancelled".
THEOREM CancelIsObeyed == Spec => NoWorkAfterCancel
<1>1. ASSUME IInv, RowWrite, NEW r \in RunIds, run[r].cancel, run'[r] # run[r]
      PROVE  Obeys(run[r], run'[r])
  <2>1. TypeOK /\ RowsInv /\ CancelInv
    BY <1>1 DEF IInv
  <2>2. /\ run[r] \in Run /\ run[r].attempts \in Seq(AttemptStatus)
        /\ run[r].status \in {"running", "cancelled"}
    BY <1>1, <2>1 DEF TypeOK, Run, CancelInv
  <2>3. ASSUME NEW c \in Conversations, NEW k \in Keys, NEW n \in RetryCounts,
               NEW q \in RunIds, AcceptTurn(c, k, n, q)
        PROVE  FALSE
    <3>1. q # r
      BY <2>2, <2>3 DEF AcceptTurn
    <3>2. QED BY <1>1, <2>1, <2>3, <3>1 DEF AcceptTurn, TypeOK
  <2>4. ASSUME NEW q \in RunIds, CancelRun(q)
        PROVE  Obeys(run[r], run'[r])
    <3> DEFINE row == [run[q] EXCEPT !.cancel = TRUE]
               end == [run[q] EXCEPT !.cancel = TRUE, !.status = "cancelled"]
    <3>1. run' = [run EXCEPT ![q] = row] \/ run' = [run EXCEPT ![q] = end]
      BY <2>4 DEF CancelRun
    <3>2. /\ row.attempts = run[q].attempts /\ row.status = run[q].status
          /\ row.cancel
          /\ end.attempts = run[q].attempts /\ end.status = "cancelled"
          /\ end.cancel
      BY <2>1, <2>4 DEF TypeOK, Run
    <3> HIDE DEF row, end
    <3>3. q = r
      BY <1>1, <2>1, <3>1 DEF TypeOK
    <3>4. QED BY <1>1, <2>1, <3>1, <3>2, <3>3 DEF TypeOK, Obeys
  <2>5. ASSUME NEW q \in RunIds, NEW k \in RetryKeys,
               RetrySavedInput(q, k, run[q].count)
        PROVE  FALSE
    <3>1. q # r
      BY <2>2, <2>5 DEF RetrySavedInput
    <3>2. \E row : run' = [run EXCEPT ![q] = row]
      BY <2>5 DEF RetrySavedInput
    <3>3. QED BY <1>1, <2>1, <3>1, <3>2 DEF TypeOK
  <2>6. ASSUME NEW w \in Workers, NEW q \in RunIds,
               \/ ClaimAndExhaust(w, q)
               \/ \E t \in Tokens : ClaimAndStart(w, q, t)
        PROVE  FALSE
    <3>1. ~run[q].cancel /\ \E row : run' = [run EXCEPT ![q] = row]
      BY <2>6 DEF ClaimAndExhaust, ClaimAndStart
    <3>2. QED BY <1>1, <2>1, <3>1 DEF TypeOK
  <2>7. ASSUME NEW w \in Workers, NEW q \in RunIds, ClaimAndCancel(w, q)
        PROVE  Obeys(run[r], run'[r])
    <3> DEFINE row == [run[q] EXCEPT !.status = "cancelled",
                                     !.attempts = Claimed(q)]
    <3>1. run' = [run EXCEPT ![q] = row] /\ run[q].cancel
      BY <2>7 DEF ClaimAndCancel
    <3>2. Claimed(q) \in Seq(AttemptStatus)
      BY <1>1, <2>7, ClaimedRow DEF ClaimAndCancel
    <3>3. /\ row.attempts = Claimed(q) /\ row.status = "cancelled"
          /\ row.cancel = run[q].cancel
      BY <2>1 DEF TypeOK, Run
    <3> HIDE DEF row
    <3>4. q = r
      BY <1>1, <2>1, <3>1 DEF TypeOK
    <3>5. DOMAIN Claimed(r) = DOMAIN run[r].attempts
      BY DEF Claimed, CloseOpen
    <3>6. Len(Claimed(r)) = Len(run[r].attempts)
      BY <2>2, <3>2, <3>4, <3>5, SameLength
    <3>7. QED BY <2>1, <3>1, <3>3, <3>4, <3>6 DEF TypeOK, Obeys
  <2>8. ASSUME NEW w \in Workers, StartAttempt(w) \/ CommitSuccess(w)
        PROVE  FALSE
    <3>1. /\ ~run[proc[w].run].cancel
          /\ \E row : run' = [run EXCEPT ![proc[w].run] = row]
      BY <2>8 DEF StartAttempt, CommitSuccess, Executable
    <3>2. QED BY <1>1, <2>1, <3>1 DEF TypeOK
  <2>9. ASSUME NEW w \in Workers,
               NEW exc \in {"retryable", "fatal", "lookup", "cancelled"},
               AttemptFails(w, exc)
        PROVE  Obeys(run[r], run'[r])
    <3> DEFINE q == proc[w].run
               a == [run[q].attempts EXCEPT ![proc[w].open] =
                       IF exc = "cancelled" THEN "cancelled" ELSE "failed"]
               row == [run[q] EXCEPT !.attempts = a]
    <3>1. run' = [run EXCEPT ![q] = row]
      BY <2>9 DEF AttemptFails
    <3>2. q = r
      BY <1>1, <2>1, <3>1 DEF TypeOK
    <3>3. a \in Seq(AttemptStatus)
      BY <2>2, <3>2, OverwriteType DEF AttemptStatus
    <3>4. Len(a) = Len(run[r].attempts)
      BY <2>2, <3>2, <3>3, SameLength
    <3> HIDE DEF a
    <3>5. row.attempts = a /\ row.status = run[r].status /\ row.cancel = run[r].cancel
      BY <2>2, <3>2 DEF Run
    <3> HIDE DEF row, q
    <3>6. QED BY <1>1, <2>1, <3>1, <3>2, <3>4, <3>5 DEF TypeOK, Obeys
  <2>10. ASSUME NEW w \in Workers, FinishUnsuccessful(w)
         PROVE  Obeys(run[r], run'[r])
    <3> DEFINE q == proc[w].run
               status == FinalStatus(q, proc[w].exc)
               closed == [i \in DOMAIN run[q].attempts |->
                            IF i # proc[w].open THEN run[q].attempts[i]
                            ELSE IF status = "cancelled" THEN "cancelled" ELSE "failed"]
               row == [run[q] EXCEPT !.status = status, !.attempts = closed]
    <3>1. run' = [run EXCEPT ![q] = row]
      BY <2>10 DEF FinishUnsuccessful
    <3> HIDE DEF row
    <3>2. q = r
      BY <1>1, <2>1, <3>1 DEF TypeOK
    <3>3. status = "cancelled"
      BY <1>1, <3>2 DEF FinalStatus
    <3> HIDE DEF status
    <3>4. PICK n \in Nat : run[r].attempts \in [1..n -> AttemptStatus]
      BY <2>2, SeqDef
    <3>5. closed \in [1..n -> AttemptStatus]
      BY <3>2, <3>4 DEF AttemptStatus
    <3> HIDE DEF closed
    <3>6. Len(closed) = Len(run[r].attempts)
      BY <2>2, <3>4, <3>5, IsSeq, SameLength
    <3>7. row.attempts = closed /\ row.status = "cancelled" /\ row.cancel = run[r].cancel
      BY <2>2, <3>2, <3>3 DEF row, Run
    <3> HIDE DEF q
    <3>8. QED BY <1>1, <2>1, <3>1, <3>2, <3>6, <3>7 DEF TypeOK, Obeys
  <2>11. QED
    BY <1>1, <2>3, <2>4, <2>5, <2>6, <2>7, <2>8, <2>9, <2>10 DEF RowWrite
<1>2. ASSUME IInv, [Next]_vars, NEW r \in RunIds, run[r].cancel
      PROVE  /\ Len(run'[r].attempts) = Len(run[r].attempts)
             /\ run'[r].status \in {run[r].status, "cancelled"}
             /\ run'[r].cancel
  <2>1. CASE run'[r] = run[r]
    BY <1>2, <2>1
  <2>2. CASE run'[r] # run[r]
    BY <1>1, <1>2, <2>2, WritesOrNot DEF Obeys
  <2>3. QED BY <2>1, <2>2
<1>3. IInv /\ [Next]_vars =>
        [\A r \in RunIds :
           run[r].cancel => /\ Len(run'[r].attempts) = Len(run[r].attempts)
                            /\ run'[r].status \in {run[r].status, "cancelled"}
                            /\ run'[r].cancel]_vars
  BY <1>2
<1>4. QED BY <1>3, Invariance, PTL DEF Spec, NoWorkAfterCancel

\* Fencing: a running run is written only by the process that holds its live
\* lease, by a claimer of an expired one, or by its cancel request.
THEOREM FencingHolds == Spec => OnlyOwnerChangesRun
<1>1. ASSUME IInv, RowWrite, NEW r \in RunIds, run[r].status = "running"
      PROVE  \/ run'[r] \in {run[r], [run[r] EXCEPT !.cancel = TRUE]} /\
                messages'[run[r].conv] = messages[run[r].conv]
             \/ \E w \in Workers :
                  /\ proc'[w] # proc[w] /\ proc[w].run = r
                  /\ lease[run[r].conv] =
                       [run |-> r, token |-> proc[w].token, live |-> TRUE]
             \/ Abandoned(r) /\ messages'[run[r].conv] = messages[run[r].conv]
    <2> DEFINE Silent == messages'[run[r].conv] = messages[run[r].conv]
               Owned == \E w \in Workers :
                          /\ proc'[w] # proc[w] /\ proc[w].run = r
                          /\ lease[run[r].conv] =
                               [run |-> r, token |-> proc[w].token, live |-> TRUE]
    <2>1. TypeOK /\ RowsInv /\ ProcsInv /\ OneActiveRun
      BY <1>1 DEF IInv
    <2>2. run[r].conv \in Conversations /\ run[r].status \in Active
      BY <1>1, <2>1 DEF RowsInv, Active
    <2>3. ASSUME NEW c \in Conversations, NEW k \in Keys, NEW n \in RetryCounts,
                 NEW q \in RunIds, AcceptTurn(c, k, n, q)
          PROVE  run'[r] = run[r] /\ Silent
      <3>1. q # r /\ run[r].conv # c
        BY <1>1, <2>2, <2>3 DEF AcceptTurn, ActiveRuns, RunsOf
      <3>2. \E m : messages' = [messages EXCEPT ![c] = m]
        BY <2>3 DEF AcceptTurn
      <3>3. QED BY <2>1, <2>2, <2>3, <3>1, <3>2 DEF AcceptTurn, TypeOK
    <2>4. ASSUME NEW q \in RunIds, CancelRun(q)
          PROVE  /\ run'[r] = run[r] \/ run'[r] = [run[r] EXCEPT !.cancel = TRUE]
                 /\ Silent
      <3>1. CASE q = r
        BY <1>1, <2>1, <2>4, <3>1 DEF CancelRun, TypeOK
      <3>2. CASE q # r
        <4>1. \E row : run' = [run EXCEPT ![q] = row]
          BY <2>4 DEF CancelRun
        <4>2. messages' = messages
          BY <2>4 DEF CancelRun
        <4>3. QED BY <2>1, <3>2, <4>1, <4>2 DEF TypeOK
      <3>3. QED BY <3>1, <3>2
    <2>5. ASSUME NEW q \in RunIds, NEW k \in RetryKeys,
                 RetrySavedInput(q, k, run[q].count)
          PROVE  run'[r] = run[r] /\ Silent
      <3>1. /\ q # r /\ messages' = messages
            /\ \E row : run' = [run EXCEPT ![q] = row]
        BY <1>1, <2>5 DEF RetrySavedInput
      <3>2. QED BY <2>1, <3>1 DEF TypeOK
    <2>6. ASSUME NEW w \in Workers, NEW q \in RunIds,
                 \/ ClaimAndCancel(w, q) \/ ClaimAndExhaust(w, q)
                 \/ \E t \in Tokens : ClaimAndStart(w, q, t)
          PROVE  (run'[r] = run[r] \/ Abandoned(r)) /\ Silent
      <3>1. /\ Claiming(w, q) /\ messages' = messages
            /\ \E row : run' = [run EXCEPT ![q] = row]
        BY <2>6 DEF ClaimAndCancel, ClaimAndExhaust, ClaimAndStart
      <3>2. q = r => Abandoned(r)
        BY <1>1, <3>1 DEF Claiming, Claimable
      <3>3. QED BY <2>1, <3>1, <3>2 DEF TypeOK
    <2>7. ASSUME NEW w \in Workers,
                 \/ StartAttempt(w) \/ CommitSuccess(w) \/ FinishUnsuccessful(w)
                 \/ \E exc \in {"retryable", "fatal", "lookup", "cancelled"} :
                      AttemptFails(w, exc)
          PROVE  (run'[r] = run[r] /\ Silent) \/ Owned
      <3> DEFINE q == proc[w].run
      <3>1. /\ proc[w].pc \notin {"idle", "down"} /\ Owns(w)
            /\ \E row : run' = [run EXCEPT ![q] = row]
            /\ \/ messages' = messages
               \/ \E m : messages' = [messages EXCEPT ![run[q].conv] = m]
        BY <2>7 DEF StartAttempt, CommitSuccess, FinishUnsuccessful, AttemptFails
      <3>2. /\ q \in RunIds /\ run[q].status = "running"
            /\ run[q].conv \in Conversations
            /\ lease[run[q].conv] =
                 [run |-> q, token |-> proc[w].token, live |-> TRUE]
        BY <1>1, <3>1, OwnerRow
      <3>3. proc'[w] # proc[w]
        <4>1. proc[w] \in Proc
          BY <2>1 DEF TypeOK
        <4>2. proc'[w].pc # proc[w].pc
          <5>1. CASE StartAttempt(w)
            BY <2>1, <4>1, <5>1 DEF StartAttempt, TypeOK, Proc
          <5>2. CASE CommitSuccess(w) \/ FinishUnsuccessful(w)
            <6>1. proc' = [proc EXCEPT ![w] = Idle]
              BY <5>2 DEF CommitSuccess, FinishUnsuccessful, Leave
            <6>2. Idle.pc = "idle"
              BY DEF Idle, Process
            <6>3. proc[w].pc \in {"executing", "finishing"}
              BY <5>2 DEF CommitSuccess, FinishUnsuccessful
            <6>4. QED BY <2>1, <6>1, <6>2, <6>3 DEF TypeOK
          <5>3. ASSUME NEW exc \in {"retryable", "fatal", "lookup", "cancelled"},
                       AttemptFails(w, exc)
                PROVE  proc'[w].pc # proc[w].pc
            BY <2>1, <4>1, <5>3 DEF AttemptFails, TypeOK, Proc
          <5>4. QED BY <2>7, <5>1, <5>2, <5>3
        <4>3. QED BY <4>2
      <3>4. CASE q = r
        BY <3>2, <3>3, <3>4
      <3>5. CASE q # r
        <4>1. run[q].conv # run[r].conv
          BY <2>1, <2>2, <3>2, <3>5, RunLifecycleAssumption DEF OneActiveRun, Active
        <4>2. QED BY <2>1, <2>2, <3>1, <3>5, <4>1 DEF TypeOK
      <3>6. QED BY <3>4, <3>5
    <2> HIDE DEF Silent, Owned
    <2>8. \/ (run'[r] = run[r] \/ run'[r] = [run[r] EXCEPT !.cancel = TRUE]) /\ Silent
          \/ Owned
          \/ Abandoned(r) /\ Silent
      BY <1>1, <2>3, <2>4, <2>5, <2>6, <2>7 DEF RowWrite
    <2>9. QED BY <2>8 DEF Silent, Owned
<1>2. IInv /\ [Next]_vars => [Fenced]_vars
  <2> SUFFICES ASSUME IInv, [Next]_vars PROVE [Fenced]_vars
    OBVIOUS
  <2>1. CASE UNCHANGED <<run, messages>>
    BY <2>1 DEF Fenced
  <2>2. CASE RowWrite
    BY <1>1, <2>2 DEF Fenced
  <2>3. QED BY <2>1, <2>2, WritesOrNot
<1>3. QED BY <1>2, Invariance, PTL DEF Spec, OnlyOwnerChangesRun

=============================================================================

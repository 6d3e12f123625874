------------------------ MODULE MemoryDeliveryProofs ------------------------
(***************************************************************************)
(* Proofs about MemoryDelivery: its inductive invariant, and from it the   *)
(* order of deliveries, the truth of the rows, that a blocked row can be   *)
(* reopened, and fencing; then the account of native work, the numbering   *)
(* of the queue, and that every step is one of OrderedOutbox. All for any  *)
(* number of deliveries, relationships, loops, tokens, errors, Retries and *)
(* faults.                                                                 *)
(***************************************************************************)
EXTENDS MemoryDelivery, FiniteSetTheorems, TLAPS

-----------------------------------------------------------------------------
(* Shapes of rows and records.                                             *)

Row == [status : Status, seq : Nat, errors : 0..MaxErrors, retry : BOOLEAN,
        token : Tokens \cup {Nil}, live : BOOLEAN]
Operation == [status : NativeStatus, runs : Nat]
Requests == [submit : BOOLEAN, retries : Nat]
Loop == [pc : Step, op : Deliveries \cup {Nil}, token : Tokens \cup {Nil},
         retry : BOOLEAN, saw : NativeStatus \cup {Nil}, permanent : BOOLEAN]

Shape ==
  /\ delivery \in [Deliveries -> Row]
  /\ next \in [Banks -> Nat]
  /\ native \in [Deliveries -> Operation]
  /\ stray \in [Deliveries -> Requests]
  /\ proc \in [Workers -> Loop]
  /\ sight \in [Deliveries -> {"none", "current", "stale"}]
  /\ asked \in [Deliveries -> 0..MaxAsked]
  /\ faults \in 0..MaxFaults

\* The type invariant with its record sets by name, before and after a step.
LEMMA TypeShape == (TypeOK <=> Shape) /\ (TypeOK' <=> Shape')
  BY DEF TypeOK, Shape, Row, Operation, Requests, Loop

\* The blank values are of these shapes.
LEMMA BlankShapes ==
  NoDelivery \in Row /\ NoOperation \in Operation /\ NoStray \in Requests
  /\ Idle \in Loop
  BY MemoryDeliveryAssumption
  DEF NoDelivery, Row, Status, NoOperation, Operation, NativeStatus, NoStray,
      Requests, Idle, Loop, Step

\* A transition changes some columns of a row and keeps its place.
LEMMA ChangedRow ==
  ASSUME NEW r \in Row, NEW s \in Status, NEW n \in 0..MaxErrors,
         NEW b \in BOOLEAN, NEW t \in Tokens \cup {Nil}, NEW v \in BOOLEAN
  PROVE  /\ [r EXCEPT !.status = s, !.retry = b, !.errors = n] \in Row
         /\ [r EXCEPT !.status = s, !.token = t, !.live = v] \in Row
         /\ [r EXCEPT !.retry = b] \in Row
         /\ [r EXCEPT !.live = v] \in Row
         /\ [r EXCEPT !.status = s, !.errors = n, !.retry = b, !.token = t,
                      !.live = v] \in Row
         /\ [r EXCEPT !.status = s, !.errors = n, !.token = t, !.live = v]
              \in Row
  BY DEF Row

\* Zero errors are within the limit.
LEMMA NoErrors == 0 \in 0..MaxErrors
  BY MemoryDeliveryAssumption

\* An empty outbox with idle loops satisfies the invariant.
THEOREM InitIInv == Init => IInv
<1> SUFFICES ASSUME Init PROVE IInv
  OBVIOUS
<1> USE MemoryDeliveryAssumption
<1>1. TypeOK
  BY BlankShapes, TypeShape DEF Init, Shape
<1>2. ASSUME NEW d \in Deliveries PROVE RowOK(d)
  BY DEF Init, RowOK, NoDelivery, NoOperation, NoStray
<1>3. ASSUME NEW w \in Workers PROVE ProcOK(proc[w])
  BY DEF Init, ProcOK, Idle
<1>4. QED BY <1>1, <1>2, <1>3 DEF IInv

-----------------------------------------------------------------------------
(* The step that every action but Enqueue is: one delivery changes, its row *)
(* keeps its place and stays retained, its operation only gets on.          *)

\* Places and retentions are kept: what was in front stays in front.
LEMMA InFrontKept ==
  ASSUME \A d \in Deliveries :
           /\ delivery'[d].status = "absent" <=> delivery[d].status = "absent"
           /\ delivery'[d].seq = delivery[d].seq
           /\ delivery[d].status = "retained" => delivery'[d].status = "retained",
         NEW d \in Deliveries, InFront(d)
  PROVE  InFront(d)'
<1>1. ASSUME NEW e \in Deliveries, e \in Earlier(d)'
      PROVE  delivery'[e].status = "retained"
  <2>1. e \in Earlier(d)
    BY <1>1 DEF Earlier
  <2>2. QED BY <2>1 DEF InFront
<1>2. Earlier(d)' \subseteq Deliveries
  BY DEF Earlier
<1>3. QED BY <1>1, <1>2 DEF InFront

\* The other deliveries, and the loops that work on them, see no difference.
LEMMA OneDeliveryStep ==
  ASSUME IInv, TypeOK', NEW d \in Deliveries,
         next' = next,
         \A e \in Deliveries : e # d =>
           /\ delivery'[e] = delivery[e] /\ native'[e] = native[e]
           /\ stray'[e] = stray[e] /\ sight'[e] = sight[e]
           /\ asked'[e] = asked[e],
         delivery[d].status # "absent", delivery'[d].status # "absent",
         delivery'[d].seq = delivery[d].seq,
         delivery[d].status = "retained" => delivery'[d].status = "retained",
         native[d].status # "not_found" => native'[d].status # "not_found",
         native[d].status = "completed" => native'[d].status = "completed",
         ~Untouched(d) => ~Untouched(d)',
         (InFront(d) => InFront(d)') =>
           /\ RowOK(d)'
           /\ \A w \in Workers : proc'[w] = proc[w] \/ ProcOK(proc[w])'
  PROVE  IInv'
<1>1. /\ \A e \in Deliveries : RowOK(e)
      /\ \A w \in Workers : ProcOK(proc[w])
  BY DEF IInv
<1>2. ASSUME NEW e \in Deliveries
      PROVE  /\ delivery'[e].status = "absent" <=> delivery[e].status = "absent"
             /\ delivery'[e].seq = delivery[e].seq
             /\ delivery[e].status = "retained" => delivery'[e].status = "retained"
  BY DEF IInv
<1>3. ASSUME NEW e \in Deliveries, InFront(e) PROVE InFront(e)'
  BY <1>2, <1>3, InFrontKept
<1>4. ASSUME NEW e \in Deliveries PROVE RowOK(e)'
  <2>1. CASE e = d
    <3>1. RowOK(d)'
      BY <1>3
    <3>2. QED BY <2>1, <3>1
  <2>2. CASE e # d
    <3>1. RowOK(e)
      BY <1>1
    <3>2. InFront(e) => InFront(e)'
      BY <1>3
    <3>3. /\ delivery'[e] = delivery[e] /\ native'[e] = native[e]
          /\ stray'[e] = stray[e] /\ sight'[e] = sight[e]
          /\ asked'[e] = asked[e]
      BY <2>2
    <3>4. Untouched(e)' <=> Untouched(e)
      BY <3>3 DEF Untouched
    <3>5. QED BY <3>1, <3>2, <3>3, <3>4 DEF RowOK
  <2>3. QED BY <2>1, <2>2
<1>5. ASSUME NEW w \in Workers PROVE ProcOK(proc[w])'
  <2>1. CASE proc'[w] = proc[w]
    <3>1. ProcOK(proc[w])
      BY <1>1
    <3>2. CASE proc[w].pc = "idle"
      BY <2>1, <3>1, <3>2 DEF ProcOK
    <3>3. CASE proc[w].pc # "idle"
      <4>1. PICK e \in Deliveries : e = proc[w].op
        BY <3>1, <3>3 DEF ProcOK
      <4>2. ~Untouched(e) /\ InFront(e)
        BY <3>1, <3>3, <4>1 DEF ProcOK
      <4>3. ~Untouched(e)'
        <5>1. CASE e = d
          BY <4>2, <5>1
        <5>2. CASE e # d
          <6>1. delivery'[e] = delivery[e] /\ asked'[e] = asked[e]
            BY <5>2
          <6>2. QED BY <4>2, <6>1 DEF Untouched
        <5>3. QED BY <5>1, <5>2
      <4>4. InFront(e)'
        BY <1>3, <4>2
      <4>5. /\ native[e].status # "not_found" => native'[e].status # "not_found"
            /\ native[e].status = "completed" => native'[e].status = "completed"
        OBVIOUS
      <4>6. QED BY <2>1, <3>1, <3>3, <4>1, <4>3, <4>4, <4>5 DEF ProcOK
    <3>4. QED BY <3>2, <3>3
  <2>2. CASE proc'[w] # proc[w]
    <3>1. InFront(d) => InFront(d)'
      BY <1>3
    <3>2. QED BY <2>2, <3>1
  <2>3. QED BY <2>1, <2>2
<1>6. QED BY <1>4, <1>5 DEF IInv

\* A row under a lease has been claimed, is in front, and has errors to spare.
LEMMA LeasedRow ==
  ASSUME IInv, NEW d \in Deliveries, delivery[d].token # Nil
  PROVE  /\ delivery[d].status \in {"submitting", "processing"}
         /\ delivery[d].errors < MaxErrors
         /\ InFront(d)
         /\ ~Untouched(d)
<1>1. RowOK(d) /\ delivery[d] \in Row
  BY TypeShape DEF IInv, Shape
<1>2. QED BY <1>1, MemoryDeliveryAssumption DEF RowOK, Untouched, Row

\* A loop that owns a lease works on the row that carries it.
LEMMA OwnedRow ==
  ASSUME IInv, NEW w \in Workers, Owns(w)
  PROVE  /\ proc[w].op \in Deliveries
         /\ delivery[proc[w].op].token = proc[w].token
         /\ delivery[proc[w].op].live
         /\ delivery[proc[w].op].token # Nil
<1>1. PICK d \in Deliveries : /\ d = proc[w].op /\ delivery[d].live
                              /\ delivery[d].token = proc[w].token
  BY DEF Owns
<1>2. delivery[d].token # Nil
  BY <1>1 DEF IInv, RowOK
<1>3. QED BY <1>1, <1>2

\* A loop at work, idle no more, has a delivery that was claimed and is in
\* front.
LEMMA WorkingLoop ==
  ASSUME IInv, NEW w \in Workers, proc[w].pc # "idle"
  PROVE  /\ proc[w].op \in Deliveries
         /\ ~Untouched(proc[w].op)
         /\ InFront(proc[w].op)
         /\ proc[w].token \in Tokens
         /\ delivery[proc[w].op].status # "absent"
<1>1. ProcOK(proc[w])
  BY DEF IInv
<1>2. PICK d \in Deliveries : d = proc[w].op
  BY <1>1 DEF ProcOK
<1>3. ~Untouched(d) => delivery[d].status # "absent"
  BY DEF Untouched
<1>4. QED BY <1>1, <1>2, <1>3 DEF ProcOK

-----------------------------------------------------------------------------
(* One lemma per action.                                                   *)

\* A person's decision.
LEMMA DecideStep ==
  ASSUME IInv, NEW d \in Deliveries, Decide(d)
  PROVE  IInv'
<1> USE MemoryDeliveryAssumption
<1>1. TypeOK /\ RowOK(d)
  BY DEF IInv
<1>2. asked'[d] = asked[d] + 1 /\ asked[d] \in 0..MaxAsked /\ asked[d] < MaxAsked
  BY <1>1 DEF TypeOK, Decide
<1>3. TypeOK'
  <2>1. asked' \in [Deliveries -> 0..MaxAsked]
    BY <1>1, <1>2, TypeShape DEF Decide, Shape
  <2>2. sight' \in [Deliveries -> {"none", "current", "stale"}]
    BY <1>1, TypeShape DEF Decide, Shape
  <2>3. QED BY <1>1, <2>1, <2>2, TypeShape DEF Decide, Shape
<1>4. ~Untouched(d)'
  BY <1>2 DEF Decide, Untouched
<1>5. ASSUME InFront(d) => InFront(d)' PROVE RowOK(d)'
  BY <1>1, <1>2, <1>4, <1>5 DEF RowOK, Decide
<1>6. QED BY <1>3, <1>4, <1>5, OneDeliveryStep DEF Decide

\* A failed or uncertain row is queued again.
LEMMA RequestRetryStep ==
  ASSUME IInv, NEW d \in Deliveries, RequestRetry(d)
  PROVE  IInv'
<1> USE MemoryDeliveryAssumption
<1> DEFINE row == [delivery[d] EXCEPT !.status = "queued", !.retry = TRUE,
                                      !.errors = 0]
<1>1. TypeOK /\ RowOK(d) /\ delivery[d] \in Row
  BY TypeShape DEF IInv, Shape
<1>2. /\ row.status = "queued" /\ row.errors = 0
      /\ row.seq = delivery[d].seq /\ row.token = delivery[d].token
      /\ row.live = delivery[d].live
  BY <1>1 DEF Row
<1>11. row \in Row
  BY <1>1, NoErrors, ChangedRow DEF Status
<1>3. delivery' = [delivery EXCEPT ![d] = row]
  BY DEF RequestRetry
<1> HIDE DEF row
<1>4. delivery'[d] = row
  BY <1>1, <1>3, TypeShape DEF Shape
<1>5. TypeOK'
  BY <1>1, <1>11, <1>3, TypeShape DEF RequestRetry, Shape
<1>6. ~Untouched(d)'
  BY <1>1, <1>2, <1>4 DEF RequestRetry, Untouched, RowOK
<1>7. ASSUME InFront(d) => InFront(d)' PROVE RowOK(d)'
  BY <1>1, <1>2, <1>4, <1>6, <1>7 DEF RowOK, RequestRetry
<1>8. delivery[d].status \notin {"absent", "retained"}
  BY DEF RequestRetry
<1>9. ASSUME NEW e \in Deliveries, e # d PROVE delivery'[e] = delivery[e]
  BY <1>3, <1>9
<1>10. QED BY <1>2, <1>4, <1>5, <1>6, <1>7, <1>8, <1>9, OneDeliveryStep
           DEF RequestRetry

\* What the service does to an operation: it never forgets one, and leaves a
\* completed one alone.
LEMMA ServiceOps ==
  ASSUME NEW o \in Operation
  PROVE  /\ Submitted(o) \in Operation /\ Submitted(o).status # "not_found"
         /\ o.status # "not_found" => Submitted(o) = o
         /\ Retried(o) \in Operation
         /\ o.status # "failed" => Retried(o) = o
         /\ o.status # "not_found" => Retried(o).status # "not_found"
  BY DEF Submitted, Retried, Operation, NativeStatus

\* A step that leaves the rows alone and concerns a claimed delivery.
LEMMA QuietStep ==
  ASSUME IInv, TypeOK', NEW d \in Deliveries,
         ~Untouched(d), InFront(d), delivery[d].status # "absent",
         UNCHANGED <<delivery, next, sight, asked>>,
         \A e \in Deliveries : e # d => /\ native'[e] = native[e]
                                       /\ stray'[e] = stray[e],
         native[d].status # "not_found" => native'[d].status # "not_found",
         native[d].status = "completed" => native'[d].status = "completed",
         ~Untouched(d)' /\ InFront(d)' =>
           \A w \in Workers : proc'[w] = proc[w] \/ ProcOK(proc[w])'
  PROVE  IInv'
<1>1. RowOK(d)
  BY DEF IInv
<1>2. ~Untouched(d)'
  BY DEF Untouched
<1>3. ASSUME InFront(d) => InFront(d)' PROVE RowOK(d)'
  BY <1>1, <1>2, <1>3 DEF RowOK
<1>4. QED BY <1>2, <1>3, OneDeliveryStep

\* Before and after the lookup, a loop's private state is all that changes.
LEMMA CheckStep ==
  ASSUME IInv, NEW w \in Workers, Check(w)
  PROVE  IInv'
<1>1. PICK d \in Deliveries : d = proc[w].op
  BY WorkingLoop DEF Check
<1>2. /\ ~Untouched(d) /\ InFront(d) /\ delivery[d].status # "absent"
      /\ proc[w].token \in Tokens
  BY <1>1, WorkingLoop DEF Check
<1>3. Shape /\ native[d].status \in NativeStatus
  BY TypeShape DEF IInv, Shape, Operation
<1> DEFINE p == [proc[w] EXCEPT !.saw = native[d].status,
                   !.pc = IF \/ native[d].status = "not_found"
                             \/ native[d].status = "failed" /\ proc[w].retry
                          THEN "dispatching" ELSE "recording"]
<1>4. proc' = [proc EXCEPT ![w] = p]
  BY <1>1 DEF Check
<1>5. proc[w] \in Loop
  BY <1>3 DEF Shape
<1>6. /\ p \in Loop /\ p.op = d /\ p.token = proc[w].token
      /\ p.pc \in {"dispatching", "recording"}
      /\ p.pc = "recording" => native[d].status # "not_found"
      /\ p.saw = native[d].status
  BY <1>1, <1>3, <1>5 DEF Loop, Step, NativeStatus
<1> HIDE DEF p
<1>7. proc' \in [Workers -> Loop] /\ proc'[w] = p
  BY <1>3, <1>4, <1>6 DEF Shape
<1>8. TypeOK'
  BY <1>3, <1>7, TypeShape DEF Check, Shape
<1>9. ASSUME ~Untouched(d)', InFront(d)' PROVE ProcOK(proc[w])'
  BY <1>2, <1>6, <1>7, <1>9 DEF ProcOK, Check
<1>10. \A v \in Workers : v # w => proc'[v] = proc[v]
  BY <1>3, <1>4 DEF Shape
<1>11. ASSUME ~Untouched(d)', InFront(d)'
       PROVE  \A v \in Workers : proc'[v] = proc[v] \/ ProcOK(proc[v])'
  BY <1>9, <1>10, <1>11
<1>12. QED BY <1>2, <1>8, <1>11, QuietStep DEF Check

\* A request reaches the service and is answered.
LEMMA AnsweredStep ==
  ASSUME IInv, NEW w \in Workers, Answered(w)
  PROVE  IInv'
<1>1. PICK d \in Deliveries : d = proc[w].op
  BY WorkingLoop DEF Answered
<1>2. /\ ~Untouched(d) /\ InFront(d) /\ delivery[d].status # "absent"
      /\ proc[w].token \in Tokens
  BY <1>1, WorkingLoop DEF Answered
<1>3. Shape
  BY TypeShape DEF IInv
<1> DEFINE p == [proc[w] EXCEPT !.pc = "recording", !.saw = "pending"]
<1>4. proc' = [proc EXCEPT ![w] = p]
  BY DEF Answered
<1>5. /\ proc[w] \in Loop
      /\ p \in Loop /\ p.op = d /\ p.token = proc[w].token
      /\ p.pc = "recording" /\ p.saw = "pending"
  BY <1>1, <1>3 DEF Shape, Loop, Step, NativeStatus
<1> HIDE DEF p
<1>6. /\ proc' \in [Workers -> Loop] /\ proc'[w] = p
      /\ \A v \in Workers : v # w => proc'[v] = proc[v]
  BY <1>3, <1>4, <1>5 DEF Shape
<1>7. /\ native[d] \in Operation
      /\ native' = [native EXCEPT ![d] = IF proc[w].saw = "not_found"
                      THEN Submitted(native[d]) ELSE Retried(native[d])]
  BY <1>1, <1>3 DEF Answered, Shape
<1>8. ProcOK(proc[w])
  BY DEF IInv
<1>9. proc[w].saw # "not_found" => native[d].status # "not_found"
  BY <1>1, <1>8 DEF ProcOK, Answered
<1> DEFINE o == IF proc[w].saw = "not_found" THEN Submitted(native[d])
                                             ELSE Retried(native[d])
<1>10. /\ o \in Operation /\ o.status # "not_found"
       /\ native[d].status = "completed" => o.status = "completed"
  BY <1>7, <1>9, ServiceOps
<1>11. native' = [native EXCEPT ![d] = o]
  BY <1>7
<1> HIDE DEF o
<1>12. /\ native' \in [Deliveries -> Operation] /\ native'[d] = o
       /\ \A e \in Deliveries : e # d => native'[e] = native[e]
  BY <1>3, <1>10, <1>11 DEF Shape
<1>13. TypeOK'
  BY <1>3, <1>6, <1>12, TypeShape DEF Answered, Shape
<1>14. ASSUME ~Untouched(d)', InFront(d)' PROVE ProcOK(proc[w])'
  BY <1>2, <1>5, <1>6, <1>10, <1>12, <1>14 DEF ProcOK
<1>15. ASSUME ~Untouched(d)', InFront(d)'
       PROVE  \A v \in Workers : proc'[v] = proc[v] \/ ProcOK(proc[v])'
  BY <1>6, <1>14, <1>15
<1>16. QED BY <1>2, <1>10, <1>12, <1>13, <1>15, QuietStep DEF Answered

\* One more request, or a submission, among those on their way.
LEMMA MoreRequests ==
  ASSUME NEW q \in Requests
  PROVE  /\ [q EXCEPT !.submit = TRUE] \in Requests
         /\ [q EXCEPT !.retries = q.retries + 1] \in Requests
<1>1. q.retries + 1 \in Nat
  BY DEF Requests
<1>2. ASSUME NEW n \in Nat PROVE [q EXCEPT !.retries = n] \in Requests
  BY DEF Requests
<1>3. [q EXCEPT !.submit = TRUE] \in Requests
  BY DEF Requests
<1>4. QED BY <1>1, <1>2, <1>3

\* Letting a call go leaves at most one more request behind, for the same
\* delivery.
LEMMA LetGoStray ==
  ASSUME Shape, NEW w \in Workers, LetGo(w), NEW d \in Deliveries,
         d = proc[w].op
  PROVE  /\ stray' \in [Deliveries -> Requests]
         /\ \A e \in Deliveries : e # d => stray'[e] = stray[e]
<1> DEFINE more == [stray[d] EXCEPT !.retries = stray[d].retries + 1]
           submit == [stray[d] EXCEPT !.submit = TRUE]
<1>1. stray[d] \in Requests
  BY DEF Shape
<1>2. more \in Requests /\ submit \in Requests
  BY <1>1, MoreRequests
<1>3. \/ stray' = stray \/ stray' = [stray EXCEPT ![d] = submit]
      \/ stray' = [stray EXCEPT ![d] = more]
  BY DEF LetGo
<1> HIDE DEF more, submit
<1>4. QED BY <1>2, <1>3 DEF Shape

\* A loop that stops, by an error, without its lease or with its process.
LEMMA StopStep ==
  ASSUME IInv, NEW w \in Workers, proc[w].pc # "idle", LetGo(w),
         NEW p \in Loop, proc' = [proc EXCEPT ![w] = p],
         p = Idle \/ (p.pc = "erring" /\ p.op = proc[w].op /\
                      p.token = proc[w].token),
         UNCHANGED <<delivery, next, native, sight, asked>>,
         faults' \in 0..MaxFaults
  PROVE  IInv'
<1>1. PICK d \in Deliveries : d = proc[w].op
  BY WorkingLoop
<1>2. /\ ~Untouched(d) /\ InFront(d) /\ delivery[d].status # "absent"
      /\ proc[w].token \in Tokens
  BY <1>1, WorkingLoop
<1>3. Shape
  BY TypeShape DEF IInv
<1>4. /\ stray' \in [Deliveries -> Requests]
      /\ \A e \in Deliveries : e # d => stray'[e] = stray[e]
  BY <1>1, <1>3, LetGoStray
<1>5. /\ proc' \in [Workers -> Loop] /\ proc'[w] = p
      /\ \A v \in Workers : v # w => proc'[v] = proc[v]
  BY <1>3 DEF Shape
<1>6. TypeOK'
  BY <1>3, <1>4, <1>5, TypeShape DEF Shape
<1>7. ASSUME ~Untouched(d)', InFront(d)' PROVE ProcOK(proc[w])'
  <2>1. CASE p = Idle
    BY <1>5, <2>1 DEF ProcOK, Idle
  <2>2. CASE p.pc = "erring" /\ p.op = proc[w].op /\ p.token = proc[w].token
    BY <1>1, <1>2, <1>5, <1>7, <2>2 DEF ProcOK
  <2>3. QED BY <2>1, <2>2
<1>8. ASSUME ~Untouched(d)', InFront(d)'
      PROVE  \A v \in Workers : proc'[v] = proc[v] \/ ProcOK(proc[v])'
  BY <1>5, <1>7, <1>8
<1>9. QED BY <1>2, <1>4, <1>6, <1>8, QuietStep

\* An error at any await.
LEMMA FailsStep ==
  ASSUME IInv, NEW w \in Workers, NEW permanent \in BOOLEAN,
         Fails(w, permanent)
  PROVE  IInv'
<1> DEFINE p == [proc[w] EXCEPT !.pc = "erring", !.permanent = permanent]
<1>1. Shape
  BY TypeShape DEF IInv
<1>2. proc[w] \in Loop
  BY <1>1 DEF Shape
<1>3. /\ p \in Loop /\ p.pc = "erring" /\ p.op = proc[w].op
      /\ p.token = proc[w].token
  BY <1>2 DEF Loop, Step
<1>4. proc' = [proc EXCEPT ![w] = p]
  BY DEF Fails
<1> HIDE DEF p
<1>5. proc[w].pc # "idle" /\ faults' \in 0..MaxFaults
  BY <1>1 DEF Fails, Shape
<1>6. QED BY <1>3, <1>4, <1>5, StopStep DEF Fails

\* A loop finds its lease gone, or dies with its process.
LEMMA GivesUpStep ==
  ASSUME IInv, NEW w \in Workers, LosesLease(w) \/ Crash(w)
  PROVE  IInv'
<1>1. faults \in 0..MaxFaults
  BY TypeShape DEF IInv, Shape
<1>2. faults' \in 0..MaxFaults
  BY <1>1, MemoryDeliveryAssumption DEF LosesLease, Crash
<1>3. Idle \in Loop
  BY BlankShapes
<1>4. QED BY <1>2, <1>3, StopStep DEF LosesLease, Crash

\* The service finishes an operation, or a request without a sender arrives.
LEMMA ServiceStep ==
  ASSUME IInv, NEW d \in Deliveries,
         NativeFinishes(d) \/ StraySubmit(d) \/ StrayRetry(d)
  PROVE  IInv'
<1>1. Shape /\ RowOK(d)
  BY TypeShape DEF IInv
<1>2. native[d] \in Operation /\ stray[d] \in Requests
  BY <1>1 DEF Shape
<1>3. native[d] # NoOperation \/ stray[d] # NoStray
  BY DEF NativeFinishes, StraySubmit, StrayRetry, NoOperation, NoStray
<1>4. ~Untouched(d) /\ InFront(d) /\ delivery[d].status # "absent"
  BY <1>1, <1>3 DEF RowOK, Untouched
<1>5. PICK o \in Operation :
        /\ native' = [native EXCEPT ![d] = o]
        /\ native[d].status # "not_found" => o.status # "not_found"
        /\ native[d].status = "completed" => o.status = "completed"
  <2>1. CASE NativeFinishes(d)
    <3>1. PICK s \in {"completed", "failed"} :
            native' = [native EXCEPT ![d] = [@ EXCEPT !.status = s]]
      BY <2>1 DEF NativeFinishes
    <3>2. [native[d] EXCEPT !.status = s] \in Operation
      BY <1>2 DEF Operation, NativeStatus
    <3>3. [native[d] EXCEPT !.status = s].status = s
      BY <1>2 DEF Operation
    <3>4. native[d].status = "pending"
      BY <2>1 DEF NativeFinishes
    <3>5. QED BY <3>1, <3>2, <3>3, <3>4
  <2>2. CASE StraySubmit(d)
    BY <1>2, <2>2, ServiceOps DEF StraySubmit
  <2>3. CASE StrayRetry(d)
    BY <1>2, <2>3, ServiceOps DEF StrayRetry
  <2>4. QED BY <2>1, <2>2, <2>3
<1>6. PICK q \in Requests : stray' = [stray EXCEPT ![d] = q]
  <2>1. [stray[d] EXCEPT !.submit = FALSE] \in Requests
    BY <1>2 DEF Requests
  <2>2. stray[d].retries > 0 =>
          [stray[d] EXCEPT !.retries = stray[d].retries - 1] \in Requests
    BY <1>2 DEF Requests
  <2>3. NativeFinishes(d) => stray' = [stray EXCEPT ![d] = stray[d]]
    BY <1>1 DEF NativeFinishes, Shape
  <2>4. QED BY <1>2, <2>1, <2>2, <2>3 DEF StraySubmit, StrayRetry
<1>7. /\ native' \in [Deliveries -> Operation] /\ native'[d] = o
      /\ stray' \in [Deliveries -> Requests]
      /\ \A e \in Deliveries : e # d => /\ native'[e] = native[e]
                                       /\ stray'[e] = stray[e]
  BY <1>1, <1>5, <1>6 DEF Shape
<1>8. UNCHANGED <<delivery, next, proc, sight, asked, faults>>
  BY DEF NativeFinishes, StraySubmit, StrayRetry
<1>9. TypeOK'
  BY <1>1, <1>7, <1>8, TypeShape DEF Shape
<1>10. QED BY <1>4, <1>5, <1>7, <1>8, <1>9, QuietStep

\* A step that changes the row of a leased delivery, and keeps its lease
\* token or clears it.
LEMMA LeasedStep ==
  ASSUME IInv, NEW d \in Deliveries, delivery[d].token # Nil,
         NEW row \in Row, delivery' = [delivery EXCEPT ![d] = row],
         row.seq = delivery[d].seq,
         row.live => row.token # Nil,
         row.status \in {"submitting", "processing", "retained", "failed",
                         "uncertain"},
         row.token # Nil => row.status = delivery[d].status,
         row.errors >= MaxErrors => row.status \in {"failed", "uncertain"},
         row.status = "retained" => native[d].status = "completed",
         row.status = "processing" => native[d].status # "not_found",
         UNCHANGED <<next, native, stray, sight, asked>>,
         proc' \in [Workers -> Loop], faults' \in 0..MaxFaults,
         ~Untouched(d)' /\ InFront(d)' =>
           \A w \in Workers : proc'[w] = proc[w] \/ ProcOK(proc[w])'
  PROVE  IInv'
<1>1. Shape /\ RowOK(d)
  BY TypeShape DEF IInv
<1>2. /\ delivery[d].status \in {"submitting", "processing"} /\ InFront(d)
      /\ ~Untouched(d)
  BY LeasedRow
<1>3. /\ delivery' \in [Deliveries -> Row] /\ delivery'[d] = row
      /\ \A e \in Deliveries : e # d => delivery'[e] = delivery[e]
  BY <1>1 DEF Shape
<1>4. TypeOK'
  BY <1>1, <1>3, TypeShape DEF Shape
<1>5. ~Untouched(d)'
  BY <1>3 DEF Untouched
<1>6. ASSUME InFront(d) => InFront(d)' PROVE RowOK(d)'
  BY <1>1, <1>2, <1>3, <1>5, <1>6 DEF RowOK
<1>7. delivery[d].status # "retained" /\ delivery[d].status # "absent"
  BY <1>2
<1>8. delivery'[d].status # "absent" /\ delivery'[d].seq = delivery[d].seq
  BY <1>3
<1>9. QED BY <1>2, <1>3, <1>4, <1>5, <1>6, <1>7, <1>8, OneDeliveryStep

\* A lease runs out: the row keeps its token until it is claimed again.
LEMMA ExpiryStep ==
  ASSUME IInv, NEW d \in Deliveries, OrphanExpires(d) \/ HeldLeaseExpires(d)
  PROVE  IInv'
<1> DEFINE row == [delivery[d] EXCEPT !.live = FALSE]
<1>1. Shape /\ RowOK(d)
  BY TypeShape DEF IInv
<1>2. delivery[d] \in Row /\ delivery[d].token # Nil
  BY <1>1 DEF Shape, RowOK, OrphanExpires, HeldLeaseExpires
<1>3. row \in Row
  BY <1>2, ChangedRow, NoErrors DEF Status
<1>4. /\ row.live = FALSE /\ row.seq = delivery[d].seq
      /\ row.status = delivery[d].status /\ row.token = delivery[d].token
      /\ row.errors = delivery[d].errors
  BY <1>2 DEF Row
<1>5. delivery' = [delivery EXCEPT ![d] = row]
  BY DEF OrphanExpires, HeldLeaseExpires
<1> HIDE DEF row
<1>6. row.status \in {"submitting", "processing"} /\ row.errors < MaxErrors
  BY <1>2, <1>4, LeasedRow
<1>7. ~(row.errors >= MaxErrors)
  BY <1>3, <1>6, MemoryDeliveryAssumption DEF Row
<1>8. row.status = "processing" => native[d].status # "not_found"
  BY <1>1, <1>4 DEF RowOK
<1>9. faults' \in 0..MaxFaults
  BY <1>1, MemoryDeliveryAssumption DEF Shape, OrphanExpires, HeldLeaseExpires
<1>10. /\ UNCHANGED <<next, native, stray, sight, asked, proc>>
       /\ proc' \in [Workers -> Loop]
  BY <1>1 DEF Shape, OrphanExpires, HeldLeaseExpires
<1>11. QED BY <1>2, <1>3, <1>4, <1>5, <1>6, <1>7, <1>8, <1>9, <1>10, LeasedStep

\* The dispatch is announced: the request column is cleared under the lease.
LEMMA StartDispatchStep ==
  ASSUME IInv, NEW w \in Workers, StartDispatch(w)
  PROVE  IInv'
<1>1. PICK d \in Deliveries : d = proc[w].op /\ delivery[d].token # Nil
  BY OwnedRow DEF StartDispatch
<1>2. proc[w].token \in Tokens
  BY WorkingLoop DEF StartDispatch
<1>3. Shape /\ RowOK(d) /\ ProcOK(proc[w])
  BY TypeShape DEF IInv
<1> DEFINE row == [delivery[d] EXCEPT !.retry = FALSE]
           p == [proc[w] EXCEPT !.pc = "calling"]
<1>4. delivery[d] \in Row /\ proc[w] \in Loop
  BY <1>3 DEF Shape
<1>5. row \in Row
  BY <1>4, ChangedRow, NoErrors DEF Status
<1>6. /\ row.live = delivery[d].live /\ row.seq = delivery[d].seq
      /\ row.status = delivery[d].status /\ row.token = delivery[d].token
      /\ row.errors = delivery[d].errors
  BY <1>4 DEF Row
<1>7. /\ p \in Loop /\ p.pc = "calling" /\ p.op = d
      /\ p.token = proc[w].token /\ p.saw = proc[w].saw
  BY <1>1, <1>4 DEF Loop, Step
<1>8. delivery' = [delivery EXCEPT ![d] = row] /\ proc' = [proc EXCEPT ![w] = p]
  BY <1>1 DEF StartDispatch
<1> HIDE DEF row, p
<1>9. row.status \in {"submitting", "processing"} /\ row.errors < MaxErrors
  BY <1>1, <1>6, LeasedRow
<1>10. ~(row.errors >= MaxErrors)
  BY <1>5, <1>9, MemoryDeliveryAssumption DEF Row
<1>11. row.status = "processing" => native[d].status # "not_found"
  BY <1>3, <1>6 DEF RowOK
<1>12. row.live => row.token # Nil
  BY <1>1, <1>6
<1>13. UNCHANGED <<next, native, stray, sight, asked, faults>>
  BY DEF StartDispatch
<1>14. /\ proc' \in [Workers -> Loop] /\ proc'[w] = p
       /\ \A v \in Workers : v # w => proc'[v] = proc[v]
  BY <1>3, <1>7, <1>8 DEF Shape
<1>15. proc[w].saw # "not_found" => native[d].status # "not_found"
  BY <1>1, <1>3 DEF ProcOK, StartDispatch
<1>16. ASSUME ~Untouched(d)', InFront(d)' PROVE ProcOK(proc[w])'
  BY <1>2, <1>7, <1>13, <1>14, <1>15, <1>16 DEF ProcOK
<1>17. ASSUME ~Untouched(d)', InFront(d)'
       PROVE  \A v \in Workers : proc'[v] = proc[v] \/ ProcOK(proc[v])'
  BY <1>14, <1>16, <1>17
<1>18. faults' \in 0..MaxFaults
  BY <1>3, <1>13 DEF Shape
<1>19. QED BY <1>1, <1>5, <1>6, <1>8, <1>9, <1>10, <1>11, <1>12, <1>13, <1>14,
              <1>17, <1>18, LeasedStep

\* A loop ends its work by a fenced write that clears the lease.
LEMMA SettleStep ==
  ASSUME IInv, NEW w \in Workers, Owns(w),
         NEW row \in Row,
         delivery' = [delivery EXCEPT ![proc[w].op] = row],
         row.seq = delivery[proc[w].op].seq, row.token = Nil, ~row.live,
         row.status \in {"processing", "retained", "failed", "uncertain"},
         row.errors >= MaxErrors => row.status \in {"failed", "uncertain"},
         row.status = "retained" => native[proc[w].op].status = "completed",
         row.status = "processing" => native[proc[w].op].status # "not_found",
         proc' = [proc EXCEPT ![w] = Idle],
         UNCHANGED <<next, native, stray, sight, asked, faults>>
  PROVE  IInv'
<1>1. PICK d \in Deliveries : d = proc[w].op /\ delivery[d].token # Nil
  BY OwnedRow
<1>2. Shape
  BY TypeShape DEF IInv
<1>3. Idle \in Loop
  BY BlankShapes
<1>4. /\ proc' \in [Workers -> Loop] /\ proc'[w] = Idle
      /\ \A v \in Workers : v # w => proc'[v] = proc[v]
  BY <1>2, <1>3 DEF Shape
<1>5. ProcOK(proc[w])'
  BY <1>4 DEF ProcOK, Idle
<1>6. \A v \in Workers : proc'[v] = proc[v] \/ ProcOK(proc[v])'
  BY <1>4, <1>5
<1>7. faults' \in 0..MaxFaults
  BY <1>2 DEF Shape
<1>8. QED BY <1>1, <1>4, <1>6, <1>7, LeasedStep

\* What the check found is recorded.
LEMMA RecordStep ==
  ASSUME IInv, NEW w \in Workers, Record(w)
  PROVE  IInv'
<1>1. PICK d \in Deliveries : d = proc[w].op /\ delivery[d].token # Nil
  BY OwnedRow DEF Record
<1>2. Shape /\ ProcOK(proc[w])
  BY TypeShape DEF IInv
<1> DEFINE s == Recorded(proc[w].saw)
           row == [delivery[d] EXCEPT !.status = s, !.errors = 0,
                                      !.retry = FALSE, !.token = Nil,
                                      !.live = FALSE]
<1>3. s \in {"processing", "retained", "failed"}
  BY DEF Recorded
<1>4. /\ s = "retained" => proc[w].saw = "completed"
      /\ s = "processing" => proc[w].saw \notin {"completed", "failed"}
  BY DEF Recorded
<1>5. /\ s = "retained" => native[d].status = "completed"
      /\ s = "processing" => native[d].status # "not_found"
  BY <1>1, <1>2, <1>4 DEF ProcOK, Record
<1>6. s \in Status /\ delivery[d] \in Row
  BY <1>2, <1>3 DEF Status, Shape
<1> HIDE DEF s
<1>7. row \in Row
  BY <1>6, ChangedRow, NoErrors
<1>8. /\ row.status = s /\ row.seq = delivery[d].seq /\ row.token = Nil
      /\ ~row.live /\ row.errors = 0
  BY <1>6 DEF Row
<1>9. /\ delivery' = [delivery EXCEPT ![d] = row]
      /\ proc' = [proc EXCEPT ![w] = Idle]
  BY <1>1 DEF Record, s
<1> HIDE DEF row
<1>10. ~(row.errors >= MaxErrors)
  BY <1>8, MemoryDeliveryAssumption
<1>11. QED BY <1>1, <1>3, <1>5, <1>7, <1>8, <1>9, <1>10, SettleStep DEF Record

\* An error is counted, and the row is left uncertain or failed.
LEMMA RecordErrorStep ==
  ASSUME IInv, NEW w \in Workers, RecordError(w)
  PROVE  IInv'
<1>1. PICK d \in Deliveries : d = proc[w].op /\ delivery[d].token # Nil
  BY OwnedRow DEF RecordError
<1>2. Shape
  BY TypeShape DEF IInv
<1> DEFINE s == IF proc[w].permanent THEN "failed" ELSE "uncertain"
           n == delivery[d].errors + 1
           row == [delivery[d] EXCEPT !.status = s, !.errors = n,
                                      !.token = Nil, !.live = FALSE]
<1>3. s \in {"failed", "uncertain"}
  OBVIOUS
<1>4. delivery[d] \in Row /\ delivery[d].errors < MaxErrors
  BY <1>1, <1>2, LeasedRow DEF Shape
<1>5. n \in 0..MaxErrors
  BY <1>4, MemoryDeliveryAssumption DEF Row
<1>6. s \in Status
  BY <1>3 DEF Status
<1>7. /\ delivery' = [delivery EXCEPT ![d] = row]
      /\ proc' = [proc EXCEPT ![w] = Idle]
  BY <1>1 DEF RecordError
<1> HIDE DEF s, n
<1>8. row \in Row
  BY <1>4, <1>5, <1>6, ChangedRow
<1>9. /\ row.status = s /\ row.seq = delivery[d].seq /\ row.token = Nil
      /\ ~row.live
  BY <1>4 DEF Row
<1> HIDE DEF row
<1>10. QED BY <1>1, <1>3, <1>7, <1>8, <1>9, SettleStep DEF RecordError

\* A claim: the first unfinished row of its relationship, under a new token.
LEMMA ClaimStep ==
  ASSUME IInv, NEW w \in Workers, NEW d \in Deliveries, NEW t \in Tokens,
         Claim(w, d, t)
  PROVE  IInv'
<1> DEFINE s == ClaimedStatus(delivery[d].status)
           row == [delivery[d] EXCEPT !.status = s, !.token = t, !.live = TRUE]
           p == [Idle EXCEPT !.pc = "checking", !.op = d, !.token = t,
                             !.retry = delivery[d].retry]
<1>1. Shape /\ RowOK(d)
  BY TypeShape DEF IInv
<1>2. /\ InFront(d) /\ delivery[d].errors < MaxErrors
      /\ delivery[d].status \in {"queued", "submitting", "processing",
                                 "uncertain"}
  BY DEF Claim, Claimable, InFront
<1>3. /\ s \in {"submitting", "processing"} /\ s \in Status
      /\ s = "processing" => delivery[d].status = "processing"
  BY <1>2 DEF ClaimedStatus, Status
<1>4. delivery[d] \in Row /\ t # Nil
  BY <1>1, MemoryDeliveryAssumption DEF Shape
<1>5. /\ delivery' = [delivery EXCEPT ![d] = row]
      /\ proc' = [proc EXCEPT ![w] = p]
  BY DEF Claim
<1>6. /\ p \in Loop /\ p.pc = "checking" /\ p.op = d /\ p.token = t
  BY <1>4 DEF Row, Idle, Loop, Step
<1> HIDE DEF s
<1>7. row \in Row
  BY <1>3, <1>4, ChangedRow, NoErrors
<1>8. /\ row.status = s /\ row.seq = delivery[d].seq /\ row.token = t
      /\ row.live /\ row.errors = delivery[d].errors
  BY <1>4 DEF Row
<1> HIDE DEF row, p
<1>9. /\ delivery' \in [Deliveries -> Row] /\ delivery'[d] = row
      /\ \A e \in Deliveries : e # d => delivery'[e] = delivery[e]
      /\ proc' \in [Workers -> Loop] /\ proc'[w] = p
      /\ \A v \in Workers : v # w => proc'[v] = proc[v]
  BY <1>1, <1>5, <1>6, <1>7 DEF Shape
<1>10. /\ sight' \in [Deliveries -> {"none", "current", "stale"}]
       /\ sight[d] = "none" => sight'[d] = "none"
       /\ \A e \in Deliveries : e # d => sight'[e] = sight[e]
  BY <1>1 DEF Claim, Shape
<1>11. UNCHANGED <<next, native, stray, asked, faults>>
  BY DEF Claim
<1>12. TypeOK'
  BY <1>1, <1>9, <1>10, <1>11, TypeShape DEF Shape
<1>13. ~Untouched(d)'
  BY <1>3, <1>8, <1>9 DEF Untouched
<1>14. ~(row.errors >= MaxErrors)
  BY <1>2, <1>7, <1>8, MemoryDeliveryAssumption DEF Row
<1>15. ASSUME InFront(d)' PROVE RowOK(d)'
  BY <1>1, <1>2, <1>3, <1>4, <1>8, <1>9, <1>10, <1>11, <1>13, <1>14, <1>15 DEF RowOK
<1>16. ASSUME InFront(d)' PROVE ProcOK(proc[w])'
  BY <1>6, <1>9, <1>13, <1>16 DEF ProcOK
<1>17. ASSUME InFront(d) => InFront(d)'
       PROVE  /\ RowOK(d)'
              /\ \A v \in Workers : proc'[v] = proc[v] \/ ProcOK(proc[v])'
  BY <1>2, <1>9, <1>15, <1>16, <1>17
<1>18. /\ delivery[d].status \notin {"absent", "retained"}
       /\ delivery'[d].status # "absent" /\ delivery'[d].seq = delivery[d].seq
  BY <1>2, <1>3, <1>8, <1>9
<1>19. QED BY <1>9, <1>10, <1>11, <1>12, <1>13, <1>17, <1>18, OneDeliveryStep

\* A new row comes after every other of its relationship, so nothing that was
\* in front is held up by it.
LEMMA EnqueueFront ==
  ASSUME IInv, NEW d \in Deliveries, Enqueue(d),
         NEW e \in Deliveries, e # d, delivery[e].status # "absent",
         InFront(e)
  PROVE  InFront(e)'
<1> DEFINE row == [delivery[d] EXCEPT !.status = "queued",
                                      !.seq = next[BankOf[d]]]
<1>1. Shape /\ \A f \in Deliveries : RowOK(f)
  BY TypeShape DEF IInv
<1>2. delivery[d] \in Row /\ BankOf[d] \in Banks /\ next[BankOf[d]] \in Nat
  BY <1>1, MemoryDeliveryAssumption DEF Shape
<1>3. row.seq = next[BankOf[d]]
  BY <1>2 DEF Row
<1>4. delivery' = [delivery EXCEPT ![d] = row]
  BY DEF Enqueue
<1> HIDE DEF row
<1>5. /\ delivery'[d] = row
      /\ \A f \in Deliveries : f # d => delivery'[f] = delivery[f]
  BY <1>1, <1>4 DEF Shape
<1>6. delivery'[e] = delivery[e] /\ delivery[e].seq < next[BankOf[e]]
  BY <1>1, <1>5 DEF RowOK
<1>7. BankOf[e] = BankOf[d] => ~(delivery'[d].seq < delivery'[e].seq)
  BY <1>1, <1>2, <1>3, <1>5, <1>6 DEF Shape, Row
<1>8. ASSUME NEW f \in Deliveries, f \in Earlier(e)'
      PROVE  delivery'[f].status = "retained"
  <2>1. f # d
    BY <1>7, <1>8 DEF Earlier
  <2>2. delivery'[f] = delivery[f]
    BY <1>5, <2>1
  <2>3. f \in Earlier(e)
    BY <1>6, <1>8, <2>2 DEF Earlier
  <2>4. QED BY <2>2, <2>3 DEF InFront
<1>9. Earlier(e)' \subseteq Deliveries
  BY DEF Earlier
<1>10. QED BY <1>8, <1>9 DEF InFront

\* A message is accepted.
LEMMA EnqueueStep ==
  ASSUME IInv, NEW d \in Deliveries, Enqueue(d)
  PROVE  IInv'
<1> DEFINE row == [delivery[d] EXCEPT !.status = "queued",
                                      !.seq = next[BankOf[d]]]
<1>1. /\ Shape
      /\ \A e \in Deliveries : RowOK(e)
      /\ \A w \in Workers : ProcOK(proc[w])
  BY TypeShape DEF IInv
<1>2. /\ delivery[d].status = "absent" /\ delivery[d] = NoDelivery
      /\ delivery[d] \in Row /\ BankOf[d] \in Banks /\ next[BankOf[d]] \in Nat
  BY <1>1, MemoryDeliveryAssumption DEF Enqueue, RowOK, Shape
<1>3. row \in Row
  <2>1. ASSUME NEW r \in Row, NEW n \in Nat
        PROVE  [r EXCEPT !.status = "queued", !.seq = n] \in Row
    BY DEF Row, Status
  <2>2. QED BY <1>2, <2>1
<1>4. /\ row.status = "queued" /\ row.seq = next[BankOf[d]] /\ row.token = Nil
      /\ row.live = FALSE /\ row.errors = 0
  BY <1>2 DEF Row, NoDelivery
<1>5. delivery' = [delivery EXCEPT ![d] = row]
  BY DEF Enqueue
<1> HIDE DEF row
<1>6. /\ delivery' \in [Deliveries -> Row] /\ delivery'[d] = row
      /\ \A e \in Deliveries : e # d => delivery'[e] = delivery[e]
  BY <1>1, <1>3, <1>5 DEF Shape
<1>7. /\ next' \in [Banks -> Nat] /\ next'[BankOf[d]] = next[BankOf[d]] + 1
      /\ \A b \in Banks : b # BankOf[d] => next'[b] = next[b]
  BY <1>1, <1>2 DEF Enqueue, Shape
<1>8. UNCHANGED <<native, stray, proc, sight, asked, faults>>
  BY DEF Enqueue
<1>9. TypeOK'
  BY <1>1, <1>6, <1>7, <1>8, TypeShape DEF Shape
<1>10. ASSUME NEW e \in Deliveries, e # d, delivery[e].status # "absent",
              InFront(e)
       PROVE  InFront(e)'
  BY <1>10, EnqueueFront
<1>11. ASSUME NEW e \in Deliveries PROVE RowOK(e)'
  <2>1. CASE e = d
    <3>1. /\ native[d] = NoOperation /\ stray[d] = NoStray
          /\ asked[d] = 0 => sight[d] = "none"
      BY <1>1, <1>2 DEF RowOK, Untouched
    <3>2. row.seq < next'[BankOf[d]]
      BY <1>2, <1>4, <1>7
    <3>3. ~(row.errors >= MaxErrors)
      BY <1>4, MemoryDeliveryAssumption
    <3>6. /\ delivery'[d] = row /\ native'[d] = NoOperation
          /\ stray'[d] = NoStray /\ asked'[d] = asked[d]
          /\ sight'[d] = sight[d]
      BY <1>6, <1>8, <3>1
    <3>7. row.status # "absent" /\ row.status # "retained"
          /\ row.status # "processing" /\ ~row.live
      BY <1>4
    <3>4. RowOK(d)'
      BY <1>4, <3>1, <3>2, <3>3, <3>6, <3>7 DEF RowOK
    <3>5. QED BY <2>1, <3>4
  <2>2. CASE e # d
    <3>1. RowOK(e) /\ delivery'[e] = delivery[e]
      BY <1>1, <1>6, <2>2
    <3>2. CASE delivery[e].status = "absent"
      BY <1>8, <3>1, <3>2 DEF RowOK, Untouched, NoDelivery
    <3>3. CASE delivery[e].status # "absent"
      <4>1. InFront(e) => InFront(e)'
        BY <1>10, <2>2, <3>3
      <4>2. Untouched(e)' <=> Untouched(e)
        BY <1>8, <3>1 DEF Untouched
      <4>3. delivery[e].seq < next'[BankOf[e]]
        <5>1. BankOf[e] \in Banks /\ delivery[e].seq \in Nat
          BY <1>1, MemoryDeliveryAssumption DEF Shape, Row
        <5>2. delivery[e].seq < next[BankOf[e]]
          BY <3>1, <3>3 DEF RowOK
        <5>3. CASE BankOf[e] = BankOf[d]
          BY <1>2, <1>7, <5>1, <5>2, <5>3
        <5>4. CASE BankOf[e] # BankOf[d]
          BY <1>7, <5>1, <5>2, <5>4
        <5>5. QED BY <5>3, <5>4
      <4>4. QED BY <1>8, <3>1, <3>3, <4>1, <4>2, <4>3 DEF RowOK
    <3>4. QED BY <3>2, <3>3
  <2>3. QED BY <2>1, <2>2
<1>12. ASSUME NEW w \in Workers PROVE ProcOK(proc[w])'
  <2>1. proc'[w] = proc[w] /\ ProcOK(proc[w])
    BY <1>1, <1>8
  <2>2. CASE proc[w].pc = "idle"
    BY <2>1, <2>2 DEF ProcOK
  <2>3. CASE proc[w].pc # "idle"
    <3>1. PICK e \in Deliveries : e = proc[w].op
      BY <2>1, <2>3 DEF ProcOK
    <3>2. ~Untouched(e) /\ InFront(e)
      BY <2>1, <2>3, <3>1 DEF ProcOK
    <3>3. delivery[e].status # "absent" /\ e # d
      BY <1>2, <3>2 DEF Untouched
    <3>4. InFront(e)'
      BY <1>10, <3>2, <3>3
    <3>5. ~Untouched(e)'
      BY <1>6, <1>8, <3>2, <3>3 DEF Untouched
    <3>6. QED BY <1>8, <2>1, <2>3, <3>1, <3>4, <3>5 DEF ProcOK
  <2>4. QED BY <2>2, <2>3
<1>13. QED BY <1>9, <1>11, <1>12 DEF IInv

-----------------------------------------------------------------------------
(* The theorems.                                                           *)

\* Every step of the outbox, of its consumers and of the service keeps the
\* invariant.
LEMMA NextStep == IInv /\ [Next]_vars => IInv'
<1> SUFFICES ASSUME IInv, [Next]_vars PROVE IInv'
  OBVIOUS
<1>1. ASSUME NEW d \in Deliveries,
             \/ Enqueue(d) \/ Decide(d) \/ RequestRetry(d) \/ ClaimDelivery(d)
             \/ NativeFinishes(d) \/ StraySubmit(d) \/ StrayRetry(d)
             \/ OrphanExpires(d) \/ HeldLeaseExpires(d)
      PROVE  IInv'
  <2>1. CASE ClaimDelivery(d)
    BY <2>1, ClaimStep DEF ClaimDelivery
  <2>2. QED BY <1>1, <2>1, EnqueueStep, DecideStep, RequestRetryStep,
               ServiceStep, ExpiryStep
<1>2. ASSUME NEW w \in Workers, Perform(w) \/ Crash(w) PROVE IInv'
  BY <1>2, CheckStep, StartDispatchStep, AnsweredStep, RecordStep, FailsStep,
     RecordErrorStep, GivesUpStep DEF Perform
<1>3. CASE UNCHANGED vars
  BY <1>3 DEF vars, IInv, TypeOK, RowOK, ProcOK, Untouched, InFront, Earlier
<1>4. QED BY <1>1, <1>2, <1>3 DEF Next

\* The inductive invariant holds in every reachable state.
THEOREM InvariantHolds == Spec => []IInv
<1>1. QED BY InitIInv, NextStep, PTL DEF Spec

\* Rows, operations, requests and loops keep their shapes.
THEOREM TypeCorrect == Spec => []TypeOK
<1>1. IInv => TypeOK
  BY DEF IInv
<1>2. QED BY <1>1, InvariantHolds, PTL

\* The service hears of a message only after every earlier message of its
\* relationship has been completed there and recorded as retained.
THEOREM Ordered == Spec => []DeliveredInOrder
<1>1. IInv => DeliveredInOrder
  <2> SUFFICES ASSUME IInv, NEW d \in Deliveries,
                      \/ native[d].status # "not_found"
                      \/ stray[d] # NoStray
                      \/ \E w \in Workers : proc[w].op = d,
                      NEW e \in Earlier(d)
               PROVE  /\ delivery[e].status = "retained"
                      /\ native[e].status = "completed"
    BY DEF DeliveredInOrder
  <2>1. native[d] = NoOperation => native[d].status = "not_found"
    BY DEF NoOperation
  <2>2. InFront(d)
    <3>1. CASE \E w \in Workers : proc[w].op = d
      <4>1. PICK w \in Workers : proc[w].op = d
        BY <3>1
      <4>2. proc[w] # Idle
        BY <4>1, MemoryDeliveryAssumption DEF Idle
      <4>3. QED BY <4>1, <4>2 DEF IInv, ProcOK
    <3>2. QED BY <2>1, <3>1 DEF IInv, RowOK
  <2>3. delivery[e].status = "retained" /\ e \in Deliveries
    BY <2>2 DEF InFront, Earlier
  <2>4. QED BY <2>3 DEF IInv, RowOK
<1>2. QED BY <1>1, InvariantHolds, PTL

\* A row never claims more than the service has done, and a message no loop
\* has claimed is unknown there.
THEOREM RowsAreTrue == Spec => []StatusFollowsNative
<1>1. IInv => StatusFollowsNative
  <2> SUFFICES ASSUME IInv, NEW d \in Deliveries
               PROVE  LET s == delivery[d].status
                      IN  /\ s = "retained" => native[d].status = "completed"
                          /\ s = "processing" => native[d].status # "not_found"
                          /\ s = "absent" \/ (s = "queued" /\ asked[d] = 0) =>
                               /\ native[d].status = "not_found"
                               /\ stray[d] = NoStray
    BY DEF StatusFollowsNative
  <2>1. RowOK(d)
    BY DEF IInv
  <2>2. QED BY <2>1 DEF RowOK, Untouched, NoOperation
<1>2. QED BY <1>1, InvariantHolds, PTL

\* A row that only a person can set going again is failed or uncertain and
\* carries no lease, so that a Retry finds it in a state it accepts.
THEOREM BlockedCanBeReopened == Spec => []BlockedWaitsForPerson
<1>1. IInv => BlockedWaitsForPerson
  <2> SUFFICES ASSUME IInv, NEW d \in Deliveries, Blocked(d)
               PROVE  /\ delivery[d].status \in {"failed", "uncertain"}
                      /\ delivery[d].token = Nil
    BY DEF BlockedWaitsForPerson
  <2>1. RowOK(d)
    BY DEF IInv
  <2>2. delivery[d].status \in {"failed", "uncertain"}
    BY <2>1 DEF RowOK, Blocked
  <2>3. QED BY <2>1, <2>2 DEF RowOK
<1>2. QED BY <1>1, InvariantHolds, PTL

\* A verdict about a row is written only by the loop that holds its lease at
\* that moment.
THEOREM Fenced == Spec => StaleCheckWritesNothing
<1>1. IInv /\ [Next]_vars =>
        [\A d \in Deliveries :
           /\ delivery'[d].status # delivery[d].status
           /\ delivery'[d].status \in {"processing", "retained", "failed",
                                       "uncertain"}
           => \E w \in Workers :
                /\ proc[w].op = d /\ proc'[w] = Idle
                /\ delivery[d].live /\ delivery[d].token = proc[w].token]_vars
  <2> SUFFICES ASSUME IInv, Next, NEW d \in Deliveries,
                      delivery'[d].status # delivery[d].status,
                      delivery'[d].status \in {"processing", "retained",
                                               "failed", "uncertain"}
               PROVE  \E w \in Workers :
                        /\ proc[w].op = d /\ proc'[w] = Idle
                        /\ delivery[d].live
                        /\ delivery[d].token = proc[w].token
    OBVIOUS
  <2>1. Shape /\ delivery[d] \in Row
    BY TypeShape DEF IInv, Shape
  <2>2. ASSUME NEW e, NEW row, delivery' = [delivery EXCEPT ![e] = row]
        PROVE  e = d /\ delivery'[d] = row
    BY <2>1, <2>2 DEF Shape
  <2>3. ASSUME NEW w \in Workers, Record(w) \/ RecordError(w)
        PROVE  /\ proc[w].op = d /\ proc'[w] = Idle
               /\ delivery[d].live /\ delivery[d].token = proc[w].token
    <3>1. proc'[w] = Idle
      BY <2>1, <2>3 DEF Record, RecordError, Shape
    <3>2. PICK row : delivery' = [delivery EXCEPT ![proc[w].op] = row]
      BY <2>3 DEF Record, RecordError
    <3>3. proc[w].op = d
      BY <2>2, <3>2
    <3>4. QED BY <2>3, <3>1, <3>3, OwnedRow DEF Record, RecordError
  <2>4. ASSUME NEW w \in Workers, StartDispatch(w) PROVE FALSE
    <3> DEFINE row == [delivery[proc[w].op] EXCEPT !.retry = FALSE]
    <3>1. delivery' = [delivery EXCEPT ![proc[w].op] = row]
      BY <2>4 DEF StartDispatch
    <3>2. proc[w].op = d /\ delivery'[d] = row
      <4> HIDE DEF row
      <4>1. QED BY <2>2, <3>1
    <3>3. row.status = delivery[d].status
      BY <2>1, <3>2 DEF Row
    <3>4. QED BY <3>2, <3>3
  <2>5. ASSUME NEW e \in Deliveries, Enqueue(e) \/ RequestRetry(e) PROVE FALSE
    <3>1. PICK row : /\ delivery' = [delivery EXCEPT ![e] = row]
                     /\ \/ row = [delivery[e] EXCEPT !.status = "queued",
                                                     !.seq = next[BankOf[e]]]
                        \/ row = [delivery[e] EXCEPT !.status = "queued",
                                                     !.retry = TRUE, !.errors = 0]
      BY <2>5 DEF Enqueue, RequestRetry
    <3>2. e = d /\ delivery'[d] = row
      BY <2>2, <3>1
    <3>3. row.status = "queued"
      BY <2>1, <3>1, <3>2 DEF Row
    <3>4. QED BY <3>2, <3>3
  <2>6. ASSUME NEW e \in Deliveries, ClaimDelivery(e) PROVE FALSE
    <3> DEFINE s == ClaimedStatus(delivery[e].status)
    <3>1. PICK t \in Tokens :
            delivery' = [delivery EXCEPT ![e] =
                           [delivery[e] EXCEPT !.status = s, !.token = t,
                                               !.live = TRUE]]
      BY <2>6 DEF ClaimDelivery, Claim
    <3>2. s = "submitting" \/ s = delivery[e].status
      BY DEF ClaimedStatus
    <3> HIDE DEF s
    <3> DEFINE row == [delivery[e] EXCEPT !.status = s, !.token = t,
                                          !.live = TRUE]
    <3>3. e = d /\ delivery'[d] = row
      BY <2>2, <3>1
    <3>4. row.status = s
      BY <2>1, <3>3 DEF Row
    <3>5. QED BY <3>2, <3>3, <3>4
  <2>7. ASSUME NEW e \in Deliveries, OrphanExpires(e) \/ HeldLeaseExpires(e)
        PROVE  FALSE
    <3> DEFINE row == [delivery[e] EXCEPT !.live = FALSE]
    <3>1. delivery' = [delivery EXCEPT ![e] = row]
      BY <2>7 DEF OrphanExpires, HeldLeaseExpires
    <3>2. e = d /\ delivery'[d] = row
      <4> HIDE DEF row
      <4>1. QED BY <2>2, <3>1
    <3>3. row.status = delivery[e].status
      BY <2>1, <3>2 DEF Row
    <3>4. QED BY <3>2, <3>3
  <2>8. ASSUME UNCHANGED delivery PROVE FALSE
    BY <2>8
  <2>9. ASSUME NEW e \in Deliveries,
               \/ Decide(e) \/ NativeFinishes(e) \/ StraySubmit(e)
               \/ StrayRetry(e)
        PROVE  FALSE
    BY <2>8, <2>9 DEF Decide, NativeFinishes, StraySubmit, StrayRetry
  <2>10. ASSUME NEW w \in Workers,
                \/ Check(w) \/ Answered(w) \/ LosesLease(w) \/ Crash(w)
                \/ \E permanent \in BOOLEAN : Fails(w, permanent)
         PROVE  FALSE
    BY <2>8, <2>10 DEF Check, Answered, LosesLease, Crash, Fails
  <2>11. QED BY <2>3, <2>4, <2>5, <2>6, <2>7, <2>9, <2>10 DEF Next, Perform
<1>2. QED BY <1>1, InvariantHolds, PTL DEF Spec, StaleCheckWritesNothing

-----------------------------------------------------------------------------
(* What the service is made to do. Every run of an operation, and every     *)
(* request that may still cause one, is paid for: the first by the          *)
(* operation's appearance, each further one by a person's decision.         *)

\* The loop state p is sending a Retry of d.
IsRetrier(p, d) == p.pc = "calling" /\ p.op = d /\ p.saw # "not_found"
Sends(p, d) == One(IsRetrier(p, d))

\* The account of d without the loops: at most zero with them.
Balance(d) ==
  native[d].runs + stray[d].retries + One(delivery[d].retry) + One(Undone(d))
    - One(native[d].status # "not_found") - asked[d]

\* A condition counts for one or for nothing.
LEMMA OneOrNone == \A b : One(b) \in {0, 1}
  BY DEF One

\* A loop sends a Retry of a delivery or it does not.
LEMMA SendsOrNot ==
  ASSUME NEW p, NEW d
  PROVE  /\ Sends(p, d) \in {0, 1}
         /\ IsRetrier(p, d) => Sends(p, d) = 1
         /\ ~IsRetrier(p, d) => Sends(p, d) = 0
  BY DEF Sends, One

IntegerBalances ==
  \A d \in Deliveries : /\ Balance(d) \in Int
                        /\ native[d].runs \in Nat /\ stray[d].retries \in Nat
                        /\ asked[d] \in Nat

\* The account of every delivery, with the loops that send a Retry of it.
BalancedRows ==
  \A d \in Deliveries :
    WorkRow(d) <=>
      /\ IsFiniteSet(Retriers(d))
      /\ native[d].status = "not_found" => native[d].runs = 0
      /\ Balance(d) + Cardinality(Retriers(d)) <= 0

\* The numbers of an account are integers.
LEMMA BalanceIsInteger == Shape => IntegerBalances
<1> SUFFICES ASSUME Shape, NEW d \in Deliveries
             PROVE  /\ Balance(d) \in Int
                    /\ native[d].runs \in Nat /\ stray[d].retries \in Nat
                    /\ asked[d] \in Nat
  BY DEF IntegerBalances
<1>1. /\ native[d].runs \in Nat /\ stray[d].retries \in Nat
      /\ asked[d] \in Nat
  BY MemoryDeliveryAssumption DEF Shape, Operation, Requests
<1>2. /\ One(delivery[d].retry) \in Int /\ One(Undone(d)) \in Int
      /\ One(native[d].status # "not_found") \in Int
  BY OneOrNone
<1>3. QED BY <1>1, <1>2 DEF Balance

\* The work a delivery accounts for is its balance and its Retriers.
LEMMA WorkIsBalance == Shape => BalancedRows
<1> SUFFICES ASSUME Shape, NEW d \in Deliveries, IsFiniteSet(Retriers(d))
             PROVE  Work(d) <= One(native[d].status # "not_found") + asked[d]
                      <=> Balance(d) + Cardinality(Retriers(d)) <= 0
  BY DEF WorkRow, BalancedRows
<1>1. Cardinality(Retriers(d)) \in Nat
  BY FS_CardinalityType
<1>2. /\ native[d].runs \in Nat /\ stray[d].retries \in Nat
      /\ asked[d] \in Nat
  BY BalanceIsInteger DEF IntegerBalances
<1>3. /\ One(delivery[d].retry) \in Int /\ One(Undone(d)) \in Int
      /\ One(native[d].status # "not_found") \in Int
  BY OneOrNone
<1>4. QED BY <1>1, <1>2, <1>3 DEF Work, Balance

\* One loop changes: the number of those sending a Retry of d changes by one
\* at most.
LEMMA RetriersStep ==
  ASSUME Shape, NEW w \in Workers, NEW p, proc' = [proc EXCEPT ![w] = p],
         NEW d \in Deliveries, IsFiniteSet(Retriers(d))
  PROVE  /\ IsFiniteSet(Retriers(d)')
         /\ Cardinality(Retriers(d)) \in Nat
         /\ Cardinality(Retriers(d)') =
              Cardinality(Retriers(d)) + Sends(p, d)
                - Sends(proc[w], d)
<1> DEFINE old == Retriers(d)
           new == Retriers(d)'
<1>1. /\ proc'[w] = p
      /\ \A v \in Workers : v # w => proc'[v] = proc[v]
  BY DEF Shape
<1>2. /\ \A v \in Workers : v \in old <=> IsRetrier(proc[v], d)
      /\ \A v \in Workers : v \in new <=> IsRetrier(proc'[v], d)
      /\ old \subseteq Workers /\ new \subseteq Workers
  BY DEF Retriers, IsRetrier
<1>3. IsFiniteSet(old) /\ Cardinality(old) \in Nat
  BY FS_CardinalityType
<1> HIDE DEF old, new
<1>4. CASE IsRetrier(p, d) /\ IsRetrier(proc[w], d)
  <2>1. new = old
    BY <1>1, <1>2, <1>4
  <2>2. Sends(p, d) = 1 /\ Sends(proc[w], d) = 1
    BY <1>4, SendsOrNot
  <2>3. QED BY <1>3, <2>1, <2>2 DEF old, new
<1>5. CASE IsRetrier(p, d) /\ ~IsRetrier(proc[w], d)
  <2>1. new = old \cup {w} /\ w \notin old
    BY <1>1, <1>2, <1>5
  <2>2. Sends(p, d) = 1 /\ Sends(proc[w], d) = 0
    BY <1>5, SendsOrNot
  <2>3. IsFiniteSet(new) /\ Cardinality(new) = Cardinality(old) + 1
    BY <1>3, <2>1, FS_AddElement
  <2>4. QED BY <1>3, <2>2, <2>3 DEF old, new
<1>6. CASE ~IsRetrier(p, d) /\ IsRetrier(proc[w], d)
  <2>1. new = old \ {w} /\ w \in old
    BY <1>1, <1>2, <1>6
  <2>2. Sends(p, d) = 0 /\ Sends(proc[w], d) = 1
    BY <1>6, SendsOrNot
  <2>3. IsFiniteSet(new) /\ Cardinality(new) = Cardinality(old) - 1
    BY <1>3, <2>1, FS_RemoveElement
  <2>4. QED BY <1>3, <2>2, <2>3 DEF old, new
<1>7. CASE ~IsRetrier(p, d) /\ ~IsRetrier(proc[w], d)
  <2>1. new = old
    BY <1>1, <1>2, <1>7
  <2>2. Sends(p, d) = 0 /\ Sends(proc[w], d) = 0
    BY <1>7, SendsOrNot
  <2>3. QED BY <1>3, <2>1, <2>2 DEF old, new
<1>8. QED BY <1>4, <1>5, <1>6, <1>7

\* A step that concerns one delivery keeps every account if it keeps that one.
LEMMA AccountStep ==
  ASSUME Shape, Shape', \A e \in Deliveries : WorkRow(e),
         NEW d \in Deliveries,
         \A e \in Deliveries : e # d =>
           /\ delivery'[e] = delivery[e] /\ native'[e] = native[e]
           /\ stray'[e] = stray[e] /\ sight'[e] = sight[e]
           /\ asked'[e] = asked[e]
           /\ IsFiniteSet(Retriers(e)')
           /\ Cardinality(Retriers(e)') <= Cardinality(Retriers(e)),
         IsFiniteSet(Retriers(d)'),
         native'[d].status = "not_found" => native'[d].runs = 0,
         Balance(d)' + Cardinality(Retriers(d)')
           <= Balance(d) + Cardinality(Retriers(d))
  PROVE  \A e \in Deliveries : WorkRow(e)'
<1> SUFFICES ASSUME NEW e \in Deliveries PROVE WorkRow(e)'
  OBVIOUS
<1>1. /\ IsFiniteSet(Retriers(e)) /\ Balance(e) + Cardinality(Retriers(e)) <= 0
      /\ native[e].status = "not_found" => native[e].runs = 0
  BY WorkIsBalance DEF BalancedRows
<1>2. Balance(e) \in Int /\ Cardinality(Retriers(e)) \in Nat
  BY <1>1, BalanceIsInteger, FS_CardinalityType DEF IntegerBalances
<1>3. IsFiniteSet(Retriers(e)')
  BY <1>1
<1>4. (Shape => IntegerBalances)'
  BY BalanceIsInteger, PTL
<1>5. Balance(e)' \in Int /\ Cardinality(Retriers(e)') \in Nat
  BY <1>3, <1>4, FS_CardinalityType DEF IntegerBalances
<1>6. native'[e].status = "not_found" => native'[e].runs = 0
  BY <1>1
<1>7. Balance(e)' + Cardinality(Retriers(e)')
        <= Balance(e) + Cardinality(Retriers(e))
  <2>1. CASE e = d
    BY <2>1
  <2>2. CASE e # d
    <3>1. Balance(e)' = Balance(e)
      BY <2>2 DEF Balance, Undone
    <3>2. QED BY <1>2, <1>5, <2>2, <3>1
  <2>3. QED BY <2>1, <2>2
<1>8. Balance(e)' + Cardinality(Retriers(e)') <= 0
  BY <1>1, <1>2, <1>5, <1>7
<1>9. (Shape => BalancedRows)'
  BY WorkIsBalance, PTL
<1>10. QED BY <1>3, <1>6, <1>8, <1>9 DEF BalancedRows

\* The loop state p is in order after the step.
RetryKept(p) ==
  /\ p.pc = "dispatching" => p.saw = "not_found" \/ p.retry
  /\ p.pc \in {"checking", "dispatching"} /\ p.retry
       /\ delivery'[p.op].token = p.token /\ delivery'[p.op].live
       => delivery'[p.op].retry

\* No other loop than w has the token t.
Unshared(w, t) ==
  \A v \in Workers : v # w /\ proc[v].token = t => t = Nil

\* The step leaves d's request to the other loops that own d.
OthersKeep(w, d) ==
  \A v \in Workers :
    /\ v # w /\ proc[v].op = d /\ RetryOK(proc[v])
    /\ proc[v].pc \in {"checking", "dispatching"} /\ proc[v].retry
    /\ delivery'[d].token = proc[v].token /\ delivery'[d].live
    => delivery'[d].retry

\* A step of one loop, for the delivery it works on.
LEMMA LoopWorkStep ==
  ASSUME IInv, IInv', WorkInv, NEW w \in Workers, NEW d \in Deliveries,
         NEW p \in Loop, proc' = [proc EXCEPT ![w] = p],
         proc[w].pc = "idle" \/ proc[w].op = d,
         p.pc = "calling" => p.op = d,
         \A e \in Deliveries : e # d =>
           /\ delivery'[e] = delivery[e] /\ native'[e] = native[e]
           /\ stray'[e] = stray[e] /\ sight'[e] = sight[e]
           /\ asked'[e] = asked[e],
         native'[d].status = "not_found" => native'[d].runs = 0,
         Balance(d)' + Sends(p, d)
           <= Balance(d) + Sends(proc[w], d),
         Unshared(w, p.token), RetryKept(p), OthersKeep(w, d)
  PROVE  WorkInv'
<1>1. Shape /\ Shape' /\ \A e \in Deliveries : WorkRow(e)
  BY TypeShape DEF IInv, WorkInv
<1>2. /\ proc'[w] = p
      /\ \A v \in Workers : v # w => proc'[v] = proc[v]
  BY <1>1 DEF Shape
<1>3. ASSUME NEW e \in Deliveries
      PROVE  /\ IsFiniteSet(Retriers(e)')
             /\ Cardinality(Retriers(e)) \in Nat
             /\ Cardinality(Retriers(e)') =
                  Cardinality(Retriers(e)) + Sends(p, e)
                    - Sends(proc[w], e)
  BY <1>1, RetriersStep DEF WorkRow
<1>4. ASSUME NEW e \in Deliveries, e # d
      PROVE  Cardinality(Retriers(e)') <= Cardinality(Retriers(e))
  <2>1. ~IsRetrier(p, e) /\ ~IsRetrier(proc[w], e)
    BY <1>4 DEF IsRetrier
  <2>2. Sends(p, e) = 0 /\ Sends(proc[w], e) = 0
    BY <2>1, SendsOrNot
  <2>3. QED BY <1>3, <2>2
<1>5. Balance(d)' + Cardinality(Retriers(d)')
        <= Balance(d) + Cardinality(Retriers(d))
  <2>1. Balance(d) \in Int
    BY <1>1, BalanceIsInteger DEF IntegerBalances
  <2>2. (Shape => IntegerBalances)'
    BY BalanceIsInteger, PTL
  <2>3. Balance(d)' \in Int
    BY <1>1, <2>2 DEF IntegerBalances
  <2>4. Sends(p, d) \in Int /\ Sends(proc[w], d) \in Int
    BY SendsOrNot
  <2>5. QED BY <1>3, <2>1, <2>3, <2>4
<1>6. \A e \in Deliveries : WorkRow(e)'
  BY <1>1, <1>3, <1>4, <1>5, AccountStep
<1>7. ASSUME NEW u \in Workers, NEW v \in Workers, u # v,
             proc'[u].token = proc'[v].token, proc'[u].token # Nil
      PROVE  FALSE
  <2>1. CASE u # w /\ v # w
    <3>1. proc[u].token = proc[v].token /\ proc[u].token # Nil
      BY <1>2, <1>7, <2>1
    <3>2. QED BY <1>7, <3>1 DEF WorkInv
  <2>2. CASE u = w
    BY <1>2, <1>7, <2>2 DEF Unshared
  <2>3. CASE v = w
    BY <1>2, <1>7, <2>3 DEF Unshared
  <2>4. QED BY <2>1, <2>2, <2>3
<1>8. ASSUME NEW v \in Workers PROVE RetryOK(proc[v])'
  <2>1. CASE v = w
    BY <1>2, <2>1 DEF RetryOK, RetryKept
  <2>2. CASE v # w
    <3>1. proc'[v] = proc[v] /\ RetryOK(proc[v]) /\ ProcOK(proc[v])
      BY <1>2, <2>2 DEF WorkInv, IInv
    <3>2. CASE proc[v].op = d
      BY <2>2, <3>1, <3>2 DEF RetryOK, OthersKeep
    <3>3. CASE proc[v].op # d
      <4>1. proc[v].pc \in {"checking", "dispatching"} =>
              proc[v].op \in Deliveries
        BY <3>1 DEF ProcOK
      <4>2. QED BY <3>1, <3>3, <4>1 DEF RetryOK
    <3>4. QED BY <3>2, <3>3
  <2>3. QED BY <2>1, <2>2
<1>9. QED BY <1>6, <1>7, <1>8 DEF WorkInv

\* A step of no loop, that concerns one delivery.
LEMMA RowWorkStep ==
  ASSUME IInv, IInv', WorkInv, NEW d \in Deliveries, proc' = proc,
         \A e \in Deliveries : e # d =>
           /\ delivery'[e] = delivery[e] /\ native'[e] = native[e]
           /\ stray'[e] = stray[e] /\ sight'[e] = sight[e]
           /\ asked'[e] = asked[e],
         native'[d].status = "not_found" => native'[d].runs = 0,
         Balance(d)' <= Balance(d),
         delivery'[d].live => delivery[d].live,
         delivery'[d].token = delivery[d].token,
         delivery[d].retry => delivery'[d].retry
  PROVE  WorkInv'
<1>1. Shape /\ Shape' /\ \A e \in Deliveries : WorkRow(e)
  BY TypeShape DEF IInv, WorkInv
<1>2. ASSUME NEW e \in Deliveries
      PROVE  /\ Retriers(e)' = Retriers(e) /\ IsFiniteSet(Retriers(e))
             /\ Cardinality(Retriers(e)) \in Nat
  <2>1. IsFiniteSet(Retriers(e))
    BY <1>1 DEF WorkRow
  <2>2. QED BY <2>1, FS_CardinalityType DEF Retriers
<1>3. Balance(d)' + Cardinality(Retriers(d)')
        <= Balance(d) + Cardinality(Retriers(d))
  <2>1. Balance(d) \in Int
    BY <1>1, BalanceIsInteger DEF IntegerBalances
  <2>2. (Shape => IntegerBalances)'
    BY BalanceIsInteger, PTL
  <2>3. Balance(d)' \in Int
    BY <1>1, <2>2 DEF IntegerBalances
  <2>4. QED BY <1>2, <2>1, <2>3
<1>4. \A e \in Deliveries : WorkRow(e)'
  <2>1. ASSUME NEW e \in Deliveries
        PROVE  /\ IsFiniteSet(Retriers(e)')
               /\ Cardinality(Retriers(e)') <= Cardinality(Retriers(e))
    BY <1>2
  <2>2. QED BY <1>1, <1>3, <2>1, AccountStep
<1>5. \A u, v \in Workers :
        u # v /\ proc'[u].token = proc'[v].token => proc'[u].token = Nil
  BY DEF WorkInv
<1>6. ASSUME NEW v \in Workers PROVE RetryOK(proc[v])'
  <2>1. RetryOK(proc[v]) /\ ProcOK(proc[v])
    BY DEF WorkInv, IInv
  <2>2. proc[v].pc \in {"checking", "dispatching"} => proc[v].op \in Deliveries
    BY <2>1 DEF ProcOK
  <2>3. CASE proc[v].op = d
    BY <2>1, <2>3 DEF RetryOK
  <2>4. CASE proc[v].op # d
    BY <2>1, <2>2, <2>4 DEF RetryOK
  <2>5. QED BY <2>3, <2>4
<1>7. QED BY <1>4, <1>5, <1>6 DEF WorkInv

\* What a fact is worth in an account.
LEMMA OneIs == \A b : (b => One(b) = 1) /\ (~b => One(b) = 0)
  BY DEF One

\* A new row has no open decision.
LEMMA EnqueueWork ==
  ASSUME IInv, IInv', WorkInv, NEW d \in Deliveries, Enqueue(d)
  PROVE  WorkInv'
<1> DEFINE row == [delivery[d] EXCEPT !.status = "queued",
                                      !.seq = next[BankOf[d]]]
<1>1. Shape /\ WorkRow(d) /\ delivery[d] \in Row
  BY TypeShape DEF IInv, Shape, WorkInv
<1>2. /\ delivery' = [delivery EXCEPT ![d] = row]
      /\ UNCHANGED <<native, stray, proc, sight, asked>>
  BY DEF Enqueue
<1>3. /\ row.status = "queued" /\ row.retry = delivery[d].retry
      /\ row.token = delivery[d].token /\ row.live = delivery[d].live
  BY <1>1 DEF Row
<1> HIDE DEF row
<1>4. /\ delivery'[d] = row
      /\ \A e \in Deliveries : e # d => delivery'[e] = delivery[e]
  BY <1>1, <1>2 DEF Shape
<1>5. One(Undone(d)') = 0 /\ One(Undone(d)) \in {0, 1}
  BY <1>3, <1>4, OneIs, OneOrNone DEF Undone
<1>6. IntegerBalances /\ One(delivery[d].retry) \in Int
      /\ One(native[d].status # "not_found") \in Int
  BY <1>1, BalanceIsInteger, OneOrNone
<1>7. Balance(d)' <= Balance(d)
  BY <1>2, <1>3, <1>4, <1>5, <1>6 DEF Balance, IntegerBalances
<1>8. native'[d].status = "not_found" => native'[d].runs = 0
  BY <1>1, <1>2 DEF WorkRow
<1>9. QED BY <1>2, <1>3, <1>4, <1>7, <1>8, RowWorkStep

\* A person's decision pays for what the request it allows may cause.
LEMMA DecideWork ==
  ASSUME IInv, IInv', WorkInv, NEW d \in Deliveries, Decide(d)
  PROVE  WorkInv'
<1>1. Shape /\ WorkRow(d)
  BY TypeShape DEF IInv, WorkInv
<1>2. /\ asked'[d] = asked[d] + 1
      /\ \A e \in Deliveries : e # d => /\ asked'[e] = asked[e]
                                       /\ sight'[e] = sight[e]
      /\ UNCHANGED <<delivery, native, stray, proc>>
      /\ sight[d] # "current"
  BY <1>1 DEF Decide, Shape
<1>3. One(Undone(d)) = 0 /\ One(Undone(d)') \in {0, 1}
  BY <1>2, OneIs, OneOrNone DEF Undone
<1>4. IntegerBalances /\ One(delivery[d].retry) \in Int
      /\ One(native[d].status # "not_found") \in Int
  BY <1>1, BalanceIsInteger, OneOrNone
<1>5. Balance(d)' <= Balance(d)
  BY <1>2, <1>3, <1>4 DEF Balance, IntegerBalances
<1>6. native'[d].status = "not_found" => native'[d].runs = 0
  BY <1>1, <1>2 DEF WorkRow
<1>7. QED BY <1>2, <1>5, <1>6, RowWorkStep

\* An open decision becomes the row's request; a request that is already
\* there is not counted twice.
LEMMA RequestRetryWork ==
  ASSUME IInv, IInv', WorkInv, NEW d \in Deliveries, RequestRetry(d)
  PROVE  WorkInv'
<1> DEFINE row == [delivery[d] EXCEPT !.status = "queued", !.retry = TRUE,
                                      !.errors = 0]
<1>1. Shape /\ WorkRow(d) /\ delivery[d] \in Row
  BY TypeShape DEF IInv, Shape, WorkInv
<1>2. /\ delivery' = [delivery EXCEPT ![d] = row]
      /\ UNCHANGED <<native, stray, proc, sight, asked>>
      /\ sight[d] = "current" /\ delivery[d].status # "queued"
  BY DEF RequestRetry
<1>3. /\ row.status = "queued" /\ row.retry = TRUE
      /\ row.token = delivery[d].token /\ row.live = delivery[d].live
  BY <1>1 DEF Row
<1> HIDE DEF row
<1>4. /\ delivery'[d] = row
      /\ \A e \in Deliveries : e # d => delivery'[e] = delivery[e]
  BY <1>1, <1>2 DEF Shape
<1>5. One(Undone(d)') = 0 /\ One(Undone(d)) = 1
  BY <1>2, <1>3, <1>4, OneIs DEF Undone
<1>6. /\ IntegerBalances /\ One(native[d].status # "not_found") \in Int
      /\ One(delivery[d].retry) \in {0, 1} /\ One(delivery'[d].retry) \in {0, 1}
  BY <1>1, BalanceIsInteger, OneOrNone
<1>7. Balance(d)' <= Balance(d)
  BY <1>2, <1>5, <1>6 DEF Balance, IntegerBalances
<1>8. native'[d].status = "not_found" => native'[d].runs = 0
  BY <1>1, <1>2 DEF WorkRow
<1>9. QED BY <1>2, <1>3, <1>4, <1>7, <1>8, RowWorkStep

\* A submission pays for the run it causes, and so does a Retry that arrives.
LEMMA ServiceWork ==
  ASSUME NEW o \in Operation, o.status = "not_found" => o.runs = 0
  PROVE  /\ Submitted(o).status # "not_found"
         /\ Submitted(o).runs - 1 <= o.runs - One(o.status # "not_found")
         /\ Retried(o).runs <= o.runs + 1 /\ Retried(o).runs \in Nat
         /\ Retried(o).status = "not_found" <=> o.status = "not_found"
         /\ Retried(o).status = "not_found" => Retried(o).runs = 0
         /\ Submitted(o).runs \in Nat
<1>1. o.runs \in Nat
  BY DEF Operation
<1>2. CASE o.status = "not_found"
  <2>1. One(o.status # "not_found") = 0
    BY <1>2, OneIs
  <2>2. Submitted(o).status = "pending" /\ Submitted(o).runs = 1
    BY <1>2 DEF Submitted
  <2>3. Retried(o) = o
    BY <1>2 DEF Retried
  <2>4. QED BY <1>1, <1>2, <2>1, <2>2, <2>3
<1>3. CASE o.status # "not_found"
  <2>1. One(o.status # "not_found") = 1 /\ Submitted(o) = o
    BY <1>3, OneIs DEF Submitted
  <2>2. \/ Retried(o) = o
        \/ Retried(o).status = "pending" /\ Retried(o).runs = o.runs + 1
    BY DEF Retried
  <2>3. QED BY <1>1, <1>3, <2>1, <2>2
<1>4. QED BY <1>2, <1>3

\* The service finishes an operation, or a request without a sender arrives.
LEMMA ArrivalWork ==
  ASSUME IInv, IInv', WorkInv, NEW d \in Deliveries,
         NativeFinishes(d) \/ StraySubmit(d) \/ StrayRetry(d)
  PROVE  WorkInv'
<1>1. /\ Shape /\ WorkRow(d) /\ native[d] \in Operation
      /\ stray[d] \in Requests
      /\ native[d].status = "not_found" => native[d].runs = 0
  BY TypeShape DEF IInv, Shape, WorkInv, WorkRow
<1>2. UNCHANGED <<delivery, proc, sight, asked>>
  BY DEF NativeFinishes, StraySubmit, StrayRetry
<1>3. /\ IntegerBalances /\ One(delivery[d].retry) \in Int
      /\ One(Undone(d)) \in Int /\ One(native[d].status # "not_found") \in Int
      /\ Undone(d)' = Undone(d)
  BY <1>1, <1>2, BalanceIsInteger, OneOrNone DEF Undone
<1>4. ASSUME NEW o, NEW q, native' = [native EXCEPT ![d] = o],
             stray' = [stray EXCEPT ![d] = q], q.retries \in Nat,
             o.runs \in Nat, o.status = "not_found" => o.runs = 0,
             o.runs + q.retries - One(o.status # "not_found")
               <= native[d].runs + stray[d].retries
                    - One(native[d].status # "not_found")
      PROVE  WorkInv'
  <2>1. /\ native'[d] = o /\ stray'[d] = q
        /\ \A e \in Deliveries : e # d => /\ native'[e] = native[e]
                                         /\ stray'[e] = stray[e]
    BY <1>1, <1>4 DEF Shape
  <2>2. One(o.status # "not_found") \in Int
    BY OneOrNone
  <2>3. Balance(d)' <= Balance(d)
    BY <1>2, <1>3, <1>4, <2>1, <2>2 DEF Balance, IntegerBalances
  <2>4. native'[d].status = "not_found" => native'[d].runs = 0
    BY <1>4, <2>1
  <2>5. QED BY <1>2, <2>1, <2>3, <2>4, RowWorkStep
<1>5. /\ native[d].runs \in Nat /\ stray[d].retries \in Nat
      /\ native' = [native EXCEPT ![d] = native'[d]]
      /\ stray' = [stray EXCEPT ![d] = stray'[d]]
  <2>1. native[d].runs \in Nat /\ stray[d].retries \in Nat
    BY <1>1 DEF Operation, Requests
  <2>2. \E o : native' = [native EXCEPT ![d] = o]
    BY DEF NativeFinishes, StraySubmit, StrayRetry
  <2>3. \E q : stray' = [stray EXCEPT ![d] = q]
    <3>1. stray' = stray => stray' = [stray EXCEPT ![d] = stray[d]]
      BY <1>1 DEF Shape
    <3>2. QED BY <3>1 DEF NativeFinishes, StraySubmit, StrayRetry
  <2>4. QED BY <1>1, <2>1, <2>2, <2>3 DEF Shape
<1>6. CASE NativeFinishes(d)
  <2>1. PICK s \in {"completed", "failed"} :
          native' = [native EXCEPT ![d] = [native[d] EXCEPT !.status = s]]
    BY <1>6 DEF NativeFinishes
  <2>2. /\ native'[d].status = s /\ native'[d].runs = native[d].runs
        /\ native[d].status = "pending" /\ stray' = stray
    BY <1>1, <1>6, <2>1 DEF Shape, Operation, NativeFinishes
  <2>3. /\ One(native'[d].status # "not_found") = 1
        /\ One(native[d].status # "not_found") = 1
    BY <2>2, OneIs
  <2>4. QED BY <1>4, <1>5, <2>2, <2>3
<1>7. CASE StraySubmit(d)
  <2>1. /\ native'[d] = Submitted(native[d])
        /\ stray'[d] = [stray[d] EXCEPT !.submit = FALSE]
    BY <1>1, <1>7 DEF StraySubmit, Shape
  <2>2. stray'[d].retries = stray[d].retries
    BY <1>1, <2>1 DEF Requests
  <2>3. /\ native'[d].status # "not_found" /\ native'[d].runs \in Nat
        /\ native'[d].runs - 1 <= native[d].runs
                                    - One(native[d].status # "not_found")
    BY <1>1, <2>1, ServiceWork
  <2>4. One(native'[d].status # "not_found") = 1
    BY <2>3, OneIs
  <2>5. QED BY <1>3, <1>4, <1>5, <2>2, <2>3, <2>4
<1>8. CASE StrayRetry(d)
  <2>1. /\ native'[d] = Retried(native[d])
        /\ stray'[d] = [stray[d] EXCEPT !.retries = stray[d].retries - 1]
        /\ stray[d].retries > 0
    BY <1>1, <1>8 DEF StrayRetry, Shape
  <2>2. stray'[d].retries = stray[d].retries - 1 /\ stray'[d].retries \in Nat
    BY <1>1, <1>5, <2>1 DEF Requests
  <2>3. /\ native'[d].status = "not_found" <=> native[d].status = "not_found"
        /\ native'[d].runs \in Nat /\ native'[d].runs <= native[d].runs + 1
        /\ native'[d].status = "not_found" => native'[d].runs = 0
    BY <1>1, <2>1, ServiceWork
  <2>4. One(native'[d].status # "not_found") = One(native[d].status # "not_found")
    BY <2>3 DEF One
  <2>5. QED BY <1>3, <1>4, <1>5, <2>2, <2>3, <2>4
<1>9. QED BY <1>6, <1>7, <1>8

\* A lease runs out: nothing is done by it.
LEMMA ExpiryWork ==
  ASSUME IInv, IInv', WorkInv, NEW d \in Deliveries,
         OrphanExpires(d) \/ HeldLeaseExpires(d)
  PROVE  WorkInv'
<1> DEFINE row == [delivery[d] EXCEPT !.live = FALSE]
<1>1. Shape /\ WorkRow(d) /\ delivery[d] \in Row
  BY TypeShape DEF IInv, Shape, WorkInv
<1>2. /\ delivery' = [delivery EXCEPT ![d] = row]
      /\ UNCHANGED <<native, stray, proc, sight, asked>>
  BY DEF OrphanExpires, HeldLeaseExpires
<1>3. /\ row.status = delivery[d].status /\ row.retry = delivery[d].retry
      /\ row.token = delivery[d].token /\ row.live = FALSE
  BY <1>1 DEF Row
<1> HIDE DEF row
<1>4. /\ delivery'[d] = row
      /\ \A e \in Deliveries : e # d => delivery'[e] = delivery[e]
  BY <1>1, <1>2 DEF Shape
<1>5. Undone(d)' = Undone(d)
  BY <1>2, <1>3, <1>4 DEF Undone
<1>6. Balance(d)' = Balance(d)
  BY <1>2, <1>3, <1>4, <1>5 DEF Balance
<1>7. IntegerBalances
  BY <1>1, BalanceIsInteger
<1>8. Balance(d)' <= Balance(d)
  BY <1>6, <1>7 DEF IntegerBalances
<1>9. native'[d].status = "not_found" => native'[d].runs = 0
  BY <1>1, <1>2 DEF WorkRow
<1>10. QED BY <1>2, <1>3, <1>4, <1>8, <1>9, RowWorkStep

\* A claim takes over the row's request, and makes a person's reading stale.
LEMMA ClaimWork ==
  ASSUME IInv, IInv', WorkInv, NEW w \in Workers, NEW d \in Deliveries,
         NEW t \in Tokens, Claim(w, d, t)
  PROVE  WorkInv'
<1> DEFINE s == ClaimedStatus(delivery[d].status)
           row == [delivery[d] EXCEPT !.status = s, !.token = t, !.live = TRUE]
           p == [Idle EXCEPT !.pc = "checking", !.op = d, !.token = t,
                             !.retry = delivery[d].retry]
<1>1. /\ Shape /\ WorkRow(d) /\ delivery[d] \in Row /\ proc[w] \in Loop
      /\ sight[d] \in {"none", "current", "stale"} /\ t # Nil
  BY TypeShape, MemoryDeliveryAssumption DEF IInv, Shape, WorkInv
<1>2. /\ delivery' = [delivery EXCEPT ![d] = row]
      /\ proc' = [proc EXCEPT ![w] = p]
      /\ sight' = [sight EXCEPT ![d] = IF @ = "current" THEN "stale" ELSE @]
      /\ UNCHANGED <<native, stray, asked>>
      /\ proc[w].pc = "idle"
  BY DEF Claim
<1>3. /\ row.retry = delivery[d].retry /\ row.token = t
  BY <1>1 DEF Row
<1>4. /\ p \in Loop /\ p.pc = "checking" /\ p.op = d /\ p.token = t
      /\ p.retry = delivery[d].retry
  BY <1>1 DEF Row, Idle, Loop, Step
<1>5. \A v \in Workers : proc[v].token # t
  BY DEF Claim, Fresh, Held
<1> HIDE DEF row, p, s
<1>6. /\ delivery'[d] = row
      /\ \A e \in Deliveries : e # d => /\ delivery'[e] = delivery[e]
                                       /\ sight'[e] = sight[e]
      /\ sight'[d] # "current"
  BY <1>1, <1>2 DEF Shape
<1>7. One(Undone(d)') = 0 /\ One(Undone(d)) \in {0, 1}
  BY <1>6, OneIs, OneOrNone DEF Undone
<1>8. Sends(p, d) = 0 /\ Sends(proc[w], d) = 0
  BY <1>2, <1>4, OneIs, SendsOrNot DEF IsRetrier
<1>9. /\ IntegerBalances /\ One(native[d].status # "not_found") \in Int
      /\ One(delivery[d].retry) \in Int
  BY <1>1, BalanceIsInteger, OneOrNone
<1>10. Balance(d)' + Sends(p, d)
         <= Balance(d) + Sends(proc[w], d)
  <2>1. Balance(d)' <= Balance(d)
    BY <1>2, <1>3, <1>6, <1>7, <1>9 DEF Balance, IntegerBalances
  <2>2. Balance(d)' \in Int /\ Balance(d) \in Int
    BY <1>2, <1>3, <1>6, <1>7, <1>9 DEF Balance, IntegerBalances
  <2>3. QED BY <1>8, <2>1, <2>2
<1>11. native'[d].status = "not_found" => native'[d].runs = 0
  BY <1>1, <1>2 DEF WorkRow
<1>12. RetryKept(p)
  BY <1>3, <1>4, <1>6 DEF RetryKept
<1>13. Unshared(w, p.token) /\ OthersKeep(w, d)
  BY <1>3, <1>4, <1>5, <1>6 DEF Unshared, OthersKeep
<1>14. QED BY <1>2, <1>4, <1>6, <1>10, <1>11, <1>12, <1>13, LoopWorkStep

\* A step of a loop that leaves every row, operation and decision alone; its
\* request, if it was sending a Retry, may stay on its way.
LEMMA QuietWork ==
  ASSUME IInv, IInv', WorkInv, NEW w \in Workers, NEW d \in Deliveries,
         proc[w].op = d, NEW p \in Loop, proc' = [proc EXCEPT ![w] = p],
         p.pc # "calling", p.token \in {proc[w].token, Nil}, RetryKept(p),
         UNCHANGED <<delivery, native, sight, asked>>,
         \A e \in Deliveries : e # d => stray'[e] = stray[e],
         stray'[d].retries <= stray[d].retries + Sends(proc[w], d)
  PROVE  WorkInv'
<1>1. Shape /\ Shape' /\ WorkRow(d)
  BY TypeShape DEF IInv, WorkInv
<1>2. Sends(p, d) = 0 /\ Sends(proc[w], d) \in {0, 1}
  BY SendsOrNot DEF IsRetrier
<1>3. /\ IntegerBalances /\ One(native[d].status # "not_found") \in Int
      /\ One(delivery[d].retry) \in Int /\ One(Undone(d)) \in Int
      /\ Undone(d)' = Undone(d) /\ stray'[d].retries \in Nat
  BY <1>1, BalanceIsInteger, OneOrNone DEF Undone, Shape, Requests
<1>4. Balance(d)' + Sends(p, d)
        <= Balance(d) + Sends(proc[w], d)
  BY <1>2, <1>3 DEF Balance, IntegerBalances
<1>5. native'[d].status = "not_found" => native'[d].runs = 0
  BY <1>1 DEF WorkRow
<1>6. Unshared(w, p.token)
  BY DEF WorkInv, Unshared
<1>7. OthersKeep(w, d)
  BY DEF RetryOK, OthersKeep
<1>8. QED BY <1>4, <1>5, <1>6, <1>7, LoopWorkStep

\* The lookup sends nothing: it goes on to a Retry only with a request.
LEMMA CheckWork ==
  ASSUME IInv, IInv', WorkInv, NEW w \in Workers, Check(w)
  PROVE  WorkInv'
<1>1. PICK d \in Deliveries : d = proc[w].op
  BY WorkingLoop DEF Check
<1>2. /\ Shape /\ native[d].status \in NativeStatus /\ proc[w] \in Loop
      /\ RetryOK(proc[w])
  BY TypeShape DEF IInv, Shape, Operation, WorkInv
<1> DEFINE p == [proc[w] EXCEPT !.saw = native[d].status,
                   !.pc = IF \/ native[d].status = "not_found"
                             \/ native[d].status = "failed" /\ proc[w].retry
                          THEN "dispatching" ELSE "recording"]
<1>3. /\ proc' = [proc EXCEPT ![w] = p] /\ proc[w].pc = "checking"
      /\ UNCHANGED <<delivery, native, stray, sight, asked>>
  BY <1>1 DEF Check
<1>4. /\ p \in Loop /\ p.op = d /\ p.token = proc[w].token
      /\ p.retry = proc[w].retry
      /\ p.pc \in {"dispatching", "recording"}
      /\ p.pc = "dispatching" => p.saw = "not_found" \/ p.retry
  BY <1>1, <1>2 DEF Loop, Step, NativeStatus
<1> HIDE DEF p
<1>5. RetryKept(p)
  <2>1. ASSUME p.pc \in {"checking", "dispatching"}, p.retry,
               delivery[p.op].token = p.token, delivery[p.op].live
        PROVE  delivery[p.op].retry
    <3>1. /\ proc[w].retry /\ delivery[proc[w].op].token = proc[w].token
          /\ delivery[proc[w].op].live
      BY <1>1, <1>4, <2>1, Zenon
    <3>2. delivery[proc[w].op].retry
      BY <1>2, <1>3, <3>1 DEF RetryOK
    <3>3. QED BY <1>1, <1>4, <3>2, Zenon
  <2>2. QED BY <1>3, <1>4, <2>1, Zenon DEF RetryKept
<1>6. stray'[d].retries <= stray[d].retries + Sends(proc[w], d)
  <2>1. Sends(proc[w], d) = 0 /\ stray[d].retries \in Nat
    BY <1>2, <1>3, OneIs, SendsOrNot DEF IsRetrier, Shape, Requests
  <2>2. QED BY <1>3, <2>1
<1>7. QED BY <1>1, <1>3, <1>4, <1>5, <1>6, QuietWork

\* A loop that starts to send a Retry uses up the row's request for it.
LEMMA StartDispatchWork ==
  ASSUME IInv, IInv', WorkInv, NEW w \in Workers, StartDispatch(w)
  PROVE  WorkInv'
<1>1. PICK d \in Deliveries :
        /\ d = proc[w].op /\ delivery[d].token = proc[w].token
        /\ delivery[d].live /\ delivery[d].token # Nil
  BY OwnedRow DEF StartDispatch
<1>2. /\ Shape /\ WorkRow(d) /\ proc[w] \in Loop /\ delivery[d] \in Row
      /\ RetryOK(proc[w])
  BY TypeShape DEF IInv, Shape, WorkInv
<1> DEFINE row == [delivery[d] EXCEPT !.retry = FALSE]
           p == [proc[w] EXCEPT !.pc = "calling"]
<1>3. /\ delivery' = [delivery EXCEPT ![d] = row]
      /\ proc' = [proc EXCEPT ![w] = p] /\ proc[w].pc = "dispatching"
      /\ UNCHANGED <<native, stray, sight, asked>>
  BY <1>1 DEF StartDispatch
<1>4. /\ row.retry = FALSE /\ row.status = delivery[d].status
      /\ row.token = delivery[d].token
  BY <1>2 DEF Row
<1>5. /\ p \in Loop /\ p.pc = "calling" /\ p.op = d
      /\ p.token = proc[w].token /\ p.saw = proc[w].saw
  BY <1>1, <1>2 DEF Loop, Step
<1> HIDE DEF row, p
<1>6. /\ delivery'[d] = row
      /\ \A e \in Deliveries : e # d => delivery'[e] = delivery[e]
  BY <1>2, <1>3 DEF Shape
<1>7. Undone(d)' = Undone(d)
  BY <1>3, <1>4, <1>6 DEF Undone
<1>8. IsRetrier(p, d) => delivery[d].retry
  BY <1>1, <1>2, <1>3, <1>5 DEF RetryOK, IsRetrier
<1>9. Sends(p, d) <= One(delivery[d].retry)
  BY <1>8, SendsOrNot, OneIs, OneOrNone
<1>10. Sends(proc[w], d) = 0 /\ One(row.retry) = 0
  BY <1>3, <1>4, OneIs, SendsOrNot DEF IsRetrier
<1>11. /\ IntegerBalances /\ One(native[d].status # "not_found") \in Int
       /\ One(delivery[d].retry) \in Int /\ One(Undone(d)) \in Int
       /\ Sends(p, d) \in Int
  BY <1>2, BalanceIsInteger, OneOrNone, SendsOrNot
<1>12. Balance(d)' + Sends(p, d)
         <= Balance(d) + Sends(proc[w], d)
  BY <1>3, <1>6, <1>7, <1>9, <1>10, <1>11 DEF Balance, IntegerBalances
<1>13. native'[d].status = "not_found" => native'[d].runs = 0
  BY <1>2, <1>3 DEF WorkRow
<1>14. RetryKept(p)
  BY <1>5 DEF RetryKept
<1>15. \A v \in Workers : v # w => proc[v].token # proc[w].token
  BY <1>1 DEF WorkInv
<1>16. Unshared(w, p.token) /\ OthersKeep(w, d)
  BY <1>1, <1>4, <1>5, <1>6, <1>15 DEF Unshared, OthersKeep
<1>17. QED BY <1>1, <1>3, <1>5, <1>6, <1>12, <1>13, <1>14, <1>16,
              LoopWorkStep

\* A request that is answered has done what its sender was counted for.
LEMMA AnsweredWork ==
  ASSUME IInv, IInv', WorkInv, NEW w \in Workers, Answered(w)
  PROVE  WorkInv'
<1>1. PICK d \in Deliveries : d = proc[w].op
  BY WorkingLoop DEF Answered
<1>2. /\ Shape /\ WorkRow(d) /\ proc[w] \in Loop /\ native[d] \in Operation
      /\ native[d].status = "not_found" => native[d].runs = 0
  BY TypeShape DEF IInv, Shape, WorkInv, WorkRow
<1> DEFINE p == [proc[w] EXCEPT !.pc = "recording", !.saw = "pending"]
           o == IF proc[w].saw = "not_found" THEN Submitted(native[d])
                                             ELSE Retried(native[d])
<1>3. /\ proc' = [proc EXCEPT ![w] = p]
      /\ native' = [native EXCEPT ![d] = o] /\ proc[w].pc = "calling"
      /\ UNCHANGED <<delivery, stray, sight, asked>>
  BY <1>1 DEF Answered
<1>4. /\ p \in Loop /\ p.pc = "recording" /\ p.op = d
      /\ p.token = proc[w].token
  BY <1>1, <1>2 DEF Loop, Step, NativeStatus
<1>5. o.runs \in Nat /\ (o.status = "not_found" => o.runs = 0)
  BY <1>2, ServiceWork
<1>6. o.runs - One(o.status # "not_found")
        <= native[d].runs - One(native[d].status # "not_found")
             + Sends(proc[w], d)
  <2>1. /\ native[d].runs \in Nat
        /\ One(native[d].status # "not_found") \in Int
    BY <1>2, OneOrNone DEF Operation
  <2>2. CASE proc[w].saw = "not_found"
    <3>1. /\ o.status # "not_found"
          /\ o.runs - 1 <= native[d].runs - One(native[d].status # "not_found")
      BY <1>2, <2>2, ServiceWork
    <3>2. One(o.status # "not_found") = 1 /\ Sends(proc[w], d) = 0
      BY <2>2, <3>1, OneIs, SendsOrNot DEF IsRetrier
    <3>3. QED BY <1>5, <2>1, <3>1, <3>2
  <2>3. CASE proc[w].saw # "not_found"
    <3>1. /\ o.status = "not_found" <=> native[d].status = "not_found"
          /\ o.runs <= native[d].runs + 1
      BY <1>2, <2>3, ServiceWork
    <3>2. /\ One(o.status # "not_found") = One(native[d].status # "not_found")
          /\ Sends(proc[w], d) = 1
      BY <1>1, <1>3, <2>3, <3>1, SendsOrNot DEF IsRetrier, One
    <3>3. QED BY <1>5, <2>1, <3>1, <3>2
  <2>4. QED BY <2>2, <2>3
<1> HIDE DEF p, o
<1>7. /\ native'[d] = o
      /\ \A e \in Deliveries : e # d => native'[e] = native[e]
  BY <1>2, <1>3 DEF Shape
<1>8. /\ IntegerBalances /\ One(delivery[d].retry) \in Int
      /\ One(Undone(d)) \in Int /\ Undone(d)' = Undone(d)
      /\ One(native[d].status # "not_found") \in Int
      /\ One(o.status # "not_found") \in Int
      /\ Sends(proc[w], d) \in Int
  BY <1>2, <1>3, BalanceIsInteger, OneOrNone, SendsOrNot DEF Undone
<1>9. Sends(p, d) = 0
  BY <1>4, OneIs, SendsOrNot DEF IsRetrier
<1>10. Balance(d)' + Sends(p, d)
         <= Balance(d) + Sends(proc[w], d)
  BY <1>3, <1>5, <1>6, <1>7, <1>8, <1>9 DEF Balance, IntegerBalances
<1>11. native'[d].status = "not_found" => native'[d].runs = 0
  BY <1>5, <1>7
<1>12. RetryKept(p)
  BY <1>4 DEF RetryKept
<1>13. Unshared(w, p.token)
  BY <1>4 DEF WorkInv, Unshared
<1>14. OthersKeep(w, d)
  BY <1>3 DEF RetryOK, OthersKeep
<1>15. QED BY <1>1, <1>3, <1>4, <1>7, <1>10, <1>11, <1>12, <1>13, <1>14,
              LoopWorkStep

\* A request whose sender lets go is one that stays on its way, or is lost.
LEMMA LetGoWork ==
  ASSUME Shape, NEW w \in Workers, NEW d \in Deliveries, d = proc[w].op,
         LetGo(w)
  PROVE  stray'[d].retries <= stray[d].retries + Sends(proc[w], d)
<1> DEFINE more == [stray[d] EXCEPT !.retries = stray[d].retries + 1]
           submit == [stray[d] EXCEPT !.submit = TRUE]
<1>1. stray[d] \in Requests /\ stray[d].retries \in Nat
  BY DEF Shape, Requests
<1>2. /\ submit.retries = stray[d].retries
      /\ more.retries = stray[d].retries + 1
  BY <1>1 DEF Requests
<1>3. \/ stray' = stray \/ stray' = [stray EXCEPT ![d] = submit]
      \/ /\ stray' = [stray EXCEPT ![d] = more]
         /\ proc[w].pc = "calling" /\ proc[w].saw # "not_found"
  BY DEF LetGo
<1> HIDE DEF more, submit
<1>4. Sends(proc[w], d) \in {0, 1}
  BY SendsOrNot
<1>5. CASE stray' = stray \/ stray' = [stray EXCEPT ![d] = submit]
  <2>1. stray'[d].retries = stray[d].retries
    BY <1>1, <1>2, <1>5 DEF Shape
  <2>2. QED BY <1>1, <1>4, <2>1
<1>6. CASE /\ stray' = [stray EXCEPT ![d] = more]
           /\ proc[w].pc = "calling" /\ proc[w].saw # "not_found"
  <2>1. stray'[d].retries = stray[d].retries + 1
    BY <1>1, <1>2, <1>6 DEF Shape
  <2>2. IsRetrier(proc[w], d)
    BY <1>6 DEF IsRetrier
  <2>3. Sends(proc[w], d) = 1
    BY <2>2, SendsOrNot
  <2>4. QED BY <1>1, <2>1, <2>3
<1>7. QED BY <1>3, <1>5, <1>6

\* A loop that stops, by an error, without its lease or with its process.
LEMMA StopWork ==
  ASSUME IInv, IInv', WorkInv, NEW w \in Workers, proc[w].pc # "idle",
         LetGo(w), NEW p \in Loop, proc' = [proc EXCEPT ![w] = p],
         p = Idle \/ (p.pc = "erring" /\ p.token = proc[w].token),
         UNCHANGED <<delivery, native, sight, asked>>
  PROVE  WorkInv'
<1>1. PICK d \in Deliveries : d = proc[w].op
  BY WorkingLoop
<1>2. Shape
  BY TypeShape DEF IInv
<1>3. /\ \A e \in Deliveries : e # d => stray'[e] = stray[e]
      /\ stray'[d].retries <= stray[d].retries + Sends(proc[w], d)
  BY <1>1, <1>2, LetGoStray, LetGoWork
<1>4. p.pc \in {"idle", "erring"} /\ p.token \in {proc[w].token, Nil}
  BY DEF Idle
<1>5. RetryKept(p)
  BY <1>4 DEF RetryKept
<1>6. QED BY <1>1, <1>3, <1>4, <1>5, QuietWork

\* An error at any await.
LEMMA FailsWork ==
  ASSUME IInv, IInv', WorkInv, NEW w \in Workers, NEW permanent \in BOOLEAN,
         Fails(w, permanent)
  PROVE  WorkInv'
<1> DEFINE p == [proc[w] EXCEPT !.pc = "erring", !.permanent = permanent]
<1>1. Shape /\ proc[w] \in Loop
  BY TypeShape DEF IInv, Shape
<1>2. p \in Loop /\ p.pc = "erring" /\ p.token = proc[w].token
  BY <1>1 DEF Loop, Step
<1>3. proc' = [proc EXCEPT ![w] = p] /\ proc[w].pc # "idle"
  BY DEF Fails
<1> HIDE DEF p
<1>4. QED BY <1>2, <1>3, StopWork DEF Fails

\* A loop finds its lease gone, or dies with its process.
LEMMA GivesUpWork ==
  ASSUME IInv, IInv', WorkInv, NEW w \in Workers, LosesLease(w) \/ Crash(w)
  PROVE  WorkInv'
  BY BlankShapes, StopWork DEF LosesLease, Crash

\* A fenced write that ends a loop's work leaves no more for the row to ask.
LEMMA SettleWork ==
  ASSUME IInv, IInv', WorkInv, NEW w \in Workers, NEW d \in Deliveries,
         Owns(w), d = proc[w].op, NEW row \in Row,
         delivery' = [delivery EXCEPT ![d] = row],
         row.live = FALSE, row.status # "queued",
         One(row.retry) <= One(delivery[d].retry),
         proc' = [proc EXCEPT ![w] = Idle],
         UNCHANGED <<native, stray, sight, asked>>
  PROVE  WorkInv'
<1>1. Shape /\ WorkRow(d)
  BY TypeShape DEF IInv, WorkInv
<1>2. /\ delivery'[d] = row
      /\ \A e \in Deliveries : e # d => delivery'[e] = delivery[e]
  BY <1>1 DEF Shape
<1>3. delivery[d].status # "queued"
  BY OwnedRow, LeasedRow
<1>4. One(Undone(d)') = One(Undone(d))
  BY <1>2, <1>3 DEF Undone
<1>5. Idle \in Loop /\ Idle.pc = "idle" /\ Idle.token = Nil
  BY BlankShapes DEF Idle
<1>6. Sends(Idle, d) = 0 /\ Sends(proc[w], d) \in {0, 1}
  BY <1>5, SendsOrNot DEF IsRetrier
<1>7. /\ IntegerBalances /\ One(native[d].status # "not_found") \in Int
      /\ One(delivery[d].retry) \in Int /\ One(row.retry) \in Int
      /\ One(Undone(d)) \in Int
  BY <1>1, BalanceIsInteger, OneOrNone
<1>8. Balance(d)' + Sends(Idle, d) <= Balance(d) + Sends(proc[w], d)
  <2>1. Balance(d)' <= Balance(d) /\ Balance(d)' \in Int
    BY <1>2, <1>4, <1>7 DEF Balance, IntegerBalances
  <2>2. QED BY <1>6, <1>7, <2>1 DEF IntegerBalances
<1>9. native'[d].status = "not_found" => native'[d].runs = 0
  BY <1>1 DEF WorkRow
<1>10. /\ RetryKept(Idle) /\ Unshared(w, Idle.token) /\ OthersKeep(w, d)
  BY <1>2, <1>5 DEF RetryKept, Unshared, OthersKeep
<1>11. Idle.pc # "calling"
  BY <1>5
<1>12. QED BY <1>2, <1>5, <1>8, <1>9, <1>10, <1>11, LoopWorkStep

\* What the check found is recorded.
LEMMA RecordWork ==
  ASSUME IInv, IInv', WorkInv, NEW w \in Workers, Record(w)
  PROVE  WorkInv'
<1>1. PICK d \in Deliveries : d = proc[w].op
  BY OwnedRow DEF Record
<1>2. delivery[d] \in Row
  BY TypeShape DEF IInv, Shape
<1> DEFINE s == Recorded(proc[w].saw)
           row == [delivery[d] EXCEPT !.status = s, !.errors = 0,
                                      !.retry = FALSE, !.token = Nil,
                                      !.live = FALSE]
<1>3. s \in {"processing", "retained", "failed"}
  BY DEF Recorded
<1>4. s \in Status
  BY <1>3 DEF Status
<1>5. /\ delivery' = [delivery EXCEPT ![d] = row]
      /\ proc' = [proc EXCEPT ![w] = Idle]
  BY <1>1 DEF Record
<1> HIDE DEF s
<1>6. row \in Row
  BY <1>2, <1>4, ChangedRow, NoErrors
<1>7. row.status = s /\ row.retry = FALSE /\ row.live = FALSE
  BY <1>2 DEF Row
<1> HIDE DEF row
<1>8. One(row.retry) <= One(delivery[d].retry)
  BY <1>7, OneIs, OneOrNone
<1>9. QED BY <1>1, <1>3, <1>5, <1>6, <1>7, <1>8, SettleWork DEF Record

\* An error is counted; the row keeps a request that nobody used.
LEMMA RecordErrorWork ==
  ASSUME IInv, IInv', WorkInv, NEW w \in Workers, RecordError(w)
  PROVE  WorkInv'
<1>1. PICK d \in Deliveries : d = proc[w].op /\ delivery[d].token # Nil
  BY OwnedRow DEF RecordError
<1>2. delivery[d] \in Row /\ delivery[d].errors < MaxErrors
  BY <1>1, TypeShape, LeasedRow DEF IInv, Shape
<1> DEFINE s == IF proc[w].permanent THEN "failed" ELSE "uncertain"
           n == delivery[d].errors + 1
           row == [delivery[d] EXCEPT !.status = s, !.errors = n,
                                      !.token = Nil, !.live = FALSE]
<1>3. s \in {"failed", "uncertain"} /\ s \in Status
  BY DEF Status
<1>4. n \in 0..MaxErrors
  BY <1>2, MemoryDeliveryAssumption DEF Row
<1>5. /\ delivery' = [delivery EXCEPT ![d] = row]
      /\ proc' = [proc EXCEPT ![w] = Idle]
  BY <1>1 DEF RecordError
<1> HIDE DEF s, n
<1>6. row \in Row
  BY <1>2, <1>3, <1>4, ChangedRow
<1>7. row.status = s /\ row.retry = delivery[d].retry /\ row.live = FALSE
  BY <1>2 DEF Row
<1> HIDE DEF row
<1>8. One(row.retry) <= One(delivery[d].retry)
  BY <1>7, OneOrNone
<1>9. QED BY <1>1, <1>3, <1>5, <1>6, <1>7, <1>8, SettleWork DEF RecordError

\* No work has been done, or asked for, in an empty outbox.
LEMMA InitWork == Init => WorkInv
<1> SUFFICES ASSUME Init PROVE WorkInv
  OBVIOUS
<1>1. ASSUME NEW v \in Workers PROVE proc[v] = Idle
  BY <1>1 DEF Init
<1>2. \A u, v \in Workers :
        u # v /\ proc[u].token = proc[v].token => proc[u].token = Nil
  BY <1>1 DEF Idle
<1>3. ASSUME NEW v \in Workers PROVE RetryOK(proc[v])
  BY <1>1 DEF Idle, RetryOK
<1>4. ASSUME NEW d \in Deliveries PROVE WorkRow(d)
  <2>1. Retriers(d) = {}
    BY <1>1 DEF Retriers, Idle
  <2>2. IsFiniteSet(Retriers(d)) /\ Cardinality(Retriers(d)) = 0
    BY <2>1, FS_EmptySet
  <2>3. /\ native[d].status = "not_found" /\ native[d].runs = 0
        /\ stray[d].retries = 0 /\ asked[d] = 0
        /\ ~delivery[d].retry /\ ~Undone(d)
    BY DEF Init, NoOperation, NoStray, NoDelivery, Undone
  <2>4. /\ One(delivery[d].retry) = 0 /\ One(Undone(d)) = 0
        /\ One(native[d].status # "not_found") = 0
    BY <2>3, OneIs
  <2>5. QED BY <2>2, <2>3, <2>4 DEF WorkRow, Work
<1>5. QED BY <1>2, <1>3, <1>4 DEF WorkInv

\* Every step keeps every account.
LEMMA WorkInvInductive == IInv /\ IInv' /\ WorkInv /\ [Next]_vars => WorkInv'
<1> SUFFICES ASSUME IInv, IInv', WorkInv, [Next]_vars PROVE WorkInv'
  OBVIOUS
<1>1. ASSUME NEW d \in Deliveries,
             \/ Enqueue(d) \/ Decide(d) \/ RequestRetry(d) \/ ClaimDelivery(d)
             \/ NativeFinishes(d) \/ StraySubmit(d) \/ StrayRetry(d)
             \/ OrphanExpires(d) \/ HeldLeaseExpires(d)
      PROVE  WorkInv'
  <2>1. CASE ClaimDelivery(d)
    BY <2>1, ClaimWork DEF ClaimDelivery
  <2>2. QED BY <1>1, <2>1, EnqueueWork, DecideWork, RequestRetryWork,
               ArrivalWork, ExpiryWork
<1>2. ASSUME NEW w \in Workers, Perform(w) \/ Crash(w) PROVE WorkInv'
  BY <1>2, CheckWork, StartDispatchWork, AnsweredWork, RecordWork, FailsWork,
     RecordErrorWork, GivesUpWork DEF Perform
<1>3. CASE UNCHANGED vars
  BY <1>3 DEF vars, WorkInv, WorkRow, Work, Retriers, Undone, RetryOK
<1>4. QED BY <1>1, <1>2, <1>3 DEF Next

\* The accounts are kept in every reachable state.
THEOREM WorkIsAccounted == Spec => []WorkInv
<1>1. QED BY InitWork, WorkInvInductive, InvariantHolds, PTL DEF Spec

\* The service works on a message once by itself, and once more for each time
\* a person decided it, whatever is lost, late or repeated.
THEOREM WorkIsAsked == Spec => []NoUnaskedWork
<1>1. IInv /\ WorkInv => NoUnaskedWork
  <2> SUFFICES ASSUME IInv, WorkInv, NEW d \in Deliveries
               PROVE  native[d].runs <= 1 + asked[d]
    BY DEF NoUnaskedWork
  <2>1. /\ native[d].runs \in Nat /\ stray[d].retries \in Nat
        /\ asked[d] \in Nat
    BY TypeShape, BalanceIsInteger DEF IInv, IntegerBalances
  <2>2. /\ IsFiniteSet(Retriers(d)) /\ Work(d) <= One(native[d].status # "not_found") + asked[d]
        /\ Cardinality(Retriers(d)) \in Nat
    BY FS_CardinalityType DEF WorkInv, WorkRow
  <2>3. /\ One(delivery[d].retry) \in {0, 1} /\ One(Undone(d)) \in {0, 1}
        /\ One(native[d].status # "not_found") \in {0, 1}
    BY OneOrNone
  <2>4. QED BY <2>1, <2>2, <2>3 DEF Work
<1>2. QED BY <1>1, InvariantHolds, WorkIsAccounted, PTL

-----------------------------------------------------------------------------
(* The outbox as an OrderedOutbox: the numbering of the rows, what a step    *)
(* does to them as far as the abstract outbox can see it, and the refinement.*)

QueueInv == NumberedInv /\ FrontInv

\* A step that changes one row that is already in its place: it stays as it
\* is as far as anybody is concerned, is remembered, is left to a person, or
\* is taken up again by one.
RowMoves(d) ==
  /\ next' = next
  /\ \A e \in Deliveries : e # d => delivery'[e] = delivery[e]
  /\ delivery'[d].seq = delivery[d].seq
  /\ delivery[d].status # "absent" /\ delivery'[d].status # "absent"
  /\ delivery'[d].status # "queued" => InFront(d)
  /\ \/ /\ delivery'[d].status = "retained" <=> delivery[d].status = "retained"
        /\ Blocked(d)' <=> Blocked(d)
     \/ /\ delivery[d].status # "retained" /\ ~Blocked(d) /\ InFront(d)
        /\ delivery'[d].status = "retained" /\ ~Blocked(d)'
     \/ /\ delivery[d].status # "retained" /\ ~Blocked(d) /\ InFront(d)
        /\ delivery'[d].status # "retained" /\ Blocked(d)'
     \/ /\ delivery[d].status # "retained" /\ Blocked(d)
        /\ delivery'[d].status # "retained" /\ ~Blocked(d)'

\* A failed or uncertain row is queued again.
LEMMA RequestRetryMoves ==
  ASSUME IInv, NEW d \in Deliveries, RequestRetry(d)
  PROVE  RowMoves(d)
<1> DEFINE row == [delivery[d] EXCEPT !.status = "queued", !.retry = TRUE,
                                      !.errors = 0]
<1>1. Shape /\ delivery[d] \in Row
  BY TypeShape DEF IInv, Shape
<1>2. delivery' = [delivery EXCEPT ![d] = row] /\ next' = next
      /\ delivery[d].status \in {"failed", "uncertain"}
  BY DEF RequestRetry
<1>3. row.status = "queued" /\ row.errors = 0 /\ row.seq = delivery[d].seq
  BY <1>1 DEF Row
<1> HIDE DEF row
<1>4. /\ delivery'[d] = row
      /\ \A e \in Deliveries : e # d => delivery'[e] = delivery[e]
  BY <1>1, <1>2 DEF Shape
<1>5. ~Blocked(d)'
  BY <1>3, <1>4, MemoryDeliveryAssumption DEF Blocked
<1>6. QED BY <1>2, <1>3, <1>4, <1>5 DEF RowMoves

\* A claim is not seen.
LEMMA ClaimMoves ==
  ASSUME IInv, NEW w \in Workers, NEW d \in Deliveries, NEW t \in Tokens,
         Claim(w, d, t)
  PROVE  RowMoves(d)
<1> DEFINE s == ClaimedStatus(delivery[d].status)
           row == [delivery[d] EXCEPT !.status = s, !.token = t, !.live = TRUE]
<1>1. Shape /\ delivery[d] \in Row
  BY TypeShape DEF IInv, Shape
<1>2. /\ delivery' = [delivery EXCEPT ![d] = row] /\ next' = next
      /\ delivery[d].status \in {"queued", "submitting", "processing",
                                 "uncertain"}
      /\ InFront(d)
  BY DEF Claim, Claimable, InFront
<1>3. s \in {"submitting", "processing"}
  BY <1>2 DEF ClaimedStatus
<1> HIDE DEF s
<1>4. /\ row.status = s /\ row.errors = delivery[d].errors
      /\ row.seq = delivery[d].seq
  BY <1>1 DEF Row
<1> HIDE DEF row
<1>5. /\ delivery'[d] = row
      /\ \A e \in Deliveries : e # d => delivery'[e] = delivery[e]
  BY <1>1, <1>2 DEF Shape
<1>6. Blocked(d)' <=> Blocked(d)
  BY <1>2, <1>3, <1>4, <1>5 DEF Blocked
<1>7. QED BY <1>2, <1>3, <1>4, <1>5, <1>6 DEF RowMoves

\* A leased row whose lease or request column changes shows no difference.
LEMMA LeaseMoves ==
  ASSUME IInv, NEW d \in Deliveries, delivery[d].token # Nil,
         NEW row, delivery' = [delivery EXCEPT ![d] = row], next' = next,
         row.status = delivery[d].status, row.errors = delivery[d].errors,
         row.seq = delivery[d].seq
  PROVE  RowMoves(d)
<1>1. Shape
  BY TypeShape DEF IInv
<1>2. InFront(d) /\ delivery[d].status # "absent"
  BY LeasedRow
<1>3. /\ delivery'[d] = row
      /\ \A e \in Deliveries : e # d => delivery'[e] = delivery[e]
  BY <1>1 DEF Shape
<1>4. Blocked(d)' <=> Blocked(d)
  BY <1>3 DEF Blocked
<1>5. QED BY <1>2, <1>3, <1>4 DEF RowMoves

\* A lease runs out, or the dispatch is announced.
LEMMA QuietMoves ==
  ASSUME IInv,
         \/ \E d \in Deliveries : OrphanExpires(d) \/ HeldLeaseExpires(d)
         \/ \E w \in Workers : StartDispatch(w)
  PROVE  \E d \in Deliveries : RowMoves(d)
<1>1. Shape
  BY TypeShape DEF IInv
<1>2. ASSUME NEW d \in Deliveries, OrphanExpires(d) \/ HeldLeaseExpires(d)
      PROVE  RowMoves(d)
  <2> DEFINE row == [delivery[d] EXCEPT !.live = FALSE]
  <2>1. /\ delivery' = [delivery EXCEPT ![d] = row] /\ next' = next
        /\ delivery[d].token # Nil
    BY <1>2 DEF OrphanExpires, HeldLeaseExpires, IInv, RowOK
  <2>2. /\ row.status = delivery[d].status /\ row.errors = delivery[d].errors
        /\ row.seq = delivery[d].seq
    BY <1>1 DEF Shape, Row
  <2> HIDE DEF row
  <2>3. QED BY <2>1, <2>2, LeaseMoves
<1>3. ASSUME NEW w \in Workers, StartDispatch(w)
      PROVE  \E d \in Deliveries : RowMoves(d)
  <2>1. PICK d \in Deliveries : d = proc[w].op /\ delivery[d].token # Nil
    BY <1>3, OwnedRow DEF StartDispatch
  <2> DEFINE row == [delivery[d] EXCEPT !.retry = FALSE]
  <2>2. delivery' = [delivery EXCEPT ![d] = row] /\ next' = next
    BY <1>3, <2>1 DEF StartDispatch
  <2>3. /\ row.status = delivery[d].status /\ row.errors = delivery[d].errors
        /\ row.seq = delivery[d].seq
    BY <1>1 DEF Shape, Row
  <2> HIDE DEF row
  <2>4. RowMoves(d)
    BY <2>1, <2>2, <2>3, LeaseMoves
  <2>5. QED BY <2>4
<1>4. QED BY <1>2, <1>3

\* A verdict: the row is remembered, left to a person, or still in work.
LEMMA VerdictMoves ==
  ASSUME IInv, NEW w \in Workers, Record(w) \/ RecordError(w)
  PROVE  \E d \in Deliveries : RowMoves(d)
<1>1. PICK d \in Deliveries : d = proc[w].op /\ delivery[d].token # Nil
  BY OwnedRow DEF Record, RecordError
<1>2. Shape /\ delivery[d] \in Row
  BY TypeShape DEF IInv, Shape
<1>3. /\ delivery[d].status \in {"submitting", "processing"}
      /\ delivery[d].errors < MaxErrors /\ InFront(d)
  BY <1>1, LeasedRow
<1>4. ~Blocked(d)
  BY <1>2, <1>3, MemoryDeliveryAssumption DEF Blocked, Row
<1>5. PICK s \in {"processing", "retained", "failed", "uncertain"},
           n \in 0..MaxErrors, q \in BOOLEAN :
        /\ delivery' = [delivery EXCEPT ![d] =
                          [delivery[d] EXCEPT !.status = s, !.errors = n,
                             !.retry = q, !.token = Nil, !.live = FALSE]]
        /\ s \in {"processing", "retained"} => n = 0
  <2>1. CASE Record(w)
    <3>1. Recorded(proc[w].saw) \in {"processing", "retained", "failed"}
      BY DEF Recorded
    <3>2. delivery' = [delivery EXCEPT ![d] =
                         [delivery[d] EXCEPT !.status = Recorded(proc[w].saw),
                            !.errors = 0, !.retry = FALSE, !.token = Nil,
                            !.live = FALSE]]
      BY <1>1, <2>1 DEF Record
    <3>3. QED BY <3>1, <3>2, NoErrors
  <2>2. CASE RecordError(w)
    <3> DEFINE s == IF proc[w].permanent THEN "failed" ELSE "uncertain"
               n == delivery[d].errors + 1
    <3>1. delivery' = [delivery EXCEPT ![d] =
                         [delivery[d] EXCEPT !.status = s, !.errors = n,
                            !.token = Nil, !.live = FALSE]]
      BY <1>1, <2>2 DEF RecordError
    <3>2. n \in 0..MaxErrors
      BY <1>2, <1>3, MemoryDeliveryAssumption DEF Row
    <3>3. s \in {"failed", "uncertain"} /\ delivery[d].retry \in BOOLEAN
      BY <1>2 DEF Row
    <3> HIDE DEF s, n
    <3>4. [delivery[d] EXCEPT !.status = s, !.errors = n, !.token = Nil,
                              !.live = FALSE]
            = [delivery[d] EXCEPT !.status = s, !.errors = n,
                 !.retry = delivery[d].retry, !.token = Nil, !.live = FALSE]
      BY <1>2 DEF Row
    <3>5. QED BY <3>1, <3>2, <3>3, <3>4
  <2>3. QED BY <2>1, <2>2
<1> DEFINE row == [delivery[d] EXCEPT !.status = s, !.errors = n,
                     !.retry = q, !.token = Nil, !.live = FALSE]
<1>6. row.status = s /\ row.errors = n /\ row.seq = delivery[d].seq
  BY <1>2 DEF Row
<1>7. delivery' = [delivery EXCEPT ![d] = row]
  BY <1>5
<1> HIDE DEF row
<1>8. /\ delivery'[d] = row
      /\ \A e \in Deliveries : e # d => delivery'[e] = delivery[e]
  BY <1>2, <1>7 DEF Shape
<1>9. s = "retained" => ~Blocked(d)'
  BY <1>5, <1>6, <1>8, MemoryDeliveryAssumption DEF Blocked
<1>10. next' = next
  BY DEF Record, RecordError
<1>11. RowMoves(d)
  BY <1>3, <1>4, <1>6, <1>8, <1>9, <1>10 DEF RowMoves
<1>12. QED BY <1>11

\* A step accepts a message, moves one row, or changes no row.
LEMMA QueueMoves ==
  ASSUME IInv, [Next]_vars
  PROVE  \/ \E d \in Deliveries : Enqueue(d)
         \/ \E d \in Deliveries : RowMoves(d)
         \/ UNCHANGED <<delivery, next>>
<1>1. ASSUME NEW d \in Deliveries,
             \/ RequestRetry(d) \/ ClaimDelivery(d)
             \/ OrphanExpires(d) \/ HeldLeaseExpires(d)
      PROVE  \E e \in Deliveries : RowMoves(e)
  <2>1. CASE ClaimDelivery(d)
    BY <2>1, ClaimMoves DEF ClaimDelivery
  <2>2. QED BY <1>1, <2>1, RequestRetryMoves, QuietMoves
<1>2. ASSUME NEW d \in Deliveries,
             \/ Decide(d) \/ NativeFinishes(d) \/ StraySubmit(d) \/ StrayRetry(d)
      PROVE  UNCHANGED <<delivery, next>>
  BY <1>2 DEF Decide, NativeFinishes, StraySubmit, StrayRetry
<1>3. ASSUME NEW w \in Workers, Perform(w) \/ Crash(w)
      PROVE  \/ \E d \in Deliveries : RowMoves(d)
             \/ UNCHANGED <<delivery, next>>
  <2>1. ASSUME \/ Check(w) \/ Answered(w) \/ LosesLease(w) \/ Crash(w)
               \/ \E permanent \in BOOLEAN : Fails(w, permanent)
        PROVE  UNCHANGED <<delivery, next>>
    BY <2>1 DEF Check, Answered, LosesLease, Crash, Fails
  <2>2. QED BY <1>3, <2>1, QuietMoves, VerdictMoves DEF Perform
<1>4. CASE UNCHANGED vars
  BY <1>4 DEF vars
<1>5. QED BY <1>1, <1>2, <1>3, <1>4 DEF Next

\* An empty outbox is numbered and in order.
LEMMA InitQueue == Init => QueueInv
<1> SUFFICES ASSUME Init PROVE QueueInv
  OBVIOUS
<1>1. /\ \A d \in Deliveries : delivery[d].seq = 0 /\ delivery[d].status = "absent"
      /\ \A b \in Banks : next[b] = 1
  BY DEF Init, NoDelivery
<1>2. NumberedInv
  BY <1>1 DEF NumberedInv
<1>3. FrontInv
  BY <1>1 DEF FrontInv
<1>4. QED BY <1>2, <1>3 DEF QueueInv

\* What Enqueue does to the rows and their numbers.
LEMMA EnqueueRow ==
  ASSUME IInv, NEW d \in Deliveries, Enqueue(d), NEW b \in Banks, b = BankOf[d]
  PROVE  /\ delivery[d].status = "absent" /\ delivery[d].seq = 0
         /\ delivery'[d].status = "queued" /\ delivery'[d].seq = next[b]
         /\ ~Blocked(d) /\ ~Blocked(d)'
         /\ \A e \in Deliveries : e # d => delivery'[e] = delivery[e]
         /\ next'[b] = next[b] + 1 /\ next[b] \in Nat
         /\ \A c \in Banks : c # b => next'[c] = next[c]
         /\ \A c \in Banks : next'[c] \in Nat /\ next[c] \in Nat
<1> DEFINE row == [delivery[d] EXCEPT !.status = "queued", !.seq = next[b]]
<1>1. Shape /\ RowOK(d) /\ delivery[d] \in Row
  BY TypeShape DEF IInv, Shape
<1>2. delivery[d].status = "absent" /\ delivery[d] = NoDelivery
  BY <1>1 DEF Enqueue, RowOK
<1>3. /\ row.status = "queued" /\ row.seq = next[b]
      /\ row.errors = delivery[d].errors
  BY <1>1 DEF Row
<1>4. /\ delivery' = [delivery EXCEPT ![d] = row]
      /\ next' = [next EXCEPT ![b] = next[b] + 1]
  BY DEF Enqueue
<1> HIDE DEF row
<1>5. /\ delivery'[d] = row
      /\ \A e \in Deliveries : e # d => delivery'[e] = delivery[e]
  BY <1>1, <1>4 DEF Shape
<1>6. /\ next'[b] = next[b] + 1 /\ next[b] \in Nat
      /\ \A c \in Banks : c # b => next'[c] = next[c]
      /\ \A c \in Banks : next'[c] \in Nat /\ next[c] \in Nat
  BY <1>1, <1>4 DEF Shape
<1>7. delivery[d].seq = 0 /\ delivery[d].errors = 0
  BY <1>2 DEF NoDelivery
<1>8. ~Blocked(d) /\ ~Blocked(d)'
  BY <1>2, <1>3, <1>5, <1>7, MemoryDeliveryAssumption DEF Blocked
<1>9. QED BY <1>2, <1>3, <1>5, <1>6, <1>7, <1>8

\* A row's number is below the next one of its relationship.
LEMMA NumbersBelow ==
  ASSUME IInv, NumberedInv, NEW d \in Deliveries, NEW b \in Banks, b = BankOf[d]
  PROVE  /\ delivery[d].seq \in Nat /\ next[b] \in Nat
         /\ delivery[d].seq < next[b]
         /\ delivery[d].status # "absent" <=> delivery[d].seq > 0
<1>1. Shape /\ RowOK(d)
  BY TypeShape DEF IInv
<1>2. delivery[d].seq \in Nat /\ next[b] \in Nat /\ next[b] > 0
  BY <1>1 DEF Shape, Row, NumberedInv
<1>3. CASE delivery[d].status = "absent"
  <2>1. delivery[d].seq = 0
    BY <1>1, <1>3 DEF RowOK, NoDelivery
  <2>2. QED BY <1>2, <1>3, <2>1
<1>4. CASE delivery[d].status # "absent"
  BY <1>1, <1>2, <1>4 DEF RowOK, NumberedInv
<1>5. QED BY <1>2, <1>3, <1>4

\* A new row gets the next number, and nobody else has it.
LEMMA EnqueueQueue ==
  ASSUME IInv, QueueInv, NEW d \in Deliveries, Enqueue(d)
  PROVE  QueueInv'
<1>1. PICK b \in Banks : b = BankOf[d]
  BY MemoryDeliveryAssumption
<1>2. /\ delivery[d].status = "absent" /\ delivery[d].seq = 0
      /\ delivery'[d].status = "queued" /\ delivery'[d].seq = next[b]
      /\ \A e \in Deliveries : e # d => delivery'[e] = delivery[e]
      /\ next'[b] = next[b] + 1
      /\ \A c \in Banks : c # b => next'[c] = next[c]
      /\ \A c \in Banks : next'[c] \in Nat /\ next[c] \in Nat
  BY <1>1, EnqueueRow
<1>3. NumberedInv
  BY DEF QueueInv
<1>4. ASSUME NEW c \in Banks PROVE next'[c] > 0
  BY <1>2, <1>3, <1>4 DEF NumberedInv
<1>5. ASSUME NEW e \in Deliveries, delivery'[e].status # "absent"
      PROVE  delivery'[e].seq > 0
  <2>1. CASE e = d
    BY <1>2, <1>3, <2>1 DEF NumberedInv
  <2>2. CASE e # d
    BY <1>2, <1>3, <1>5, <2>2 DEF NumberedInv
  <2>3. QED BY <2>1, <2>2
<1>6. ASSUME NEW c \in Banks, NEW i \in 1..(next'[c] - 1)
      PROVE  \E e \in Deliveries : BankOf[e] = c /\ delivery'[e].seq = i
  <2>1. CASE c = b /\ i = next[b]
    BY <1>1, <1>2, <2>1
  <2>2. CASE ~(c = b /\ i = next[b])
    <3>1. i \in 1..(next[c] - 1)
      BY <1>2, <2>2
    <3>2. PICK e \in Deliveries : BankOf[e] = c /\ delivery[e].seq = i
      BY <1>3, <3>1 DEF NumberedInv
    <3>3. e # d
      BY <1>2, <3>1, <3>2
    <3>4. QED BY <1>2, <3>2, <3>3
  <2>3. QED BY <2>1, <2>2
<1>7. ASSUME NEW e \in Deliveries, e # d, BankOf[e] = b
      PROVE  delivery'[e].seq # next[b]
  <2>1. /\ delivery[e].seq \in Nat /\ next[b] \in Nat
        /\ delivery[e].seq < next[b]
    BY <1>3, <1>7, NumbersBelow
  <2>2. QED BY <1>2, <1>7, <2>1
<1>8. ASSUME NEW e \in Deliveries, NEW f \in Deliveries, BankOf[e] = BankOf[f],
             delivery'[e].seq = delivery'[f].seq, e # f
      PROVE  delivery'[e].seq = 0
  <2>1. CASE e = d
    BY <1>1, <1>2, <1>7, <1>8, <2>1
  <2>2. CASE f = d
    BY <1>1, <1>2, <1>7, <1>8, <2>2
  <2>3. CASE e # d /\ f # d
    BY <1>2, <1>3, <1>8, <2>3 DEF NumberedInv
  <2>4. QED BY <2>1, <2>2, <2>3
<1>9. NumberedInv'
  BY <1>4, <1>5, <1>6, <1>8 DEF NumberedInv
<1>10. ASSUME NEW e \in Deliveries, delivery'[e].status \notin {"absent", "queued"}
       PROVE  InFront(e)'
  <2>1. e # d /\ delivery'[e] = delivery[e]
    BY <1>2, <1>10
  <2>2. InFront(e) /\ delivery[e].status # "absent"
    BY <1>10, <2>1 DEF QueueInv, FrontInv
  <2>3. QED BY <2>1, <2>2, EnqueueFront
<1>11. QED BY <1>9, <1>10 DEF QueueInv, FrontInv

\* A row that moves keeps its number.
LEMMA RowMovesQueue ==
  ASSUME IInv, QueueInv, NEW d \in Deliveries, RowMoves(d)
  PROVE  QueueInv'
<1>1. ASSUME NEW e \in Deliveries
      PROVE  /\ delivery'[e].seq = delivery[e].seq
             /\ delivery'[e].status = "absent" <=> delivery[e].status = "absent"
             /\ delivery[e].status = "retained" => delivery'[e].status = "retained"
  BY DEF RowMoves
<1>2. next' = next
  BY DEF RowMoves
<1>3. NumberedInv'
  <2>1. NumberedInv
    BY DEF QueueInv
  <2>2. QED BY <1>1, <1>2, <2>1 DEF NumberedInv
<1>4. ASSUME NEW e \in Deliveries, delivery'[e].status \notin {"absent", "queued"}
      PROVE  InFront(e)'
  <2>1. InFront(e)
    <3>1. CASE e = d
      BY <1>4, <3>1 DEF RowMoves
    <3>2. CASE e # d
      BY <1>4, <3>2 DEF RowMoves, QueueInv, FrontInv
    <3>3. QED BY <3>1, <3>2
  <2>2. QED BY <1>1, <2>1, InFrontKept
<1>5. QED BY <1>3, <1>4 DEF QueueInv, FrontInv

\* Every step keeps the rows numbered and in order.
LEMMA QueueInvInductive == IInv /\ QueueInv /\ [Next]_vars => QueueInv'
<1> SUFFICES ASSUME IInv, QueueInv, [Next]_vars PROVE QueueInv'
  OBVIOUS
<1>1. CASE UNCHANGED <<delivery, next>>
  BY <1>1 DEF QueueInv, NumberedInv, FrontInv, InFront, Earlier
<1>2. QED BY <1>1, QueueMoves, EnqueueQueue, RowMovesQueue

\* The deliveries of a relationship are numbered without gaps, and what was
\* claimed is in front, in every reachable state.
THEOREM QueueIsNumbered == Spec => []QueueInv
<1>1. QED BY InitQueue, QueueInvInductive, InvariantHolds, PTL DEF Spec

-----------------------------------------------------------------------------
(* What the abstract outbox sees.                                            *)

Kept(b) == {d \in Deliveries : BankOf[d] = b /\ delivery[d].status = "retained"}
Jammed(b) == \E d \in Deliveries : BankOf[d] = b /\ Blocked(d)

Accepted == [b \in Banks |-> InOrder(b)]
Remembered == [b \in Banks |-> Kept(b)]
Stuck == [b \in Banks |-> Jammed(b)]

\* The place of a row in its relationship's list is its number.
Listed ==
  \A b \in Banks :
    /\ InOrder(b) \in Seq(Deliveries) /\ DOMAIN InOrder(b) = 1..(next[b] - 1)
    /\ next[b] \in Nat \ {0}
    /\ \A i \in 1..(next[b] - 1) :
         /\ BankOf[InOrder(b)[i]] = b /\ delivery[InOrder(b)[i]].seq = i
         /\ delivery[InOrder(b)[i]].status # "absent"
    /\ \A d \in Deliveries :
         BankOf[d] = b /\ delivery[d].status # "absent" =>
           /\ delivery[d].seq \in 1..(next[b] - 1)
           /\ InOrder(b)[delivery[d].seq] = d

\* The list of a relationship holds exactly its rows, in their order.
LEMMA ListedHolds == IInv /\ QueueInv => Listed
<1> SUFFICES ASSUME IInv, QueueInv, NEW b \in Banks
             PROVE  /\ InOrder(b) \in Seq(Deliveries)
                    /\ DOMAIN InOrder(b) = 1..(next[b] - 1)
                    /\ next[b] \in Nat \ {0}
                    /\ \A i \in 1..(next[b] - 1) :
                         /\ BankOf[InOrder(b)[i]] = b
                         /\ delivery[InOrder(b)[i]].seq = i
                         /\ delivery[InOrder(b)[i]].status # "absent"
                    /\ \A d \in Deliveries :
                         BankOf[d] = b /\ delivery[d].status # "absent" =>
                           /\ delivery[d].seq \in 1..(next[b] - 1)
                           /\ InOrder(b)[delivery[d].seq] = d
  BY DEF Listed
<1>1. NumberedInv
  BY DEF QueueInv
<1>2. next[b] \in Nat \ {0}
  BY <1>1, TypeShape DEF IInv, Shape, NumberedInv
<1>3. ASSUME NEW i \in 1..(next[b] - 1)
      PROVE  /\ InOrder(b)[i] \in Deliveries /\ BankOf[InOrder(b)[i]] = b
             /\ delivery[InOrder(b)[i]].seq = i
             /\ delivery[InOrder(b)[i]].status # "absent"
  <2>1. \E d \in Deliveries : BankOf[d] = b /\ delivery[d].seq = i
    BY <1>1 DEF NumberedInv
  <2>2. InOrder(b)[i] = CHOOSE d \in Deliveries : BankOf[d] = b /\ delivery[d].seq = i
    BY DEF InOrder
  <2>3. /\ InOrder(b)[i] \in Deliveries /\ BankOf[InOrder(b)[i]] = b
        /\ delivery[InOrder(b)[i]].seq = i
    BY <2>1, <2>2
  <2>4. PICK d \in Deliveries : d = InOrder(b)[i]
    BY <2>3
  <2>5. delivery[d].status # "absent"
    BY <1>1, <2>3, <2>4, NumbersBelow
  <2>6. QED BY <2>3, <2>4, <2>5
<1>4. DOMAIN InOrder(b) = 1..(next[b] - 1)
  BY DEF InOrder
<1>5. InOrder(b) \in Seq(Deliveries)
  <2>1. InOrder(b) \in [1..(next[b] - 1) -> Deliveries]
    BY <1>3 DEF InOrder
  <2>2. next[b] - 1 \in Nat
    BY <1>2
  <2>3. QED BY <2>1, <2>2
<1>6. ASSUME NEW d \in Deliveries, BankOf[d] = b, delivery[d].status # "absent"
      PROVE  /\ delivery[d].seq \in 1..(next[b] - 1)
             /\ InOrder(b)[delivery[d].seq] = d
  <2>1. delivery[d].seq \in 1..(next[b] - 1) /\ delivery[d].seq # 0
    BY <1>1, <1>2, <1>6, NumbersBelow
  <2>2. PICK e \in Deliveries : e = InOrder(b)[delivery[d].seq]
    BY <1>3, <2>1
  <2>3. BankOf[e] = b /\ delivery[e].seq = delivery[d].seq
    BY <1>3, <2>1, <2>2
  <2>4. e = d
    BY <1>1, <1>6, <2>1, <2>3 DEF NumberedInv
  <2>5. QED BY <2>1, <2>2, <2>4
<1>7. QED BY <1>2, <1>3, <1>4, <1>5, <1>6

\* The list of a relationship whose rows keep their places.
LEMMA ListKept ==
  ASSUME Listed, Listed', NEW b \in Banks, next'[b] = next[b],
         \A e \in Deliveries : BankOf[e] = b =>
           /\ delivery'[e].seq = delivery[e].seq
           /\ delivery'[e].status = "absent" <=> delivery[e].status = "absent"
  PROVE  InOrder(b)' = InOrder(b)
<1>1. /\ InOrder(b) \in Seq(Deliveries) /\ InOrder(b)' \in Seq(Deliveries)
      /\ DOMAIN InOrder(b) = 1..(next[b] - 1)
      /\ DOMAIN InOrder(b)' = 1..(next[b] - 1) /\ next[b] \in Nat \ {0}
  BY DEF Listed
<1>2. ASSUME NEW i \in 1..(next[b] - 1) PROVE InOrder(b)'[i] = InOrder(b)[i]
  <2>1. PICK d \in Deliveries : d = InOrder(b)[i]
    BY <1>1
  <2>2. /\ BankOf[d] = b /\ delivery[d].seq = i
        /\ delivery[d].status # "absent"
    BY <2>1 DEF Listed
  <2>3. delivery'[d].seq = i /\ delivery'[d].status # "absent"
    BY <2>2
  <2>4. InOrder(b)'[delivery'[d].seq] = d
    BY <2>2, <2>3 DEF Listed
  <2>5. QED BY <2>1, <2>3, <2>4
<1>3. QED BY <1>1, <1>2

\* The list of a relationship that gets a new row.
LEMMA ListGrows ==
  ASSUME Listed, Listed', NEW b \in Banks, NEW d \in Deliveries, BankOf[d] = b,
         next'[b] = next[b] + 1, delivery[d].status = "absent",
         delivery'[d].status # "absent", delivery'[d].seq = next[b],
         \A e \in Deliveries : e # d => delivery'[e] = delivery[e]
  PROVE  InOrder(b)' = Append(InOrder(b), d)
<1> DEFINE s == InOrder(b)
           t == InOrder(b)'
<1>1. /\ s \in Seq(Deliveries) /\ t \in Seq(Deliveries)
      /\ DOMAIN s = 1..(next[b] - 1) /\ next[b] \in Nat \ {0}
      /\ DOMAIN t = 1..next[b]
  BY DEF Listed
<1>2. ASSUME NEW i \in 1..(next[b] - 1) PROVE t[i] = s[i]
  <2>1. PICK e \in Deliveries : e = s[i]
    BY <1>1
  <2>2. /\ BankOf[e] = b /\ delivery[e].seq = i
        /\ delivery[e].status # "absent"
    BY <2>1 DEF Listed
  <2>3. delivery'[e].seq = i /\ delivery'[e].status # "absent"
    BY <2>2
  <2>4. InOrder(b)'[delivery'[e].seq] = e
    BY <2>2, <2>3 DEF Listed
  <2>5. QED BY <2>1, <2>3, <2>4
<1>3. t[next[b]] = d
  BY DEF Listed
<1> HIDE DEF s, t
<1>4. Len(s) = next[b] - 1 /\ Len(t) = next[b]
  BY <1>1
<1>5. /\ Append(s, d) \in Seq(Deliveries) /\ Len(Append(s, d)) = next[b]
      /\ Append(s, d)[next[b]] = d
      /\ \A i \in 1..(next[b] - 1) : Append(s, d)[i] = s[i]
  BY <1>1, <1>4
<1>6. ASSUME NEW i \in 1..next[b] PROVE t[i] = Append(s, d)[i]
  BY <1>1, <1>2, <1>3, <1>5
<1>7. t = Append(s, d)
  BY <1>1, <1>4, <1>5, <1>6
<1>8. QED BY <1>7 DEF s, t

\* Two unfinished rows of one relationship are not both in front.
LEMMA OneInFront ==
  ASSUME IInv, QueueInv, NEW d \in Deliveries, NEW e \in Deliveries,
         BankOf[d] = BankOf[e], InFront(d), InFront(e),
         delivery[d].status \notin {"absent", "retained"},
         delivery[e].status \notin {"absent", "retained"}
  PROVE  d = e
<1>1. /\ delivery[d].seq \in Nat /\ delivery[e].seq \in Nat
      /\ delivery[d].seq > 0
  BY TypeShape DEF IInv, Shape, Row, QueueInv, NumberedInv
<1>2. ~(delivery[d].seq < delivery[e].seq)
  BY DEF InFront, Earlier
<1>3. ~(delivery[e].seq < delivery[d].seq)
  BY DEF InFront, Earlier
<1>4. delivery[d].seq = delivery[e].seq
  BY <1>1, <1>2, <1>3
<1>5. QED BY <1>1, <1>4 DEF QueueInv, NumberedInv

\* A row that waits for a person is the first unfinished one.
LEMMA BlockedInFront ==
  ASSUME IInv, QueueInv, NEW d \in Deliveries, Blocked(d)
  PROVE  InFront(d) /\ delivery[d].status \notin {"absent", "retained"}
<1>1. delivery[d].status \in {"failed", "uncertain"}
  BY DEF IInv, RowOK, Blocked
<1>2. QED BY <1>1 DEF QueueInv, FrontInv

\* The refinement mapping, before and after a step.
LEMMA OutboxMapping ==
  /\ Accepted = [b \in Banks |-> InOrder(b)]
  /\ Accepted' = [b \in Banks |-> InOrder(b)']
  /\ Remembered = [b \in Banks |->
       {d \in Deliveries : BankOf[d] = b /\ delivery[d].status = "retained"}]
  /\ Remembered' = [b \in Banks |->
       {d \in Deliveries : BankOf[d] = b /\ delivery'[d].status = "retained"}]
  /\ Stuck = [b \in Banks |-> \E d \in Deliveries : BankOf[d] = b /\ Blocked(d)]
  /\ Stuck' = [b \in Banks |-> \E d \in Deliveries : BankOf[d] = b /\ Blocked(d)']
  BY DEF Accepted, Remembered, Stuck, Kept, Jammed

\* The list of one relationship changes.
LEMMA AcceptedChanges ==
  ASSUME NEW b \in Banks, NEW x, InOrder(b)' = x,
         \A c \in Banks : c # b => InOrder(c)' = InOrder(c)
  PROVE  Accepted' = [Accepted EXCEPT ![b] = x]
  BY DEF Accepted

\* What one relationship remembers changes.
LEMMA RememberedChanges ==
  ASSUME NEW b \in Banks, NEW x, Kept(b)' = x,
         \A c \in Banks : c # b => Kept(c)' = Kept(c)
  PROVE  Remembered' = [Remembered EXCEPT ![b] = x]
  BY DEF Remembered

\* One relationship gets stuck, or comes unstuck.
LEMMA StuckChanges ==
  ASSUME NEW b \in Banks, NEW x \in BOOLEAN, Jammed(b)' <=> x,
         \A c \in Banks : c # b => (Jammed(c)' <=> Jammed(c))
  PROVE  Stuck' = [Stuck EXCEPT ![b] = x]
<1>1. \A c \in Banks : Jammed(c) \in BOOLEAN /\ Jammed(c)' \in BOOLEAN
  BY DEF Jammed
<1>2. Jammed(b)' = x /\ \A c \in Banks : c # b => Jammed(c)' = Jammed(c)
  BY <1>1
<1>3. QED BY <1>2 DEF Stuck

\* What the abstract outbox has for one relationship.
LEMMA OutboxOf ==
  ASSUME NEW b \in Banks
  PROVE  /\ Accepted[b] = InOrder(b) /\ Remembered[b] = Kept(b)
         /\ Stuck[b] <=> Jammed(b)
  BY DEF Accepted, Remembered, Stuck

\* Nothing changes for any relationship.
LEMMA NoBankChanges ==
  /\ (\A c \in Banks : InOrder(c)' = InOrder(c)) => Accepted' = Accepted
  /\ (\A c \in Banks : Kept(c)' = Kept(c)) => Remembered' = Remembered
  /\ (\A c \in Banks : Jammed(c)' <=> Jammed(c)) => Stuck' = Stuck
<1>1. (\A c \in Banks : InOrder(c)' = InOrder(c)) => Accepted' = Accepted
  BY DEF Accepted
<1>2. (\A c \in Banks : Kept(c)' = Kept(c)) => Remembered' = Remembered
  BY DEF Remembered
<1>3. ASSUME \A c \in Banks : Jammed(c)' <=> Jammed(c) PROVE Stuck' = Stuck
  <2>1. \A c \in Banks : Jammed(c) \in BOOLEAN /\ Jammed(c)' \in BOOLEAN
    BY DEF Jammed
  <2>2. \A c \in Banks : Jammed(c)' = Jammed(c)
    BY <1>3, <2>1
  <2>3. QED BY <2>2 DEF Stuck
<1>4. QED BY <1>1, <1>2, <1>3

\* Storing a message is accepting its delivery.
LEMMA EnqueueIsAccept ==
  ASSUME IInv, QueueInv, Listed, Listed', NEW d \in Deliveries, Enqueue(d),
         NEW b \in Banks, b = BankOf[d]
  PROVE  Outbox!Accept(b, d)
<1>1. /\ delivery[d].status = "absent" /\ delivery[d].seq = 0
      /\ delivery'[d].status = "queued" /\ delivery'[d].seq = next[b]
      /\ ~Blocked(d) /\ ~Blocked(d)'
      /\ \A e \in Deliveries : e # d => delivery'[e] = delivery[e]
      /\ next'[b] = next[b] + 1
      /\ \A c \in Banks : c # b => next'[c] = next[c]
  BY EnqueueRow
<1>2. InOrder(b)' = Append(InOrder(b), d)
  BY <1>1, ListGrows
<1>3. ASSUME NEW c \in Banks, c # b PROVE InOrder(c)' = InOrder(c)
  <2>1. \A e \in Deliveries : BankOf[e] = c => delivery'[e] = delivery[e]
    BY <1>1, <1>3
  <2>2. QED BY <1>1, <1>3, <2>1, ListKept
<1>4. Accepted' = [Accepted EXCEPT ![b] = Append(Accepted[b], d)]
  BY <1>2, <1>3, AcceptedChanges, OutboxOf
<1>5. Remembered' = Remembered
  <2>1. ASSUME NEW c \in Banks PROVE Kept(c)' = Kept(c)
    BY <1>1 DEF Kept
  <2>2. QED BY <2>1, NoBankChanges
<1>6. Stuck' = Stuck
  <2>1. ASSUME NEW e \in Deliveries PROVE Blocked(e)' <=> Blocked(e)
    <3>1. CASE e = d
      BY <1>1, <3>1
    <3>2. CASE e # d
      BY <1>1, <3>2 DEF Blocked
    <3>3. QED BY <3>1, <3>2
  <2>2. ASSUME NEW c \in Banks PROVE Jammed(c)' <=> Jammed(c)
    BY <2>1 DEF Jammed
  <2>3. QED BY <2>2, NoBankChanges
<1>7. \A i \in DOMAIN Accepted[b] : Accepted[b][i] # d
  BY <1>1, OutboxOf DEF Listed
<1>8. /\ BankOf[d] = b
      /\ \A i \in DOMAIN Accepted[b] : Accepted[b][i] # d
      /\ Accepted' = [Accepted EXCEPT ![b] = Append(Accepted[b], d)]
      /\ Remembered' = Remembered /\ Stuck' = Stuck
  BY <1>4, <1>5, <1>6, <1>7
<1>9. QED BY <1>8, OutboxMapping DEF Outbox!Accept

\* A row that moves leaves every list as it is.
LEMMA RowMovesLists ==
  ASSUME Listed, Listed', NEW d \in Deliveries, RowMoves(d)
  PROVE  Accepted' = Accepted
<1>1. ASSUME NEW c \in Banks PROVE InOrder(c)' = InOrder(c)
  <2>1. ASSUME NEW e \in Deliveries
        PROVE  /\ delivery'[e].seq = delivery[e].seq
               /\ delivery'[e].status = "absent" <=> delivery[e].status = "absent"
    BY DEF RowMoves
  <2>2. next' = next
    BY DEF RowMoves
  <2>3. QED BY <2>1, <2>2, ListKept
<1>2. QED BY <1>1, NoBankChanges

\* What is remembered, and who is stuck, when one row moves.
LEMMA RowMovesSeen ==
  ASSUME NEW d \in Deliveries, RowMoves(d), NEW b \in Banks, b = BankOf[d]
  PROVE  /\ (delivery'[d].status = "retained" <=> delivery[d].status = "retained")
              => Remembered' = Remembered
         /\ (Blocked(d)' <=> Blocked(d)) => Stuck' = Stuck
         /\ \A c \in Banks : c # b => (Jammed(c)' <=> Jammed(c))
<1>1. ASSUME NEW e \in Deliveries, e # d
      PROVE  delivery'[e] = delivery[e] /\ (Blocked(e)' <=> Blocked(e))
  BY <1>1 DEF RowMoves, Blocked
<1>2. ASSUME delivery'[d].status = "retained" <=> delivery[d].status = "retained"
      PROVE  Remembered' = Remembered
  <2>1. ASSUME NEW c \in Banks PROVE Kept(c)' = Kept(c)
    BY <1>1, <1>2 DEF Kept
  <2>2. QED BY <2>1, NoBankChanges
<1>3. ASSUME Blocked(d)' <=> Blocked(d) PROVE Stuck' = Stuck
  <2>1. ASSUME NEW c \in Banks PROVE Jammed(c)' <=> Jammed(c)
    BY <1>1, <1>3 DEF Jammed
  <2>2. QED BY <2>1, NoBankChanges
<1>4. ASSUME NEW c \in Banks, c # b PROVE Jammed(c)' <=> Jammed(c)
  BY <1>1, <1>4 DEF Jammed
<1>5. QED BY <1>2, <1>3, <1>4

\* The first unfinished row, while it is not blocked, keeps its relationship
\* from being stuck.
LEMMA NotJammed ==
  ASSUME IInv, QueueInv, NEW d \in Deliveries, NEW b \in Banks, b = BankOf[d],
         InFront(d), delivery[d].status \notin {"absent", "retained"},
         ~Blocked(d)
  PROVE  ~Jammed(b)
<1> SUFFICES ASSUME NEW e \in Deliveries, BankOf[e] = b, Blocked(e) PROVE FALSE
  BY DEF Jammed
<1>1. InFront(e) /\ delivery[e].status \notin {"absent", "retained"}
  BY BlockedInFront
<1>2. d = e
  BY <1>1, OneInFront
<1>3. QED BY <1>2

\* A row that is retained is remembered, as the oldest that was not.
LEMMA RetainedIsRemember ==
  ASSUME IInv, QueueInv, Listed, Listed', NEW d \in Deliveries, RowMoves(d),
         NEW b \in Banks, b = BankOf[d],
         delivery[d].status # "retained", ~Blocked(d), InFront(d),
         delivery'[d].status = "retained", ~Blocked(d)'
  PROVE  Outbox!Remember(b)
<1>1. delivery[d].status # "absent"
  BY DEF RowMoves
<1>2. Stuck' = Stuck /\ Accepted' = Accepted
  BY RowMovesSeen, RowMovesLists
<1>3. ~Stuck[b]
  BY <1>1, NotJammed, OutboxOf
<1>4. PICK i : i = delivery[d].seq
  OBVIOUS
<1>5. /\ i \in DOMAIN Accepted[b] /\ Accepted[b][i] = d
      /\ DOMAIN Accepted[b] = 1..(next[b] - 1)
  BY <1>1, <1>4, OutboxOf DEF Listed
<1>6. d \notin Remembered[b]
  BY OutboxOf DEF Kept
<1>7. ASSUME NEW j \in 1..(i - 1) PROVE Accepted[b][j] \in Remembered[b]
  <2>1. j \in 1..(next[b] - 1) /\ j < i
    BY <1>4, <1>5, <1>7 DEF Listed
  <2>2. PICK e \in Deliveries : e = InOrder(b)[j]
    BY <2>1 DEF Listed
  <2>3. /\ BankOf[e] = b /\ delivery[e].seq = j
        /\ delivery[e].status # "absent"
    BY <2>1, <2>2 DEF Listed
  <2>4. e \in Earlier(d)
    BY <1>4, <2>1, <2>3 DEF Earlier
  <2>5. e \in Kept(b)
    BY <2>3, <2>4 DEF InFront, Kept
  <2>6. QED BY <2>2, <2>5, OutboxOf
<1>8. Remembered' = [Remembered EXCEPT ![b] = Remembered[b] \cup {d}]
  <2>1. Kept(b)' = Kept(b) \cup {d}
    BY DEF Kept, RowMoves
  <2>2. ASSUME NEW c \in Banks, c # b PROVE Kept(c)' = Kept(c)
    BY <2>2 DEF Kept, RowMoves
  <2>3. QED BY <2>1, <2>2, RememberedChanges, OutboxOf
<1>9. \E k \in DOMAIN Accepted[b] :
        /\ Accepted[b][k] \notin Remembered[b]
        /\ \A j \in 1..(k - 1) : Accepted[b][j] \in Remembered[b]
        /\ Remembered'
             = [Remembered EXCEPT ![b] = Remembered[b] \cup {Accepted[b][k]}]
  BY <1>5, <1>6, <1>7, <1>8
<1>10. QED BY <1>2, <1>3, <1>9, OutboxMapping DEF Outbox!Remember

\* A row that is given up holds its relationship up.
LEMMA GivenUpIsGetStuck ==
  ASSUME IInv, QueueInv, Listed, Listed', NEW d \in Deliveries, RowMoves(d),
         NEW b \in Banks, b = BankOf[d],
         delivery[d].status # "retained", ~Blocked(d), InFront(d),
         delivery'[d].status # "retained", Blocked(d)'
  PROVE  Outbox!GetStuck(b)
<1>1. delivery[d].status # "absent"
  BY DEF RowMoves
<1>2. Remembered' = Remembered /\ Accepted' = Accepted
  BY RowMovesSeen, RowMovesLists
<1>3. ~Stuck[b]
  BY <1>1, NotJammed, OutboxOf
<1>4. /\ delivery[d].seq \in DOMAIN Accepted[b]
      /\ Accepted[b][delivery[d].seq] = d
  BY <1>1, OutboxOf DEF Listed
<1>5. d \notin Remembered[b]
  BY OutboxOf DEF Kept
<1>6. \E i \in DOMAIN Accepted[b] : Accepted[b][i] \notin Remembered[b]
  BY <1>4, <1>5
<1>7. Stuck' = [Stuck EXCEPT ![b] = TRUE]
  <2>1. Jammed(b)' <=> TRUE
    BY DEF Jammed
  <2>2. \A c \in Banks : c # b => (Jammed(c)' <=> Jammed(c))
    BY RowMovesSeen
  <2>3. QED BY <2>1, <2>2, StuckChanges
<1>8. QED BY <1>2, <1>3, <1>6, <1>7, OutboxMapping
          DEF Outbox!GetStuck, Outbox!Waiting

\* A person's Retry of a row that was given up lets its relationship go on.
LEMMA TakenUpIsReopen ==
  ASSUME IInv, QueueInv, Listed, Listed', NEW d \in Deliveries, RowMoves(d),
         NEW b \in Banks, b = BankOf[d],
         delivery[d].status # "retained", Blocked(d),
         delivery'[d].status # "retained", ~Blocked(d)'
  PROVE  Outbox!Reopen(b)
<1>1. Remembered' = Remembered /\ Accepted' = Accepted
  BY RowMovesSeen, RowMovesLists
<1>2. Stuck[b]
  BY OutboxOf DEF Jammed
<1>3. Stuck' = [Stuck EXCEPT ![b] = FALSE]
  <2>1. ASSUME NEW e \in Deliveries, BankOf[e] = b, Blocked(e)' PROVE FALSE
    <3>1. e # d
      BY <2>1
    <3>2. Blocked(e)
      BY <2>1, <3>1 DEF RowMoves, Blocked
    <3>3. /\ InFront(e) /\ delivery[e].status \notin {"absent", "retained"}
          /\ InFront(d) /\ delivery[d].status \notin {"absent", "retained"}
      BY <3>2, BlockedInFront
    <3>4. QED BY <2>1, <3>1, <3>3, OneInFront
  <2>2. Jammed(b)' <=> FALSE
    BY <2>1 DEF Jammed
  <2>3. \A c \in Banks : c # b => (Jammed(c)' <=> Jammed(c))
    BY RowMovesSeen
  <2>4. QED BY <2>2, <2>3, StuckChanges
<1>4. QED BY <1>1, <1>2, <1>3, OutboxMapping DEF Outbox!Reopen

\* Every step of the outbox is a step of the abstract one, or none.
LEMMA OutboxStep ==
  IInv /\ IInv' /\ QueueInv /\ QueueInv' /\ Listed /\ Listed' /\ [Next]_vars
    => [Outbox!Next]_(Outbox!vars)
<1> SUFFICES ASSUME IInv, QueueInv, Listed, Listed', [Next]_vars
             PROVE  Outbox!Next \/ UNCHANGED Outbox!vars
  OBVIOUS
<1>1. ASSUME NEW d \in Deliveries, Enqueue(d) PROVE Outbox!Next
  <2>1. PICK b \in Banks : b = BankOf[d]
    BY MemoryDeliveryAssumption
  <2>2. Outbox!Accept(b, d)
    BY <1>1, <2>1, EnqueueIsAccept
  <2>3. QED BY <2>2 DEF Outbox!Next
<1>2. ASSUME NEW d \in Deliveries, RowMoves(d)
      PROVE  Outbox!Next \/ UNCHANGED Outbox!vars
  <2>1. PICK b \in Banks : b = BankOf[d]
    BY MemoryDeliveryAssumption
  <2>2. CASE /\ delivery'[d].status = "retained" <=> delivery[d].status = "retained"
             /\ Blocked(d)' <=> Blocked(d)
    <3>1. Remembered' = Remembered /\ Stuck' = Stuck /\ Accepted' = Accepted
      BY <1>2, <2>1, <2>2, RowMovesSeen, RowMovesLists
    <3>2. QED BY <3>1, OutboxMapping DEF Outbox!vars
  <2>3. CASE /\ delivery[d].status # "retained" /\ ~Blocked(d) /\ InFront(d)
             /\ delivery'[d].status = "retained" /\ ~Blocked(d)'
    <3>1. Outbox!Remember(b)
      BY <1>2, <2>1, <2>3, RetainedIsRemember
    <3>2. QED BY <3>1 DEF Outbox!Next
  <2>4. CASE /\ delivery[d].status # "retained" /\ ~Blocked(d) /\ InFront(d)
             /\ delivery'[d].status # "retained" /\ Blocked(d)'
    <3>1. Outbox!GetStuck(b)
      BY <1>2, <2>1, <2>4, GivenUpIsGetStuck
    <3>2. QED BY <3>1 DEF Outbox!Next
  <2>5. CASE /\ delivery[d].status # "retained" /\ Blocked(d)
             /\ delivery'[d].status # "retained" /\ ~Blocked(d)'
    <3>1. Outbox!Reopen(b)
      BY <1>2, <2>1, <2>5, TakenUpIsReopen
    <3>2. QED BY <3>1 DEF Outbox!Next
  <2>6. QED BY <1>2, <2>2, <2>3, <2>4, <2>5 DEF RowMoves
<1>3. CASE UNCHANGED <<delivery, next>>
  <2>1. \A c \in Banks : /\ InOrder(c)' = InOrder(c) /\ Kept(c)' = Kept(c)
                         /\ Jammed(c)' <=> Jammed(c)
    BY <1>3 DEF InOrder, Kept, Jammed, Blocked
  <2>2. Remembered' = Remembered /\ Stuck' = Stuck /\ Accepted' = Accepted
    BY <2>1, NoBankChanges
  <2>3. QED BY <2>2, OutboxMapping DEF Outbox!vars
<1>4. QED BY <1>1, <1>2, <1>3, QueueMoves

\* An empty outbox is an empty outbox.
LEMMA InitOutbox == Init => Outbox!Init
<1> SUFFICES ASSUME Init PROVE Outbox!Init
  OBVIOUS
<1>1. /\ \A d \in Deliveries : /\ delivery[d].status = "absent"
                               /\ delivery[d].errors = 0
      /\ \A b \in Banks : next[b] = 1
  BY DEF Init, NoDelivery
<1>2. ASSUME NEW b \in Banks PROVE InOrder(b) = << >>
  <2>1. 1..(next[b] - 1) = {}
    BY <1>1
  <2>2. QED BY <2>1 DEF InOrder
<1>3. ASSUME NEW b \in Banks PROVE Kept(b) = {}
  BY <1>1 DEF Kept
<1>4. ASSUME NEW b \in Banks PROVE Jammed(b) = FALSE
  BY <1>1, MemoryDeliveryAssumption DEF Jammed, Blocked
<1>5. /\ Accepted = [b \in Banks |-> << >>] /\ Remembered = [b \in Banks |-> {}]
      /\ Stuck = [b \in Banks |-> FALSE]
  BY <1>2, <1>3, <1>4 DEF Accepted, Remembered, Stuck
<1>6. QED BY <1>5, OutboxMapping DEF Outbox!Init

\* MemoryDelivery implements OrderedOutbox: claims, polls, leases, crashes,
\* takeovers, lost and late requests are invisible in what a relationship
\* remembers, which grows by its oldest missing message at a time, and stops
\* only while that message waits for a person.
THEOREM ImplementsOutbox == Spec => KeepsOutboxContract
<1>1. Init => Outbox!Init
  BY InitOutbox
<1>2. IInv /\ IInv' /\ QueueInv /\ QueueInv' /\ [Next]_vars
        => [Outbox!Next]_(Outbox!vars)
  <2>1. IInv /\ QueueInv => Listed
    BY ListedHolds
  <2>2. (IInv /\ QueueInv => Listed)'
    BY ListedHolds, PTL
  <2>3. QED BY <2>1, <2>2, OutboxStep
<1>3. QED BY <1>1, <1>2, InvariantHolds, QueueIsNumbered, PTL
          DEF Spec, KeepsOutboxContract, Outbox!SafeSpec

=============================================================================

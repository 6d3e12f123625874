------------------------- MODULE TurnExecutionProofs -------------------------
(***************************************************************************)
(* Proofs about TurnExecution, for any number of workers, turns, faults    *)
(* and token budgets: a reply is composed from all of the dialogue, in the *)
(* summary or in full, and a failed memory lookup holds the saved input.   *)
(***************************************************************************)
EXTENDS TurnExecution, SequenceTheorems, TLAPS

-----------------------------------------------------------------------------
(* The inductive invariant.                                                *)

Message == [role : {"user", "assistant"}, size : InputSizes \cup ReplySizes]
Summary == [through : Nat, told : SUBSET Nat, run : Nat]
Turn == [status : Active \cup {"succeeded", "failed", "cancelled"},
         input : Nat, accepted : Nat, left : 0..Attempts, cancel : BOOLEAN]
Memory == [phase : Phases, run : Nat, seen : Nat, chained : Nat, through : Nat,
           told : SUBSET Nat, planned : BOOLEAN, shown : SUBSET Nat,
           requests : 0..MaxRequests, error : Errors, missed : BOOLEAN]

\* Attempts that have read their sources, and those that composed a request.
WithSources == {"recalling", "preparing", "compacting",
                 "generating", "searching", "candidate"}
WithRequest == {"generating", "searching", "candidate"}

\* Inputs are in the transcript, and no turn is from a later version.
TurnsPlaced ==
  \A t \in DOMAIN runs :
    runs[t].input \in 1..Len(messages) /\ runs[t].accepted <= version

\* A summary tells its whole range, which lies before the input of its own
\* turn and of every turn that may still commit.
Complete(s) ==
  /\ s.told = 1 .. s.through
  /\ s.run \in DOMAIN runs /\ s.through < runs[s.run].input
  /\ \A t \in DOMAIN runs : runs[t].accepted = version => s.through < runs[t].input

SummariesComplete == \A n \in DOMAIN summaries : Complete(summaries[n])

\* What a worker holds of the dialogue has no gap and reaches its input only
\* when its turn can no longer commit; a missed lookup has ended the attempt.
Exact(p) ==
  /\ p.phase # "idle" => p.run \in DOMAIN runs
  /\ p.phase \in WithSources =>
       /\ p.told = 1 .. p.through
       /\ runs[p.run].accepted = version => p.through < runs[p.run].input
  /\ p.phase \in WithRequest => p.shown = p.through + 1 .. runs[p.run].input - 1
  /\ p.missed => p.phase = "raised" /\ p.error = "lookup"

AttemptsExact == \A w \in Workers : Exact(proc[w])

\* Who speaks for a claimed turn has an attempt left to start.
AttemptLeft ==
  \A w \in Workers :
    proc[w].phase = "claimed" /\ Owns(w) => runs[proc[w].run].left > 0

IInv == /\ TypeOK /\ TurnsPlaced /\ SummariesComplete
        /\ AttemptsExact /\ AttemptLeft

LEMMA Types ==
  TypeOK <=> /\ messages \in Seq(Message) /\ summaries \in Seq(Summary)
             /\ version \in Nat /\ runs \in Seq(Turn)
             /\ lease \in Workers \cup {Nil} /\ proc \in [Workers -> Memory]
             /\ retries \in 0..MaxRetries /\ faults \in 0..MaxFaults
  BY DEF TypeOK, Message, Summary, Turn, Memory

LEMMA Bounds ==
  /\ Nil \notin Workers /\ MaxRequests \in Nat /\ MaxRetries \in Nat
  /\ MaxFaults \in Nat /\ Attempts \in Nat /\ Attempts > 0
  BY TurnAssumption

LEMMA IdleExact ==
  /\ Idle \in Memory /\ Exact(Idle) /\ Idle.phase = "idle" /\ ~Idle.missed
  BY Bounds DEF Idle, Memory, Exact, Phases, Reading, Lookups, Errors,
                WithSources, WithRequest

\* An empty conversation and idle workers.
THEOREM InitIInv == Init => IInv
<1> SUFFICES ASSUME Init PROVE IInv
  OBVIOUS
<1>1. TypeOK
  BY IdleExact, Bounds, Types DEF Init
<1>2. TurnsPlaced /\ SummariesComplete
  BY DEF Init, TurnsPlaced, SummariesComplete
<1>3. AttemptsExact /\ AttemptLeft
  BY IdleExact DEF Init, AttemptsExact, AttemptLeft
<1> QED BY <1>1, <1>2, <1>3 DEF IInv

-----------------------------------------------------------------------------
(* The steps of an attempt.                                                *)

\* What has become of a worker's own memory is all that changes.
LEMMA StepSound ==
  ASSUME IInv, NEW w \in Workers, NEW p \in Memory, Exact(p),
         p.phase = "claimed" => p = proc[w], Step(w, p)
  PROVE  IInv'
<1>1. /\ proc' = [proc EXCEPT ![w] = p]
      /\ messages' = messages /\ summaries' = summaries /\ version' = version
      /\ runs' = runs /\ lease' = lease /\ retries' = retries /\ faults' = faults
  BY DEF Step, Rows
<1>2. proc \in [Workers -> Memory]
  BY Types DEF IInv
<1>3. TypeOK'
  BY <1>1, Types DEF IInv, TypeOK, Message, Summary, Turn, Memory
<1>4. TurnsPlaced' /\ SummariesComplete'
  BY <1>1 DEF IInv, TurnsPlaced, SummariesComplete, Complete
<1>5. \A u \in Workers : proc'[u] = IF u = w THEN p ELSE proc[u]
  BY <1>1, <1>2
<1>6. AttemptsExact'
  <2>1. ASSUME NEW u \in Workers PROVE Exact(proc'[u])
    BY <1>5 DEF IInv, AttemptsExact
  <2> QED BY <1>1, <2>1 DEF AttemptsExact, Exact
<1>7. AttemptLeft'
  BY <1>1, <1>5 DEF IInv, AttemptLeft, Owns
<1> QED BY <1>3, <1>4, <1>6, <1>7 DEF IInv

LEMMA RaisedExact ==
  ASSUME NEW p, p.run \in Nat, p.run \in DOMAIN runs, NEW error \in Errors
  PROVE  /\ Raised(p, error) \in Memory /\ Exact(Raised(p, error))
         /\ Raised(p, error).phase = "raised" /\ Raised(p, error).run = p.run
         /\ Raised(p, error).error = error
<1>1. /\ Raised(p, error).phase = "raised" /\ Raised(p, error).run = p.run
      /\ Raised(p, error).error = error /\ ~Raised(p, error).missed
  BY DEF Raised, Idle
<1>2. Raised(p, error) \in Memory
  <2>1. "raised" \in Phases
    BY DEF Phases
  <2> QED BY <2>1, IdleExact DEF Raised, Memory
<1>3. Exact(Raised(p, error))
  BY <1>1 DEF Exact, WithSources, WithRequest
<1> QED BY <1>1, <1>2, <1>3

\* What a worker starts out with: nothing but its turn.
LEMMA FreshExact ==
  ASSUME NEW phase \in {"claimed", "starting"}, NEW t \in Nat, t \in DOMAIN runs
  PROVE  LET p == [Idle EXCEPT !.phase = phase, !.run = t]
         IN  p \in Memory /\ Exact(p) /\ p.phase = phase /\ p.run = t
<1> DEFINE p == [Idle EXCEPT !.phase = phase, !.run = t]
<1>1. phase \in Phases /\ phase \notin WithSources /\ phase \notin WithRequest
  BY DEF Phases, Reading, WithSources, WithRequest
<1>2. p \in Memory /\ p.phase = phase /\ p.run = t /\ ~p.missed
  BY <1>1, IdleExact DEF Memory
<1>3. Exact(p)
  BY <1>1, <1>2 DEF Exact
<1> QED BY <1>2, <1>3

LEMMA Holding ==
  ASSUME IInv, NEW w \in Workers
  PROVE  /\ proc[w] \in Memory /\ Exact(proc[w])
         /\ proc[w].phase # "idle" =>
              /\ proc[w].run \in DOMAIN runs /\ runs[proc[w].run] \in Turn
              /\ proc[w].run \in Nat
<1>1. proc[w] \in Memory /\ Exact(proc[w])
  BY Types DEF IInv, AttemptsExact
<1>2. runs \in Seq(Turn)
  BY Types DEF IInv
<1> QED BY <1>1, <1>2 DEF Exact, Memory

LEMMA RaiseSound ==
  ASSUME IInv, NEW w \in Workers, proc[w].phase # "idle",
         NEW error \in Errors, Raise(w, error)
  PROVE  IInv'
  BY Holding, RaisedExact, StepSound DEF Raise

LEMMA MissingSound ==
  ASSUME IInv, NEW w \in Workers, proc[w].phase # "idle",
         Missing(w, Raised(proc[w], "lookup"))
  PROVE  IInv'
<1> DEFINE q == Raised(proc[w], "lookup")
           p == [q EXCEPT !.missed = TRUE]
<1>1. proc[w].run \in Nat /\ proc[w].run \in DOMAIN runs
  BY Holding
<1>2. /\ q \in Memory /\ Exact(q) /\ q.phase = "raised"
      /\ q.run = proc[w].run /\ q.error = "lookup"
  BY <1>1, RaisedExact DEF Errors
<1>3. Step(w, p)
  BY DEF Missing
<1> HIDE DEF q
<1>4. /\ p \in Memory /\ p.phase = "raised" /\ p.run = proc[w].run
      /\ p.error = "lookup"
  BY <1>2 DEF Memory
<1> HIDE DEF p
<1>5. Exact(p)
  BY <1>1, <1>4 DEF Exact, WithSources, WithRequest
<1> QED BY <1>3, <1>4, <1>5, StepSound

\* A step that moves on, with the dialogue as exact as it was.
LEMMA MovesOn ==
  ASSUME IInv, NEW w \in Workers,
         proc[w].phase \in {"recalling", "preparing", "generating", "searching"},
         NEW phase \in {"preparing", "generating", "searching", "candidate"},
         NEW requests \in 0..MaxRequests,
         phase = "preparing" \/ proc[w].phase \in WithRequest,
         Step(w, [proc[w] EXCEPT !.phase = phase, !.requests = requests])
  PROVE  IInv'
<1> DEFINE p == [proc[w] EXCEPT !.phase = phase, !.requests = requests]
<1>1. proc[w] \in Memory /\ Exact(proc[w])
  BY Holding
<1>2. /\ p \in Memory /\ p.phase = phase /\ p.run = proc[w].run
      /\ p.through = proc[w].through /\ p.told = proc[w].told
      /\ p.shown = proc[w].shown /\ (p.missed <=> proc[w].missed)
  BY <1>1 DEF Memory, Phases, Lookups
<1>3. Step(w, p)
  OBVIOUS
<1> HIDE DEF p
<1>4. ~p.missed
  BY <1>1, <1>2 DEF Exact
<1>5. Exact(p)
  BY <1>1, <1>2, <1>4 DEF Exact, WithSources, WithRequest
<1> QED BY <1>2, <1>3, <1>5, StepSound

LEMMA ReadSound ==
  ASSUME IInv, NEW w \in Workers,
         ReadConversation(w) \/ ReadMessages(w) \/ ReadFails(w)
  PROVE  IInv'
<1> DEFINE p(phase, seen) == [proc[w] EXCEPT !.phase = phase, !.seen = seen]
<1>1. /\ proc[w] \in Memory /\ Exact(proc[w]) /\ proc[w].phase \in Reading
      /\ proc[w].run \in DOMAIN runs /\ messages \in Seq(Message)
  BY Holding, Types DEF IInv, ReadConversation, ReadMessages, ReadFails, Reading
<1>2. CASE Raise(w, "refused")
  BY <1>1, <1>2, RaiseSound DEF Reading, Errors
<1>3. ASSUME NEW phase \in {"checked", "listed"}, NEW seen \in Nat,
             Step(w, p(phase, seen))
      PROVE  IInv'
  <2>1. /\ p(phase, seen) \in Memory /\ p(phase, seen).phase = phase
        /\ p(phase, seen).run = proc[w].run
        /\ (p(phase, seen).missed <=> proc[w].missed)
    BY <1>1 DEF Memory, Phases, Reading
  <2> HIDE DEF p
  <2>2. Exact(p(phase, seen))
    BY <1>1, <2>1 DEF Exact, Reading, WithSources, WithRequest
  <2> QED BY <1>3, <2>1, <2>2, StepSound
<1>4. CASE Step(w, [proc[w] EXCEPT !.phase = "checked"])
  <2>1. proc[w].seen \in Nat
    BY <1>1 DEF Memory
  <2>2. p("checked", proc[w].seen) = [proc[w] EXCEPT !.phase = "checked"]
    BY <1>1 DEF Memory
  <2> HIDE DEF p
  <2> QED BY <1>3, <1>4, <2>1, <2>2
<1>5. CASE Step(w, [proc[w] EXCEPT !.phase = "listed", !.seen = Len(messages)])
  <2> DEFINE n == Len(messages)
  <2>1. n \in Nat
    BY <1>1
  <2>2. Step(w, p("listed", n))
    BY <1>5
  <2> HIDE DEF p, n
  <2> QED BY <1>3, <2>1, <2>2
<1> QED BY <1>2, <1>4, <1>5 DEF ReadConversation, ReadMessages, ReadFails

\* The summary is read last: one that reaches the input was committed by a
\* later turn, and then the version is no longer that of the accepted turn.
LEMMA ReadSummarySound ==
  ASSUME IInv, NEW w \in Workers, ReadSummary(w)
  PROVE  IInv'
<1> DEFINE n == Len(summaries)
           p == [proc[w] EXCEPT !.phase = "recalling", !.seen = 0, !.chained = n,
                                !.through = IF n = 0 THEN 0 ELSE summaries[n].through,
                                !.told = IF n = 0 THEN {} ELSE summaries[n].told]
<1>1. /\ proc[w] \in Memory /\ Exact(proc[w]) /\ proc[w].phase = "listed"
      /\ proc[w].run \in DOMAIN runs /\ runs[proc[w].run] \in Turn
  BY Holding DEF ReadSummary
<1>2. CASE Raise(w, "refused")
  BY <1>1, <1>2, RaiseSound DEF Errors
<1>3. CASE Step(w, p)
  <2>1. n \in Nat /\ summaries \in Seq(Summary)
    BY Types DEF IInv
  <2>2. n # 0 => /\ summaries[n] \in Summary /\ Complete(summaries[n])
    BY <2>1 DEF IInv, SummariesComplete
  <2>3. runs[proc[w].run].input \in Nat /\ runs[proc[w].run].input >= 1
    BY <1>1 DEF IInv, TurnsPlaced, Turn
  <2>4. /\ p.phase = "recalling" /\ p.run = proc[w].run
        /\ p.through = IF n = 0 THEN 0 ELSE summaries[n].through
        /\ p.told = IF n = 0 THEN {} ELSE summaries[n].told
        /\ (p.missed <=> proc[w].missed)
    BY <1>1 DEF Memory
  <2>5. p \in Memory
    BY <1>1, <2>1, <2>2 DEF Memory, Summary, Phases, Lookups
  <2> HIDE DEF p
  <2>6. /\ p.told = 1 .. p.through
        /\ runs[p.run].accepted = version => p.through < runs[p.run].input
    <3>1. CASE n = 0
      BY <2>3, <2>4, <3>1
    <3>2. CASE n # 0
      BY <1>1, <2>2, <2>4, <3>2 DEF Complete
    <3> QED BY <3>1, <3>2
  <2>7. Exact(p)
    BY <1>1, <2>4, <2>6 DEF Exact, WithSources, WithRequest
  <2> QED BY <1>3, <2>4, <2>5, <2>7, StepSound
<1> QED BY <1>2, <1>3 DEF ReadSummary

LEMMA LookupSound ==
  ASSUME IInv, NEW w \in Workers,
         Recalled(w) \/ LookupFails(w) \/ LookupBreaks(w)
  PROVE  IInv'
<1>1. proc[w] \in Memory /\ Exact(proc[w])
  BY Holding
<1>2. CASE Recalled(w)
  <2>1. proc[w].requests \in 0..MaxRequests
    BY <1>1 DEF Memory
  <2>2. [proc[w] EXCEPT !.phase = "preparing"] =
          [proc[w] EXCEPT !.phase = "preparing", !.requests = proc[w].requests]
    BY <1>1 DEF Memory
  <2> QED BY <1>2, <2>1, <2>2, MovesOn DEF Recalled
<1>3. CASE LookupBreaks(w)
  BY <1>3, RaiseSound DEF LookupBreaks, Errors
<1>4. CASE /\ proc[w].phase \in Lookups
           /\ Missing(w, Raised(proc[w], "lookup"))
  BY <1>4, MissingSound DEF Lookups
<1> QED BY <1>2, <1>3, <1>4 DEF LookupFails, AfterFailedSearch, Lookups

LEMMA ComposeSound ==
  ASSUME IInv, NEW w \in Workers, NEW p \in Memory, Exact(p),
         p.phase \in {"preparing", "compacting"}, proc[w].phase # "idle",
         Compose(w, p)
  PROVE  IInv'
<1> DEFINE shown == Selected(p.through, runs[p.run].input - 1)
           q == [p EXCEPT !.phase = "generating", !.shown = shown, !.requests = 1]
<1>1. CASE Raise(w, "refused")
  BY <1>1, RaiseSound DEF Errors
<1>2. CASE MayAskAgain(0) /\ Step(w, q)
  <2>1. /\ p.run \in DOMAIN runs /\ p.told = 1 .. p.through
        /\ runs[p.run].accepted = version => p.through < runs[p.run].input
        /\ ~p.missed /\ p.through \in Nat
    BY DEF Exact, WithSources, Memory
  <2>2. runs[p.run].input \in Nat
    <3>1. runs \in Seq(Turn)
      BY Types DEF IInv
    <3>2. runs[p.run] \in Turn
      BY <2>1, <3>1
    <3> QED BY <3>2 DEF Turn
  <2>3. shown = p.through + 1 .. runs[p.run].input - 1 /\ shown \in SUBSET Nat
    BY <2>1, <2>2 DEF Selected
  <2>4. 1 \in 0..MaxRequests
    BY <1>2, Bounds DEF MayAskAgain
  <2> HIDE DEF shown
  <2>5. /\ q \in Memory /\ q.phase = "generating" /\ q.run = p.run
        /\ q.through = p.through /\ q.told = p.told /\ q.shown = shown
        /\ (q.missed <=> p.missed)
    BY <2>3, <2>4 DEF Memory, Phases
  <2>6. Step(w, q)
    BY <1>2
  <2> HIDE DEF q
  <2>7. Exact(q)
    BY <2>1, <2>3, <2>5 DEF Exact
  <2> QED BY <2>5, <2>6, <2>7, StepSound
<1> QED BY <1>1, <1>2 DEF Compose

LEMMA PlanSound ==
  ASSUME IInv, NEW w \in Workers, Plan(w)
  PROVE  IInv'
<1> DEFINE p == proc[w]
           to == runs[p.run].input - 1
           q(b) == [p EXCEPT !.phase = "compacting", !.planned = TRUE,
                             !.told = @ \cup (p.through + 1 .. b),
                             !.through = b]
<1>1. p \in Memory /\ Exact(p) /\ p.phase = "preparing"
  BY Holding DEF Plan
<1>2. /\ p.run \in DOMAIN runs /\ runs[p.run] \in Turn
      /\ p.told = 1 .. p.through
      /\ ~p.missed /\ p.through \in Nat /\ runs[p.run].input \in Nat
  BY <1>1, Holding DEF Exact, WithSources, Memory, Turn
<1>3. CASE Compose(w, p)
  BY <1>1, <1>3, ComposeSound
<1>4. CASE Raise(w, "refused")
  BY <1>1, <1>4, RaiseSound DEF Errors
<1>5. ASSUME NEW b \in p.through .. to, Step(w, q(b))
      PROVE  IInv'
  <2>1. b \in Nat /\ p.through <= b /\ b < runs[p.run].input
    BY <1>2, <1>5
  <2>2. p.told \cup (p.through + 1 .. b) = 1 .. b
    BY <1>2, <2>1
  <2>3. /\ q(b) \in Memory /\ q(b).phase = "compacting" /\ q(b).run = p.run
        /\ q(b).through = b /\ q(b).told = 1 .. b
        /\ (q(b).missed <=> p.missed)
    <3>1. q(b) = [p EXCEPT !.phase = "compacting", !.planned = TRUE,
                           !.told = 1 .. b, !.through = b]
      BY <1>1, <2>2 DEF Memory
    <3>2. 1 .. b \in SUBSET Nat /\ "compacting" \in Phases
      BY DEF Phases
    <3> HIDE DEF q, p
    <3>3. /\ q(b).phase = "compacting" /\ q(b).run = p.run /\ q(b).through = b
          /\ q(b).told = 1 .. b /\ (q(b).missed <=> p.missed)
      BY <1>1, <3>1 DEF Memory
    <3>4. q(b) \in Memory
      BY <1>1, <2>1, <3>1, <3>2 DEF Memory
    <3> QED BY <3>3, <3>4
  <2>4. Step(w, q(b))
    BY <1>5
  <2> HIDE DEF q
  <2>5. Exact(q(b))
    BY <1>2, <2>1, <2>2, <2>3 DEF Exact, WithRequest
  <2> QED BY <2>3, <2>4, <2>5, StepSound
<1>6. \/ Compose(w, p) \/ Raise(w, "refused")
      \/ \E b \in p.through .. to : Step(w, q(b))
  BY DEF Plan
<1> HIDE DEF p, to, q
<1> QED BY <1>3, <1>4, <1>5, <1>6

LEMMA LoopSound ==
  ASSUME IInv, NEW w \in Workers,
         Compacted(w) \/ Answered(w) \/ ToolCalled(w) \/ ToolAnswered(w)
  PROVE  IInv'
<1>1. /\ proc[w] \in Memory /\ Exact(proc[w])
      /\ proc[w].requests \in 0..MaxRequests
  BY Holding DEF Memory
<1>2. \A phase : [proc[w] EXCEPT !.phase = phase] =
                   [proc[w] EXCEPT !.phase = phase, !.requests = proc[w].requests]
  BY <1>1 DEF Memory
<1>3. CASE Compacted(w)
  BY <1>1, <1>3, ComposeSound DEF Compacted
<1>4. CASE Answered(w)
  BY <1>1, <1>2, <1>4, MovesOn DEF Answered, WithRequest
<1>5. CASE ToolCalled(w)
  BY <1>1, <1>2, <1>5, MovesOn DEF ToolCalled, WithRequest
<1>6. CASE ToolAnswered(w) /\ MayAskAgain(proc[w].requests)
  <2> DEFINE k == proc[w].requests + 1
  <2>1. k \in 0..MaxRequests
    BY <1>1, <1>6, Bounds DEF MayAskAgain
  <2>2. Step(w, [proc[w] EXCEPT !.phase = "generating", !.requests = k])
    BY <1>6 DEF ToolAnswered
  <2> HIDE DEF k
  <2> QED BY <1>6, <2>1, <2>2, MovesOn DEF ToolAnswered, WithRequest
<1>7. CASE ToolAnswered(w) /\ ~MayAskAgain(proc[w].requests)
  BY <1>7, RaiseSound DEF ToolAnswered, Errors
<1> QED BY <1>3, <1>4, <1>5, <1>6, <1>7

LEMMA InterruptedSound ==
  ASSUME IInv, NEW w \in Workers,
         ModelFails(w) \/ TimesOut(w) \/ CancelSeen(w) \/ LossSeen(w)
  PROVE  IInv'
<1>1. CASE ModelFails(w)
  BY <1>1, RaiseSound DEF ModelFails, Errors
<1>2. CASE TimesOut(w)
  <2>1. CASE proc[w].phase \in Lookups
    BY <1>2, <2>1, MissingSound DEF TimesOut, DeadlineError, Lookups
  <2>2. CASE proc[w].phase \notin Lookups
    BY <1>2, <2>2, RaiseSound DEF TimesOut, Executing, DeadlineError, Errors
  <2> QED BY <2>1, <2>2
<1>3. CASE CancelSeen(w)
  BY <1>3, RaiseSound DEF CancelSeen, Executing, Errors
<1>4. CASE LossSeen(w)
  <2>1. Step(w, Idle)
    BY <1>4 DEF LossSeen, Leave, Step
  <2> QED BY <2>1, IdleExact, StepSound
<1> QED BY <1>1, <1>2, <1>3, <1>4

LEMMA AttemptSound ==
  ASSUME IInv, NEW w \in Workers, Attempt(w)
  PROVE  IInv'
  BY ReadSound, ReadSummarySound, LookupSound, PlanSound, LoopSound, InterruptedSound
  DEF Attempt

-----------------------------------------------------------------------------
(* Steps that change rows.                                                 *)

\* A step that leaves the transcript, its summaries and the order of the
\* turns as they are.
LEMMA RowStep ==
  ASSUME IInv, messages' = messages, summaries' = summaries, version' = version,
         runs' \in Seq(Turn), DOMAIN runs' = DOMAIN runs,
         \A t \in DOMAIN runs : /\ runs'[t].input = runs[t].input
                                /\ runs'[t].accepted = runs[t].accepted,
         lease' \in Workers \cup {Nil}, proc' \in [Workers -> Memory],
         retries' \in 0..MaxRetries, faults' \in 0..MaxFaults,
         \A w \in Workers : Exact(proc'[w]),
         AttemptLeft'
  PROVE  IInv'
<1>1. TypeOK'
  BY Types DEF IInv, TypeOK, Message, Summary, Turn, Memory
<1>2. TurnsPlaced'
  BY DEF IInv, TurnsPlaced
<1>3. SummariesComplete'
  <2>1. ASSUME NEW n \in DOMAIN summaries PROVE Complete(summaries[n])'
    <3>1. Complete(summaries[n])
      BY DEF IInv, SummariesComplete
    <3> QED BY <3>1 DEF Complete
  <2> QED BY <2>1 DEF SummariesComplete
<1>4. AttemptsExact'
  <2>1. ASSUME NEW w \in Workers PROVE Exact(proc[w])'
    <3>1. Exact(proc'[w])
      OBVIOUS
    <3> QED BY <3>1 DEF Exact, WithSources, WithRequest
  <2> QED BY <2>1 DEF AttemptsExact
<1> QED BY <1>1, <1>2, <1>3, <1>4 DEF IInv

LEMMA TurnChanged ==
  ASSUME IInv, NEW t \in DOMAIN runs, NEW r \in Turn,
         r.input = runs[t].input, r.accepted = runs[t].accepted,
         runs' = [runs EXCEPT ![t] = r]
  PROVE  /\ runs' \in Seq(Turn) /\ DOMAIN runs' = DOMAIN runs
         /\ \A u \in DOMAIN runs : /\ runs'[u] = IF u = t THEN r ELSE runs[u]
                                   /\ runs'[u].input = runs[u].input
                                   /\ runs'[u].accepted = runs[u].accepted
<1>1. runs \in Seq(Turn) /\ t \in 1..Len(runs)
  BY Types DEF IInv
<1>2. runs' \in Seq(Turn) /\ Len(runs') = Len(runs)
  BY <1>1, ExceptSeq
<1>3. \A u \in DOMAIN runs : runs'[u] = IF u = t THEN r ELSE runs[u]
  BY <1>1
<1> QED BY <1>1, <1>2, <1>3

LEMMA ProcChanged ==
  ASSUME IInv, NEW w \in Workers, NEW p \in Memory, Exact(p),
         proc' = [proc EXCEPT ![w] = p]
  PROVE  /\ proc' \in [Workers -> Memory]
         /\ \A u \in Workers : proc'[u] = IF u = w THEN p ELSE proc[u]
         /\ \A u \in Workers : Exact(proc'[u])
<1>1. proc \in [Workers -> Memory] /\ \A u \in Workers : Exact(proc[u])
  BY Types DEF IInv, AttemptsExact
<1> QED BY <1>1

LEMMA Unchanged ==
  ASSUME IInv
  PROVE  /\ runs \in Seq(Turn) /\ lease \in Workers \cup {Nil}
         /\ proc \in [Workers -> Memory] /\ retries \in 0..MaxRetries
         /\ faults \in 0..MaxFaults /\ \A w \in Workers : Exact(proc[w])
         /\ \A t \in DOMAIN runs : runs[t] \in Turn /\ t \in Nat
  BY Types DEF IInv, AttemptsExact

LEMMA RetrySound ==
  ASSUME IInv, NEW t \in DOMAIN runs, RetrySavedInput(t)
  PROVE  IInv'
<1> DEFINE r == [runs[t] EXCEPT !.status = "pending", !.left = Attempts]
<1>1. runs[t] \in Turn
  BY Unchanged
<1>2. /\ r \in Turn /\ r.input = runs[t].input /\ r.accepted = runs[t].accepted
      /\ r.left = Attempts
  <2>1. Attempts \in 0..Attempts /\ "pending" \in Active
    BY Bounds DEF Active
  <2> QED BY <1>1, <2>1 DEF Turn
<1>3. runs' = [runs EXCEPT ![t] = r]
  BY DEF RetrySavedInput
<1> HIDE DEF r
<1>4. /\ runs' \in Seq(Turn) /\ DOMAIN runs' = DOMAIN runs
      /\ \A u \in DOMAIN runs : /\ runs'[u] = IF u = t THEN r ELSE runs[u]
                                /\ runs'[u].input = runs[u].input
                                /\ runs'[u].accepted = runs[u].accepted
  BY <1>2, <1>3, TurnChanged
<1>5. AttemptLeft'
  <2>1. ASSUME NEW w \in Workers, proc[w].phase = "claimed", Owns(w)
        PROVE  runs'[proc[w].run].left > 0
    <3>1. proc[w].run \in DOMAIN runs /\ runs[proc[w].run].left > 0
      BY <2>1, Holding DEF IInv, AttemptLeft
    <3> QED BY <1>2, <1>4, <3>1, Bounds
  <2> QED BY <2>1 DEF AttemptLeft, RetrySavedInput, Owns
<1>6. retries' \in 0..MaxRetries
  BY Unchanged, Bounds DEF RetrySavedInput
<1>7. /\ messages' = messages /\ summaries' = summaries /\ version' = version
      /\ lease' = lease /\ proc' = proc /\ faults' = faults
  BY DEF RetrySavedInput
<1> QED BY <1>4, <1>5, <1>6, <1>7, Unchanged, RowStep

\* A step that only changes the status of a turn or asks for its end.
LEMMA StatusSound ==
  ASSUME IInv, NEW t \in DOMAIN runs, NEW r \in Turn,
         r.input = runs[t].input, r.accepted = runs[t].accepted,
         r.left = runs[t].left, runs' = [runs EXCEPT ![t] = r],
         messages' = messages, summaries' = summaries, version' = version,
         retries' = retries, faults' = faults,
         \/ lease' = lease /\ proc' = proc
         \/ /\ lease' = Nil
            /\ \E w \in Workers : proc' = [proc EXCEPT ![w] = Idle]
  PROVE  IInv'
<1>1. /\ runs' \in Seq(Turn) /\ DOMAIN runs' = DOMAIN runs
      /\ \A u \in DOMAIN runs : /\ runs'[u] = IF u = t THEN r ELSE runs[u]
                                /\ runs'[u].input = runs[u].input
                                /\ runs'[u].accepted = runs[u].accepted
  BY TurnChanged
<1>2. \A u \in DOMAIN runs : runs'[u].left = runs[u].left
  BY <1>1
<1>3. CASE lease' = lease /\ proc' = proc
  <2>1. AttemptLeft'
    <3>1. ASSUME NEW w \in Workers, proc[w].phase = "claimed", Owns(w)
          PROVE  runs'[proc[w].run].left > 0
      <4>1. proc[w].run \in DOMAIN runs /\ runs[proc[w].run].left > 0
        BY <3>1, Holding DEF IInv, AttemptLeft
      <4> QED BY <1>2, <4>1
    <3> QED BY <1>3, <3>1 DEF AttemptLeft, Owns
  <2> QED BY <1>1, <1>3, <2>1, Unchanged, RowStep
<1>4. ASSUME lease' = Nil, NEW w \in Workers, proc' = [proc EXCEPT ![w] = Idle]
      PROVE  IInv'
  <2>1. proc' \in [Workers -> Memory] /\ \A u \in Workers : Exact(proc'[u])
    BY <1>4, IdleExact, ProcChanged
  <2>2. AttemptLeft'
    BY <1>4, Bounds DEF AttemptLeft, Owns
  <2> QED BY <1>1, <1>4, <2>1, <2>2, Unchanged, RowStep
<1> QED BY <1>3, <1>4

\* A step that only changes what one worker has in memory.
LEMMA MemorySound ==
  ASSUME IInv, NEW w \in Workers, NEW p \in Memory, Exact(p),
         p.phase = "claimed" /\ Owns(w) => runs[p.run].left > 0,
         proc' = [proc EXCEPT ![w] = p],
         messages' = messages, summaries' = summaries, version' = version,
         runs' = runs, retries' = retries, faults' \in 0..MaxFaults,
         lease' \in {lease, Nil}
  PROVE  IInv'
<1>1. /\ proc' \in [Workers -> Memory]
      /\ \A u \in Workers : proc'[u] = IF u = w THEN p ELSE proc[u]
      /\ \A u \in Workers : Exact(proc'[u])
  BY ProcChanged
<1>2. AttemptLeft'
  <2>1. ASSUME NEW u \in Workers, proc'[u].phase = "claimed", lease' = u
        PROVE  runs[proc'[u].run].left > 0
    <3>1. Owns(u)
      BY <2>1, Bounds DEF Owns
    <3> QED BY <1>1, <2>1, <3>1 DEF IInv, AttemptLeft
  <2> QED BY <2>1 DEF AttemptLeft, Owns
<1> QED BY <1>1, <1>2, Unchanged, RowStep

LEMMA CancelRunSound ==
  ASSUME IInv, NEW t \in DOMAIN runs, CancelRun(t)
  PROVE  IInv'
<1>1. runs[t] \in Turn
  BY Unchanged
<1>2. PICK r \in {[runs[t] EXCEPT !.status = "cancelled"],
                  [runs[t] EXCEPT !.cancel = TRUE]} :
        runs' = [runs EXCEPT ![t] = r]
  BY DEF CancelRun
<1>3. /\ r \in Turn /\ r.input = runs[t].input /\ r.accepted = runs[t].accepted
      /\ r.left = runs[t].left
  BY <1>1, <1>2 DEF Turn
<1>4. /\ messages' = messages /\ summaries' = summaries /\ version' = version
      /\ lease' = lease /\ proc' = proc /\ retries' = retries /\ faults' = faults
  BY DEF CancelRun
<1> QED BY <1>2, <1>3, <1>4, StatusSound

LEMMA ClaimSound ==
  ASSUME IInv, NEW w \in Workers, Claim(w)
  PROVE  IInv'
<1> DEFINE ended == [runs[Last] EXCEPT !.status =
                       IF runs[Last].cancel THEN "cancelled" ELSE "failed"]
           claimed == [runs[Last] EXCEPT !.status = "running"]
           p == [Idle EXCEPT !.phase = "claimed", !.run = Last]
<1>1. /\ Last \in DOMAIN runs /\ Last \in Nat /\ runs[Last] \in Turn /\ lease = Nil
      /\ messages' = messages /\ summaries' = summaries /\ version' = version
      /\ retries' = retries /\ faults' = faults
  BY Unchanged DEF Claim, Last
<1>2. CASE /\ runs' = [runs EXCEPT ![Last] = ended]
           /\ UNCHANGED <<lease, proc>>
  <2>1. /\ ended \in Turn /\ ended.input = runs[Last].input
        /\ ended.accepted = runs[Last].accepted /\ ended.left = runs[Last].left
    BY <1>1 DEF Turn
  <2> HIDE DEF ended
  <2> QED BY <1>1, <1>2, <2>1, StatusSound
<1>3. CASE /\ runs[Last].left # 0
           /\ runs' = [runs EXCEPT ![Last] = claimed]
           /\ lease' = w /\ proc' = [proc EXCEPT ![w] = p]
  <2>1. /\ claimed \in Turn /\ claimed.input = runs[Last].input
        /\ claimed.accepted = runs[Last].accepted
        /\ claimed.left = runs[Last].left
    BY <1>1 DEF Turn, Active
  <2>2. claimed.left > 0
    BY <1>1, <1>3, <2>1, Bounds DEF Turn
  <2>3. p \in Memory /\ p.phase = "claimed" /\ p.run = Last
    BY <1>1, FreshExact
  <2>4. Exact(p)
    BY <1>1, FreshExact
  <2> HIDE DEF claimed, p
  <2>5. /\ runs' \in Seq(Turn) /\ DOMAIN runs' = DOMAIN runs
        /\ \A u \in DOMAIN runs : /\ runs'[u] = IF u = Last THEN claimed ELSE runs[u]
                                  /\ runs'[u].input = runs[u].input
                                  /\ runs'[u].accepted = runs[u].accepted
    BY <1>1, <1>3, <2>1, TurnChanged
  <2>6. /\ proc' \in [Workers -> Memory]
        /\ \A u \in Workers : proc'[u] = IF u = w THEN p ELSE proc[u]
        /\ \A u \in Workers : Exact(proc'[u])
    BY <1>3, <2>3, <2>4, ProcChanged
  <2>7. AttemptLeft'
    <3>1. ASSUME NEW u \in Workers, lease' = u
          PROVE  runs'[proc'[u].run].left > 0
      <4>1. proc'[u].run = Last
        BY <1>3, <2>3, <2>6, <3>1
      <4> QED BY <1>1, <2>2, <2>5, <4>1
    <3> QED BY <3>1 DEF AttemptLeft, Owns
  <2>8. lease' \in Workers \cup {Nil}
    BY <1>3
  <2> QED BY <1>1, <2>5, <2>6, <2>7, <2>8, Unchanged, RowStep
<1>4. \/ /\ runs' = [runs EXCEPT ![Last] = ended]
         /\ UNCHANGED <<lease, proc>>
      \/ /\ runs[Last].left # 0
         /\ runs' = [runs EXCEPT ![Last] = claimed]
         /\ lease' = w /\ proc' = [proc EXCEPT ![w] = p]
  BY DEF Claim
<1> HIDE DEF ended, claimed, p
<1> QED BY <1>2, <1>3, <1>4

LEMMA StartAttemptSound ==
  ASSUME IInv, NEW w \in Workers, StartAttempt(w)
  PROVE  IInv'
<1> DEFINE t == proc[w].run
           r == [runs[t] EXCEPT !.left = @ - 1]
           p == [Idle EXCEPT !.phase = "starting", !.run = t]
<1>1. /\ proc[w].phase = "claimed" /\ t \in DOMAIN runs /\ t \in Nat
      /\ runs[t] \in Turn
      /\ messages' = messages /\ summaries' = summaries /\ version' = version
      /\ retries' = retries /\ faults' = faults /\ lease' = lease
  BY Holding DEF StartAttempt
<1>2. CASE proc' = [proc EXCEPT ![w] = Raised(@, "cancelled")] /\ UNCHANGED runs
  <2> DEFINE q == Raised(proc[w], "cancelled")
  <2>1. q \in Memory /\ Exact(q) /\ q.phase = "raised"
    BY <1>1, RaisedExact DEF Errors
  <2>2. proc' = [proc EXCEPT ![w] = q]
    BY <1>2
  <2> HIDE DEF q
  <2> QED BY <1>1, <1>2, <2>1, <2>2, Unchanged, MemorySound
<1>3. CASE Leave(w) /\ UNCHANGED runs
  BY <1>1, <1>3, IdleExact, Unchanged, MemorySound DEF Leave
<1>4. CASE /\ Owns(w) /\ runs' = [runs EXCEPT ![t] = r]
           /\ proc' = [proc EXCEPT ![w] = p]
  <2>1. runs[t].left > 0
    BY <1>1, <1>4 DEF IInv, AttemptLeft
  <2>2. runs[t].left - 1 \in 0..Attempts
    BY <1>1, <2>1, Bounds DEF Turn
  <2>3. /\ r \in Turn /\ r.input = runs[t].input
        /\ r.accepted = runs[t].accepted
    BY <1>1, <2>2 DEF Turn
  <2>4. p \in Memory /\ p.phase = "starting" /\ p.run = t
    BY <1>1, FreshExact
  <2>5. Exact(p)
    BY <1>1, FreshExact
  <2> HIDE DEF r, p
  <2>6. /\ runs' \in Seq(Turn) /\ DOMAIN runs' = DOMAIN runs
        /\ \A u \in DOMAIN runs : /\ runs'[u].input = runs[u].input
                                  /\ runs'[u].accepted = runs[u].accepted
    BY <1>1, <1>4, <2>3, TurnChanged
  <2>7. /\ proc' \in [Workers -> Memory]
        /\ \A u \in Workers : proc'[u] = IF u = w THEN p ELSE proc[u]
        /\ \A u \in Workers : Exact(proc'[u])
    BY <1>4, <2>4, <2>5, ProcChanged
  <2>8. AttemptLeft'
    BY <1>1, <1>4, <2>4, <2>7 DEF AttemptLeft, Owns
  <2> QED BY <1>1, <2>6, <2>7, <2>8, Unchanged, RowStep
<1>5. \/ proc' = [proc EXCEPT ![w] = Raised(@, "cancelled")] /\ UNCHANGED runs
      \/ Leave(w) /\ UNCHANGED runs
      \/ /\ Owns(w) /\ runs' = [runs EXCEPT ![t] = r]
         /\ proc' = [proc EXCEPT ![w] = p]
  BY DEF StartAttempt
<1> HIDE DEF t, r, p
<1> QED BY <1>2, <1>3, <1>4, <1>5

LEMMA CommitRefusedSound ==
  ASSUME IInv, NEW w \in Workers, CommitRefused(w)
  PROVE  IInv'
<1>1. /\ messages' = messages /\ summaries' = summaries /\ version' = version
      /\ runs' = runs /\ retries' = retries /\ faults' = faults /\ lease' = lease
      /\ proc[w].phase = "candidate"
  BY DEF CommitRefused
<1>2. CASE Leave(w)
  BY <1>1, <1>2, IdleExact, Unchanged, MemorySound DEF Leave
<1>3. ASSUME NEW error \in Errors, proc' = [proc EXCEPT ![w] = Raised(@, error)]
      PROVE  IInv'
  <2> DEFINE q == Raised(proc[w], error)
  <2>1. q \in Memory /\ Exact(q) /\ q.phase = "raised"
    BY <1>1, Holding, RaisedExact
  <2>2. proc' = [proc EXCEPT ![w] = q]
    BY <1>3
  <2> HIDE DEF q
  <2> QED BY <1>1, <2>1, <2>2, Unchanged, MemorySound
<1>4. "cancelled" \in Errors /\ "refused" \in Errors
  BY DEF Errors
<1> QED BY <1>2, <1>3, <1>4 DEF CommitRefused

LEMMA ResolveSound ==
  ASSUME IInv, NEW w \in Workers, Resolve(w)
  PROVE  IInv'
<1> DEFINE p == proc[w]
           q == [Idle EXCEPT !.phase = "claimed", !.run = p.run]
           r(status) == [runs[p.run] EXCEPT !.status = status]
<1>1. /\ p.phase = "raised" /\ p.run \in DOMAIN runs /\ p.run \in Nat
      /\ runs[p.run] \in Turn
      /\ messages' = messages /\ summaries' = summaries /\ version' = version
      /\ retries' = retries /\ faults' = faults
  BY Holding DEF Resolve
<1>2. CASE Leave(w) /\ UNCHANGED <<runs, lease>>
  BY <1>1, <1>2, IdleExact, Unchanged, MemorySound DEF Leave
<1>3. ASSUME NEW status \in {"cancelled", "paused", "failed"}, Settle(w, status)
      PROVE  IInv'
  <2>1. /\ r(status) \in Turn /\ r(status).input = runs[p.run].input
        /\ r(status).accepted = runs[p.run].accepted
        /\ r(status).left = runs[p.run].left
    BY <1>1 DEF Turn, Active
  <2>2. /\ runs' = [runs EXCEPT ![p.run] = r(status)] /\ lease' = Nil
        /\ proc' = [proc EXCEPT ![w] = Idle]
    BY <1>3 DEF Settle, Leave
  <2> HIDE DEF r
  <2> QED BY <1>1, <2>1, <2>2, StatusSound
<1>4. CASE /\ runs[p.run].left > 0 /\ proc' = [proc EXCEPT ![w] = q]
           /\ UNCHANGED <<runs, lease>>
  <2>1. q \in Memory /\ q.phase = "claimed" /\ q.run = p.run
    BY <1>1, FreshExact
  <2>2. Exact(q)
    BY <1>1, FreshExact
  <2> HIDE DEF q
  <2> QED BY <1>1, <1>4, <2>1, <2>2, Unchanged, MemorySound
<1>5. \/ Leave(w) /\ UNCHANGED <<runs, lease>>
      \/ \E status \in {"cancelled", "paused", "failed"} : Settle(w, status)
      \/ /\ runs[p.run].left > 0 /\ proc' = [proc EXCEPT ![w] = q]
         /\ UNCHANGED <<runs, lease>>
  BY DEF Resolve
<1> HIDE DEF p, q, r
<1> QED BY <1>2, <1>3, <1>4, <1>5

LEMMA FaultSound ==
  ASSUME IInv, LoseLease \/ \E w \in Workers : Crash(w)
  PROVE  IInv'
<1>1. faults' \in 0..MaxFaults
  BY Unchanged, Bounds DEF LoseLease, Crash
<1>2. CASE LoseLease
  <2>1. AttemptLeft'
    BY <1>2, Bounds DEF LoseLease, AttemptLeft, Owns
  <2>2. /\ messages' = messages /\ summaries' = summaries /\ version' = version
        /\ runs' = runs /\ retries' = retries /\ proc' = proc /\ lease' = Nil
    BY <1>2 DEF LoseLease
  <2> QED BY <1>1, <2>1, <2>2, Unchanged, RowStep
<1>3. ASSUME NEW w \in Workers, Crash(w) PROVE IInv'
  <2>1. /\ messages' = messages /\ summaries' = summaries /\ version' = version
        /\ runs' = runs /\ retries' = retries /\ lease' \in {lease, Nil}
        /\ proc' = [proc EXCEPT ![w] = Idle]
    BY <1>3 DEF Crash, Leave
  <2> QED BY <1>1, <2>1, IdleExact, MemorySound
<1> QED BY <1>2, <1>3

-----------------------------------------------------------------------------
(* Steps that extend the transcript.                                       *)

LEMMA AcceptTurnSound ==
  ASSUME IInv, NEW size \in InputSizes, AcceptTurn(size)
  PROVE  IInv'
<1> DEFINE m == [role |-> "user", size |-> size]
           r == [status |-> "pending", input |-> Len(messages) + 1,
                 accepted |-> version, left |-> Attempts, cancel |-> FALSE]
<1>1. /\ messages \in Seq(Message) /\ runs \in Seq(Turn) /\ version \in Nat
      /\ summaries \in Seq(Summary)
  BY Types DEF IInv
<1>2. Len(messages) \in Nat
  BY <1>1
<1>3. m \in Message
  BY DEF Message
<1>4. /\ r \in Turn /\ r.input = Len(messages) + 1 /\ r.accepted = version
  <2>1. Attempts \in 0..Attempts /\ "pending" \in Active
    BY Bounds DEF Active
  <2> QED BY <1>1, <1>2, <2>1 DEF Turn
<1>5. /\ messages' = Append(messages, m) /\ runs' = Append(runs, r)
      /\ summaries' = summaries /\ version' = version /\ lease' = lease
      /\ proc' = proc /\ retries' = retries /\ faults' = faults
  BY DEF AcceptTurn
<1> HIDE DEF m, r
<1>6. messages' \in Seq(Message) /\ Len(messages') = Len(messages) + 1
  BY <1>1, <1>3, <1>5, AppendProperties
<1>7. /\ runs' \in Seq(Turn) /\ Len(runs) \in Nat
      /\ DOMAIN runs = 1..Len(runs) /\ DOMAIN runs' = 1..Len(runs) + 1
      /\ runs'[Len(runs) + 1] = r
      /\ \A t \in DOMAIN runs : t \in DOMAIN runs' /\ runs'[t] = runs[t]
  BY <1>1, <1>4, <1>5, AppendProperties
<1>8. \A t \in DOMAIN runs' : t \in DOMAIN runs \/ runs'[t] = r
  BY <1>7
<1>9. TypeOK'
  BY <1>1, <1>5, <1>6, <1>7, Types DEF IInv, TypeOK, Message, Summary, Turn, Memory
<1>10. TurnsPlaced'
  <2>1. ASSUME NEW t \in DOMAIN runs'
        PROVE  runs'[t].input \in 1..Len(messages') /\ runs'[t].accepted <= version
    <3>1. CASE t \in DOMAIN runs
      <4>1. runs[t].input \in 1..Len(messages) /\ runs[t].accepted <= version
        BY <3>1 DEF IInv, TurnsPlaced
      <4> QED BY <1>2, <1>6, <1>7, <3>1, <4>1
    <3>2. CASE runs'[t] = r
      BY <1>1, <1>2, <1>4, <1>6, <3>2
    <3> QED BY <1>8, <3>1, <3>2
  <2> QED BY <1>5, <2>1 DEF TurnsPlaced
<1>11. SummariesComplete'
  <2>1. ASSUME NEW n \in DOMAIN summaries PROVE Complete(summaries[n])'
    <3> DEFINE s == summaries[n]
    <3>1. /\ s.told = 1 .. s.through
          /\ s.run \in DOMAIN runs /\ s.through < runs[s.run].input
          /\ \A t \in DOMAIN runs : runs[t].accepted = version
                                      => s.through < runs[t].input
      BY DEF IInv, SummariesComplete, Complete
    <3>2. s.through \in Nat
      <4>1. \A e \in Summary : e.through \in Nat
        BY DEF Summary
      <4>2. summaries[n] \in Summary
        BY <1>1
      <4> QED BY <4>1, <4>2
    <3>3. runs[s.run].input \in 1..Len(messages)
      BY <3>1 DEF IInv, TurnsPlaced
    <3> HIDE DEF s
    <3>4. s.through < Len(messages) + 1
      BY <1>2, <3>1, <3>2, <3>3
    <3>5. ASSUME NEW t \in DOMAIN runs', runs'[t].accepted = version
          PROVE  s.through < runs'[t].input
      BY <1>4, <1>7, <1>8, <3>1, <3>4, <3>5
    <3>6. s.run \in DOMAIN runs' /\ s.through < runs'[s.run].input
      BY <1>7, <3>1
    <3> QED BY <1>5, <3>1, <3>5, <3>6 DEF Complete, s
  <2> QED BY <1>5, <2>1 DEF SummariesComplete
<1>12. AttemptsExact'
  <2>1. ASSUME NEW w \in Workers PROVE Exact(proc[w])'
    <3>1. Exact(proc[w])
      BY DEF IInv, AttemptsExact
    <3> QED BY <1>5, <1>7, <3>1 DEF Exact, WithSources, WithRequest
  <2> QED BY <1>5, <2>1 DEF AttemptsExact
<1>13. AttemptLeft'
  <2>1. ASSUME NEW w \in Workers, proc[w].phase = "claimed", Owns(w)
        PROVE  runs'[proc[w].run].left > 0
    <3>1. proc[w].run \in DOMAIN runs /\ runs[proc[w].run].left > 0
      BY <2>1, Holding DEF IInv, AttemptLeft
    <3> QED BY <1>7, <3>1
  <2> QED BY <1>5, <2>1 DEF AttemptLeft, Owns
<1> QED BY <1>9, <1>10, <1>11, <1>12, <1>13 DEF IInv

LEMMA CommitSuccessSound ==
  ASSUME IInv, NEW w \in Workers, NEW size \in ReplySizes, CommitSuccess(w, size)
  PROVE  IInv'
<1> DEFINE p == proc[w]
           m == [role |-> "assistant", size |-> size]
           new == [through |-> p.through, told |-> p.told, run |-> p.run]
           r == [runs[p.run] EXCEPT !.status = "succeeded"]
<1>1. /\ messages \in Seq(Message) /\ runs \in Seq(Turn) /\ version \in Nat
      /\ summaries \in Seq(Summary) /\ Len(messages) \in Nat
  BY Types DEF IInv
<1>2. /\ p \in Memory /\ p.run \in DOMAIN runs /\ runs[p.run] \in Turn
      /\ p.told = 1 .. p.through /\ p.through < runs[p.run].input
      /\ runs[p.run].accepted = version
  BY Holding DEF CommitSuccess, Committable, Exact, WithSources
<1>3. m \in Message
  BY DEF Message
<1>4. /\ r \in Turn /\ r.input = runs[p.run].input
      /\ r.accepted = runs[p.run].accepted
  BY <1>2 DEF Turn
<1>5. /\ new \in Summary /\ new.through = p.through /\ new.told = p.told
      /\ new.run = p.run
  BY <1>2 DEF Summary, Memory
<1>6. /\ messages' = Append(messages, m)
      /\ summaries' = summaries \/ summaries' = Append(summaries, new)
      /\ version' = version + 1 /\ runs' = [runs EXCEPT ![p.run] = r]
      /\ lease' = Nil /\ proc' = [proc EXCEPT ![w] = Idle]
      /\ retries' = retries /\ faults' = faults
  BY DEF CommitSuccess, Settle, Leave
<1> HIDE DEF m, new, r
<1>7. messages' \in Seq(Message) /\ Len(messages') = Len(messages) + 1
  BY <1>1, <1>3, <1>6, AppendProperties
<1>8. /\ runs' \in Seq(Turn) /\ DOMAIN runs' = DOMAIN runs
      /\ \A t \in DOMAIN runs : /\ runs'[t].input = runs[t].input
                                /\ runs'[t].accepted = runs[t].accepted
  BY <1>2, <1>4, <1>6, TurnChanged
<1>9. /\ proc' \in [Workers -> Memory]
      /\ \A u \in Workers : Exact(proc'[u])
  BY <1>6, IdleExact, ProcChanged
<1>10. /\ summaries' \in Seq(Summary)
       /\ \A n \in DOMAIN summaries' :
            \/ n \in DOMAIN summaries /\ summaries'[n] = summaries[n]
            \/ summaries'[n] = new
  <2>1. CASE summaries' = summaries
    BY <1>1, <2>1
  <2>2. CASE summaries' = Append(summaries, new)
    <3>1. /\ summaries' \in Seq(Summary) /\ Len(summaries') = Len(summaries) + 1
          /\ \A n \in 1..Len(summaries) : summaries'[n] = summaries[n]
          /\ summaries'[Len(summaries) + 1] = new
      BY <1>1, <1>5, <2>2, AppendProperties
    <3>2. Len(summaries) \in Nat
      BY <1>1
    <3>3. \A n \in DOMAIN summaries' : n \in 1..Len(summaries) \/ n = Len(summaries) + 1
      BY <3>1, <3>2
    <3> QED BY <1>1, <3>1, <3>3
  <2> QED BY <1>6, <2>1, <2>2
<1>11. TypeOK'
  <2>1. retries' \in 0..MaxRetries /\ faults' \in 0..MaxFaults
    BY <1>6, Unchanged
  <2>2. version' \in Nat /\ lease' \in Workers \cup {Nil}
    BY <1>1, <1>6
  <2>3. summaries' \in Seq(Summary)
    BY <1>10
  <2> QED BY <1>7, <1>8, <1>9, <2>1, <2>2, <2>3
          DEF TypeOK, Message, Summary, Turn, Memory
<1>12. ASSUME NEW t \in DOMAIN runs
       PROVE  /\ runs[t].input \in 1..Len(messages)
              /\ runs[t].accepted <= version /\ runs[t].accepted \in Nat
  <2>1. runs[t] \in Turn
    BY Unchanged
  <2> QED BY <2>1 DEF IInv, TurnsPlaced, Turn
<1>13. TurnsPlaced'
  <2>1. ASSUME NEW t \in DOMAIN runs'
        PROVE  runs'[t].input \in 1..Len(messages') /\ runs'[t].accepted <= version'
    BY <1>1, <1>6, <1>7, <1>8, <1>12
  <2> QED BY <2>1 DEF TurnsPlaced
<1>14. SummariesComplete'
  <2>1. \A t \in DOMAIN runs' : runs'[t].accepted # version'
    BY <1>1, <1>6, <1>8, <1>12
  <2>2. ASSUME NEW n \in DOMAIN summaries'
        PROVE  /\ summaries'[n].told = 1 .. summaries'[n].through
               /\ summaries'[n].run \in DOMAIN runs
               /\ summaries'[n].through < runs[summaries'[n].run].input
    <3>1. CASE n \in DOMAIN summaries /\ summaries'[n] = summaries[n]
      BY <3>1 DEF IInv, SummariesComplete, Complete
    <3>2. CASE summaries'[n] = new
      BY <1>2, <1>5, <3>2
    <3> QED BY <1>10, <3>1, <3>2
  <2> QED BY <1>8, <2>1, <2>2 DEF SummariesComplete, Complete
<1>15. AttemptsExact'
  <2>1. ASSUME NEW u \in Workers PROVE Exact(proc[u])'
    <3>1. Exact(proc'[u])
      BY <1>9
    <3>2. proc'[u].run \in DOMAIN runs => runs'[proc'[u].run].accepted # version'
      BY <1>1, <1>6, <1>8, <1>12
    <3> QED BY <1>8, <3>1, <3>2 DEF Exact, WithSources, WithRequest
  <2> QED BY <2>1 DEF AttemptsExact
<1>16. AttemptLeft'
  BY <1>6, Bounds DEF AttemptLeft, Owns
<1> QED BY <1>11, <1>13, <1>14, <1>15, <1>16 DEF IInv

-----------------------------------------------------------------------------
\* Every step of a person, a worker and a fault keeps the invariant.
THEOREM IInvInductive == IInv /\ [Next]_vars => IInv'
<1> SUFFICES ASSUME IInv, [Next]_vars PROVE IInv'
  OBVIOUS
<1>1. CASE UNCHANGED vars
  <2>1. /\ messages' = messages /\ summaries' = summaries /\ version' = version
        /\ runs' = runs /\ lease' = lease /\ proc' = proc
        /\ retries' = retries /\ faults' = faults
    BY <1>1 DEF vars
  <2>2. AttemptLeft'
    BY <2>1 DEF IInv, AttemptLeft, Owns
  <2> QED BY <2>1, <2>2, Unchanged, RowStep
<1>2. CASE Person
  <2>1. ASSUME NEW size \in InputSizes, AcceptTurn(size) PROVE IInv'
    BY <2>1, AcceptTurnSound
  <2>2. ASSUME NEW t \in DOMAIN runs, RetrySavedInput(t) PROVE IInv'
    BY <2>2, RetrySound
  <2>3. ASSUME NEW t \in DOMAIN runs, CancelRun(t) PROVE IInv'
    BY <2>3, CancelRunSound
  <2> QED BY <1>2, <2>1, <2>2, <2>3 DEF Person
<1>3. ASSUME NEW w \in Workers, Attempt(w) PROVE IInv'
  BY <1>3, AttemptSound
<1>4. ASSUME NEW w \in Workers, Worker(w) PROVE IInv'
  <2>1. ASSUME NEW size \in ReplySizes, CommitSuccess(w, size) PROVE IInv'
    BY <2>1, CommitSuccessSound
  <2>2. CASE Claim(w) \/ StartAttempt(w)
    BY <2>2, ClaimSound, StartAttemptSound
  <2>3. CASE CommitRefused(w) \/ Resolve(w)
    BY <2>3, CommitRefusedSound, ResolveSound
  <2> QED BY <1>4, <2>1, <2>2, <2>3 DEF Worker
<1>5. CASE LoseLease \/ \E w \in Workers : Crash(w)
  BY <1>5, FaultSound
<1> QED BY <1>1, <1>2, <1>3, <1>4, <1>5 DEF Next

\* In every state the attempts, the summaries and the transcript agree.
THEOREM Invariance == Spec => []IInv
  BY InitIInv, IInvInductive, PTL DEF Spec

\* Rows and workers keep their shape; no attempt is started beyond its budget
\* and no model request made beyond the step budget.
THEOREM TypeCorrect == Spec => []TypeOK
<1>1. IInv => TypeOK
  BY DEF IInv
<1> QED BY <1>1, Invariance, PTL

\* Whatever the token budgets, whoever composes and whatever was committed
\* between its reads, no message before the input is left out of the request or
\* told twice, and a request whose reply can be committed has nothing else.
THEOREM Covered == Spec => []DialogueCovered
<1>1. IInv => DialogueCovered
  <2> SUFFICES ASSUME IInv PROVE DialogueCovered
    OBVIOUS
  <2>1. ASSUME NEW w \in Workers, proc[w].phase \in WithRequest
        PROVE  LET dialogue == 1 .. runs[proc[w].run].input - 1 IN
               /\ dialogue \subseteq proc[w].told \cup proc[w].shown
               /\ proc[w].told \cap proc[w].shown = {}
               /\ Committable(w) => proc[w].told \cup proc[w].shown \subseteq dialogue
    <3>1. /\ proc[w].told = 1 .. proc[w].through
          /\ Committable(w) => proc[w].through < runs[proc[w].run].input
          /\ proc[w].shown = proc[w].through + 1 .. runs[proc[w].run].input - 1
      BY <2>1, Holding DEF Exact, Committable, WithSources, WithRequest
    <3>2. proc[w].through \in Nat /\ runs[proc[w].run].input \in Nat
      BY <2>1, Holding DEF Memory, Turn, WithRequest
    <3> QED BY <3>1, <3>2
  <2>2. ASSUME NEW n \in DOMAIN summaries
        PROVE  /\ summaries[n].told = 1 .. summaries[n].through
               /\ summaries[n].through < runs[summaries[n].run].input
    BY DEF IInv, SummariesComplete, Complete
  <2> QED BY <2>1, <2>2 DEF DialogueCovered, WithRequest
<1> QED BY <1>1, Invariance, PTL

-----------------------------------------------------------------------------
(* The failed lookup.                                                      *)

\* What FailedLookupHoldsInput says of a step for one worker.
Holds(w) ==
  \/ proc'[w] = proc[w]
  \/ /\ proc'[w] = Idle
     /\ messages' = messages
     /\ LET t == proc[w].run IN
        runs'[t].status \in {runs[t].status, "paused", "cancelled"}

LEMMA OthersKept ==
  ASSUME IInv, NEW w \in Workers, NEW u \in Workers, u # w,
         Attempt(u) \/ Worker(u) \/ Crash(u)
  PROVE  proc'[w] = proc[w]
<1>1. proc \in [Workers -> Memory]
  BY Unchanged
<1>2. ASSUME NEW p, proc' = [proc EXCEPT ![u] = p] PROVE proc'[w] = proc[w]
  BY <1>1, <1>2
<1>3. ASSUME NEW p, Step(u, p) PROVE proc'[w] = proc[w]
  BY <1>2, <1>3 DEF Step
<1>4. ASSUME NEW error, Raise(u, error) PROVE proc'[w] = proc[w]
  BY <1>3, <1>4 DEF Raise
<1>5. ASSUME Leave(u) PROVE proc'[w] = proc[w]
  BY <1>2, <1>5 DEF Leave
<1>6. ASSUME NEW p, Compose(u, p) PROVE proc'[w] = proc[w]
  BY <1>3, <1>4, <1>6 DEF Compose
<1>7. CASE \/ ReadConversation(u) \/ ReadMessages(u) \/ ReadSummary(u) \/ ReadFails(u)
           \/ Recalled(u) \/ LookupFails(u) \/ LookupBreaks(u)
           \/ Compacted(u) \/ Answered(u) \/ ToolCalled(u) \/ ToolAnswered(u)
  BY <1>3, <1>4, <1>6, <1>7
  DEF ReadConversation, ReadMessages, ReadSummary, ReadFails, Recalled,
      LookupFails, Missing, LookupBreaks, Compacted, Answered, ToolCalled,
      ToolAnswered
<1>8. CASE Plan(u)
  BY <1>3, <1>4, <1>6, <1>8 DEF Plan
<1>9. CASE ModelFails(u) \/ TimesOut(u) \/ CancelSeen(u) \/ LossSeen(u)
  BY <1>3, <1>4, <1>5, <1>9 DEF ModelFails, TimesOut, Missing, CancelSeen, LossSeen
<1>10. CASE Claim(u)
  BY <1>2, <1>10 DEF Claim
<1>11. CASE StartAttempt(u)
  <2>1. \/ proc' = [proc EXCEPT ![u] = Raised(proc[u], "cancelled")]
        \/ Leave(u)
        \/ proc' = [proc EXCEPT ![u] =
                      [Idle EXCEPT !.phase = "starting", !.run = proc[u].run]]
    BY <1>11 DEF StartAttempt
  <2> QED BY <1>2, <1>5, <2>1
<1>12. ASSUME NEW size \in ReplySizes, CommitSuccess(u, size)
       PROVE  proc'[w] = proc[w]
  BY <1>5, <1>12 DEF CommitSuccess, Settle
<1>13. CASE CommitRefused(u)
  <2>1. \/ Leave(u)
        \/ \E error \in Errors : proc' = [proc EXCEPT ![u] = Raised(proc[u], error)]
    BY <1>13 DEF CommitRefused, Errors
  <2> QED BY <1>2, <1>5, <2>1
<1>14. CASE Resolve(u)
  <2>1. \/ Leave(u)
        \/ proc' = [proc EXCEPT ![u] =
                      [Idle EXCEPT !.phase = "claimed", !.run = proc[u].run]]
    BY <1>14 DEF Resolve, Settle
  <2> QED BY <1>2, <1>5, <2>1
<1>15. CASE Crash(u)
  BY <1>5, <1>15 DEF Crash
<1> QED BY <1>7, <1>8, <1>9, <1>10, <1>11, <1>12, <1>13, <1>14, <1>15
        DEF Attempt, Worker

LEMMA MissedHolds ==
  ASSUME IInv, NEW w \in Workers, proc[w].missed,
         Attempt(w) \/ Worker(w) \/ Crash(w)
  PROVE  Holds(w)
<1>1. /\ proc[w].phase = "raised" /\ proc[w].error = "lookup"
      /\ proc[w].run \in DOMAIN runs /\ runs[proc[w].run] \in Turn
      /\ runs \in Seq(Turn) /\ proc \in [Workers -> Memory]
  BY Holding, Unchanged DEF Exact
<1>2. ~Attempt(w)
  <2>1. ~(ReadConversation(w) \/ ReadMessages(w) \/ ReadSummary(w) \/ ReadFails(w)
          \/ Recalled(w) \/ LookupFails(w) \/ LookupBreaks(w)
          \/ Plan(w) \/ Compacted(w) \/ Answered(w) \/ ToolCalled(w)
          \/ ToolAnswered(w))
    BY <1>1 DEF ReadConversation, ReadMessages, ReadSummary, ReadFails, Reading,
                Recalled, LookupFails, LookupBreaks, Plan,
                Compacted, Answered, ToolCalled, ToolAnswered
  <2>2. ~(ModelFails(w) \/ TimesOut(w) \/ CancelSeen(w) \/ LossSeen(w))
    BY <1>1 DEF ModelFails, TimesOut, CancelSeen, LossSeen, Executing
  <2> QED BY <2>1, <2>2 DEF Attempt
<1>3. ASSUME Leave(w) PROVE proc'[w] = Idle
  BY <1>1, <1>3 DEF Leave
<1>4. CASE Crash(w)
  BY <1>3, <1>4 DEF Crash, Holds
<1>5. CASE Resolve(w)
  <2>1. messages' = messages
    BY <1>5 DEF Resolve
  <2>2. CASE Leave(w) /\ UNCHANGED <<runs, lease>>
    BY <1>3, <2>1, <2>2 DEF Holds
  <2>3. ASSUME NEW status \in {"cancelled", "paused"}, Settle(w, status)
        PROVE  Holds(w)
    <3>1. runs'[proc[w].run].status = status
      BY <1>1, <2>3 DEF Settle, Turn
    <3> QED BY <1>3, <2>1, <2>3, <3>1 DEF Settle, Holds
  <2> QED BY <1>1, <1>5, <2>2, <2>3 DEF Resolve
<1>6. ~(Claim(w) \/ StartAttempt(w) \/ CommitRefused(w)
        \/ \E size \in ReplySizes : CommitSuccess(w, size))
  BY <1>1 DEF Claim, StartAttempt, CommitRefused, CommitSuccess
<1> QED BY <1>2, <1>4, <1>5, <1>6 DEF Worker

\* From a failed lookup no step leads to a reply, another attempt or a failed
\* turn: the worker drops it, and the turn is as it was, paused or cancelled.
THEOREM LookupHoldsInput == Spec => FailedLookupHoldsInput
<1>1. IInv /\ [Next]_vars => [\A w \in Workers : proc[w].missed => Holds(w)]_vars
  <2> SUFFICES ASSUME IInv, [Next]_vars, NEW w \in Workers, proc[w].missed
               PROVE  Holds(w)
    OBVIOUS
  <2>1. CASE UNCHANGED vars \/ LoseLease
    BY <2>1 DEF vars, LoseLease, Holds
  <2>2. CASE Person
    BY <2>2 DEF Person, AcceptTurn, RetrySavedInput, CancelRun, Holds
  <2>3. ASSUME NEW u \in Workers, Attempt(u) \/ Worker(u) \/ Crash(u)
        PROVE  Holds(w)
    <3>1. CASE u = w
      BY <2>3, <3>1, MissedHolds
    <3>2. CASE u # w
      BY <2>3, <3>2, OthersKept DEF Holds
    <3> QED BY <3>1, <3>2
  <2> QED BY <2>1, <2>2, <2>3 DEF Next
<1> QED BY <1>1, Invariance, PTL DEF Spec, FailedLookupHoldsInput, Holds

=============================================================================

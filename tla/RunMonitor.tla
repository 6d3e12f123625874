----------------------------- MODULE RunMonitor -----------------------------
(***************************************************************************)
(* The Agent Studio page: the conversation a person selected, the run it   *)
(* shows, and the monitor that follows the run by event stream and poll.   *)
(*                                                                         *)
(* JavaScript runs one continuation at a time, so a step is the code       *)
(* between two awaits, and what is in flight is a task.  Continuations     *)
(* compare what they captured (a selection, a read, a monitor) by          *)
(* identity with what is current, so a guard that fails once fails for     *)
(* good: a task that would only return is dropped when its guard dies.     *)
(* An answer may tell any state of the server between the request and its  *)
(* arrival, and answers overtake each other.                               *)
(***************************************************************************)
EXTENDS Integers, Sequences, FiniteSets

CONSTANTS
  Conversations,
  MaxRuns,    \* bound on the runs of all conversations
  MaxPauses,  \* bound on the pauses of a run
  MaxPolls,   \* bound on polls in flight: the timer waits for none
  MaxTasks,   \* bound on requests in flight when the person acts
  MaxFaults,  \* bound on failed requests
  Nil

ASSUME RunMonitorAssumption ==
  /\ {MaxRuns, MaxPauses, MaxPolls, MaxTasks, MaxFaults} \subseteq Nat
  /\ Nil \notin Conversations \cup
       [conv : Conversations, n : Nat, latched : BOOLEAN, stream : BOOLEAN]

VARIABLES
  runs,     \* runs[c]: the server's runs, each the statuses its events tell
  sel,      \* selectedIdRef
  session,  \* the session shown: its conversation and latest run
  shown,    \* the run shown: its status and whose answer set it
  effect,   \* a new session was set and the monitoring effect has not run
  monitor,  \* activeMonitorRef with its latch and its stream
  tasks,    \* awaits in flight
  error,    \* an error is on display
  faults    \* failed requests so far, capped by MaxFaults

view == <<sel, session, shown, effect, monitor, tasks>>
vars == <<runs, view, error, faults>>

-----------------------------------------------------------------------------
Quiescent == {"settled", "paused"}
Commanding == {"send", "cancel", "retry"}
Commands == Commanding \cup {"accepted", "sendback", "resend", "cancelled",
                             "retried"}
Monitoring == {"poll", "finish", "readback"}
Kinds == Commands \cup {"poll", "finish", "readback", "refresh"}

Latest(c) == Len(runs[c])
Status(c, n) == runs[c][n][Len(runs[c][n])]
Ended(c, n) == \E i \in 1..Len(runs[c][n]) : runs[c][n][i] \in Quiescent
Live(c) == Latest(c) > 0 /\ Status(c, Latest(c)) = "active"

\* A request about run n, sent now.
Ask(kind, c, n) ==
  [kind |-> kind, conv |-> c, n |-> n,
   since |-> IF n = 0 \/ kind \in Commanding THEN 0 ELSE Len(runs[c][n]),
   epoch |-> TRUE, newest |-> TRUE]

\* What it may be told.
Told(k) == k.since..Len(runs[k.conv][k.n])

\* The same if run n is the latest of its conversation then; 0 is none yet.
LatestTold(k, n) ==
  CASE n = 0 -> {0}
    [] n # 0 /\ n = k.n -> Told(k)
    [] OTHER -> 1..Len(runs[k.conv][n])

Runs == UNION {{c} \X (1..Latest(c)) : c \in Conversations}

Busy == \E k \in tasks : k.kind \in Commands

Init ==
  /\ runs = [c \in Conversations |-> <<>>]
  /\ sel = Nil
  /\ session = Nil /\ shown = Nil /\ effect = FALSE
  /\ monitor = Nil
  /\ tasks = {}
  /\ error = FALSE
  /\ faults = 0

-----------------------------------------------------------------------------
(* Wrong variants: what a plausible bug would make of a definition further *)
(* down, named in its comment. Nothing in the specification uses them.     *)

\* SelectionCurrent: whatever was asked is shown.
AnySelection(k) == k.conv \in Conversations

\* Reread: reads are not numbered.
RereadInAnyOrder(ts, k) == ts \cup {k}

\* Finishing: no latch.
FinishingAgain == monitor # Nil

\* AfterFailedEnd: the latch is kept.
LatchedForGood == monitor

\* Effect: the page follows only what it sent itself.
EffectOfOwnRuns ==
  effect /\ effect' = FALSE /\ UNCHANGED <<runs, sel, session, shown, monitor,
                                          tasks, error, faults>>

\* Merged: the run on display is always the newer one.
MergedKeeping(n, at) ==
  CASE shown # Nil -> shown
    [] shown = Nil /\ n = 0 -> Nil
    [] OTHER -> [conv |-> sel, n |-> n, at |-> at, by |-> "read"]

-----------------------------------------------------------------------------
(* Guards and their captures.                                              *)

\* selectionEpochRef and selectedIdRef; a task of a stopped monitor, whose
\* isCurrent is false, is dropped.
SelectionCurrent(k) == k.epoch /\ sel = k.conv

\* The guard of refreshSelected.
MayRefresh(k) == SelectionCurrent(k) /\ k.newest

\* stopMonitoring, ++readEpochRef and ++selectionEpochRef. A command holds the
\* page busy to its end, and a refresh may have a caller that goes on.
Stopped(ts) == {k \in ts : k.kind \notin Monitoring}
Reread(ts, k) ==
  {k} \cup {[j EXCEPT !.newest = FALSE] : j \in {j \in ts : j.kind # "refresh"}}
Left(ts) == {[k EXCEPT !.epoch = FALSE] : k \in {k \in ts : k.kind \in Commands}}

Show(c, n, at, by) == [conv |-> c, n |-> n, at |-> at, by |-> by]
ShownStatus == runs[shown.conv][shown.n][shown.at]

\* isMonitoring.
Monitored(n) == monitor # Nil /\ monitor.n = n

NewMonitor(c, n) ==
  [conv |-> c, n |-> n, latched |-> FALSE, stream |-> TRUE]

-----------------------------------------------------------------------------
(* The server.                                                             *)

Tell(c, n, status) == runs' = [runs EXCEPT ![c][n] = Append(@, status)]

RunPauses(c) ==
  /\ Live(c)
  /\ Len(runs[c][Latest(c)]) < 2 * MaxPauses
  /\ Tell(c, Latest(c), "paused")
  /\ UNCHANGED <<view, error, faults>>

RunSettles(c) ==
  /\ Live(c)
  /\ Tell(c, Latest(c), "settled")
  /\ UNCHANGED <<view, error, faults>>

\* accept_turn, cancel_run and retry_saved_input, before their answer. A
\* cancelled run that is running stays so until its worker sees the request.
Serve(k) ==
  /\ k \in tasks
  /\ LET c == k.conv
         Answer(kind, n) ==
           tasks' = (tasks \ {k}) \cup
                      {[k EXCEPT !.kind = kind, !.n = n,
                                 !.since = Len(runs'[c][n])]}
     IN \/ /\ k.kind = "send" /\ Cardinality(Runs) < MaxRuns
           /\ Latest(c) > 0 => Status(c, Latest(c)) = "settled"
           /\ runs' = [runs EXCEPT ![c] = Append(@, <<"active">>)]
           /\ Answer("accepted", Latest(c) + 1)
        \/ /\ k.kind = "cancel"
           /\ \/ Status(c, k.n) # "settled" /\ Tell(c, k.n, "settled")
              \/ Status(c, k.n) # "paused" /\ UNCHANGED runs
           /\ Answer("cancelled", k.n)
        \/ /\ k.kind = "retry" /\ Status(c, k.n) = "paused"
           /\ Tell(c, k.n, "active")
           /\ Answer("retried", k.n)
  /\ UNCHANGED <<sel, session, shown, effect, monitor, error, faults>>

-----------------------------------------------------------------------------
(* Selection.                                                              *)

\* selectConversation and the effect of the address it sets, which does the
\* same once more and reads the conversation; Nil is the form for a new one.
Select(c) ==
  /\ c # sel
  /\ Cardinality(tasks) < MaxTasks
  /\ sel' = c
  /\ session' = Nil /\ shown' = Nil /\ monitor' = Nil /\ effect' = FALSE
  /\ tasks' = IF c = Nil THEN Left(tasks)
              ELSE Reread(Left(tasks), Ask("refresh", c, Latest(c)))
  /\ UNCHANGED <<runs, error, faults>>

\* Evidence of the same conversation, its archive, a rename: read again.
ReadAgain ==
  /\ session # Nil
  /\ Cardinality(tasks) < MaxTasks
  /\ tasks' = Reread(tasks, Ask("refresh", sel, Latest(sel)))
  /\ UNCHANGED <<runs, sel, session, shown, effect, monitor, error,
                 faults>>

-----------------------------------------------------------------------------
(* The monitor.                                                            *)

\* The effect after a session was set.
SessionLive ==
  session.n > 0 /\ runs[session.conv][session.n][session.at] = "active"

Effect ==
  /\ effect
  /\ effect' = FALSE
  /\ IF session # Nil /\ SessionLive /\ ~Monitored(session.n)
     THEN /\ monitor' = NewMonitor(sel, session.n)
          /\ tasks' = Stopped(tasks)
     ELSE UNCHANGED <<monitor, tasks>>
  /\ UNCHANGED <<runs, sel, session, shown, error, faults>>

Poll ==
  /\ monitor # Nil
  /\ Cardinality({k \in tasks : k.kind = "poll"}) < MaxPolls
  /\ tasks' = tasks \cup {Ask("poll", monitor.conv, monitor.n)}
  /\ UNCHANGED <<runs, sel, session, shown, effect, monitor, error,
                 faults>>

\* finishRun up to its first await, once per monitor and failure.
Finishing == ~monitor.latched
FinishRun(ts) ==
  IF Finishing THEN ts \cup {Ask("finish", monitor.conv, monitor.n)} ELSE ts

PollAnswered(k) ==
  /\ k \in tasks /\ k.kind = "poll"
  /\ \E at \in Told(k) :
       /\ shown' = Show(k.conv, k.n, at, "answer")
       /\ IF runs[k.conv][k.n][at] \in Quiescent
          THEN /\ tasks' = FinishRun(tasks \ {k})
               /\ monitor' = [monitor EXCEPT !.latched = TRUE]
          ELSE /\ tasks' = tasks \ {k}
               /\ UNCHANGED monitor
  /\ UNCHANGED <<runs, sel, session, effect, error, faults>>

\* A stream starts with the run's first event; the page closes it at the first
\* that tells of an end or a pause.
StreamTells ==
  /\ monitor # Nil /\ monitor.stream
  /\ Ended(monitor.conv, monitor.n)
  /\ tasks' = FinishRun(tasks)
  /\ monitor' = [monitor EXCEPT !.latched = TRUE, !.stream = FALSE]
  /\ UNCHANGED <<runs, sel, session, shown, effect, error, faults>>

\* finishRun shows what it read and has the conversation read again.
FinishAnswered(k) ==
  /\ k \in tasks /\ k.kind = "finish"
  /\ \E at \in Told(k) : shown' = Show(k.conv, k.n, at, "read")
  /\ tasks' = Reread(tasks \ {k}, Ask("readback", k.conv, Latest(k.conv)))
  /\ UNCHANGED <<runs, sel, session, effect, monitor, error, faults>>

-----------------------------------------------------------------------------
(* refreshSelected.                                                        *)

\* The run that stays shown: a settled one is not replaced by an earlier
\* state of itself, nor any other state unless by a settled one.
Merged(n, at) ==
  IF /\ shown # Nil
     /\ shown.conv = sel
     /\ \/ n = 0
        \/ /\ shown.n = n
           /\ \/ ShownStatus = "settled"
              \/ runs[sel][n][at] # "settled"
  THEN shown
  ELSE IF n = 0 THEN Nil ELSE Show(sel, n, at, "read")

Refreshed(k) ==
  IF MayRefresh(k)
  THEN \E n \in k.n..Latest(k.conv) : \E at \in LatestTold(k, n) :
         /\ session' = [conv |-> k.conv, n |-> n, at |-> at]
         /\ shown' = Merged(n, at)
         /\ effect' = TRUE
  ELSE UNCHANGED <<session, shown, effect>>

RefreshAnswered(k) ==
  /\ k \in tasks /\ k.kind = "refresh"
  /\ Refreshed(k)
  /\ tasks' = tasks \ {k}
  /\ UNCHANGED <<runs, sel, monitor, error, faults>>

\* A failed refresh sets the error and returns like any other: what its
\* caller does next does not depend on it.
EndMonitoring == monitor' = Nil /\ tasks' = Stopped(tasks)

ReadbackAnswered(k) ==
  /\ k \in tasks /\ k.kind = "readback"
  /\ Refreshed(k)
  /\ EndMonitoring
  /\ UNCHANGED <<runs, sel, error, faults>>

-----------------------------------------------------------------------------
(* Commands: one at a time.                                                *)

Command(kind, n) ==
  /\ ~Busy
  /\ Cardinality(tasks) < MaxTasks
  /\ tasks' = tasks \cup {Ask(kind, sel, n)}
  /\ error' = FALSE
  /\ UNCHANGED <<runs, sel, session, shown, effect, monitor, faults>>

Send ==
  /\ session # Nil /\ Cardinality(Runs) < MaxRuns
  /\ shown # Nil => ShownStatus = "settled"
  /\ Command("send", 0)

Cancel ==
  /\ shown # Nil /\ ShownStatus # "settled"
  /\ Command("cancel", shown.n)

Retry ==
  /\ shown # Nil /\ ShownStatus = "paused"
  /\ Command("retry", shown.n)

\* sendMessage learns the new run, reads it, and refreshes.
SendAnswered(k) ==
  /\ k \in tasks /\ k.kind = "accepted"
  /\ IF ~SelectionCurrent(k)
     THEN /\ tasks' = tasks \ {k}
          /\ UNCHANGED shown
     ELSE /\ \E at \in Told(k) : shown' = Show(k.conv, k.n, at, "answer")
          /\ tasks' = Reread(tasks \ {k}, Ask("sendback", k.conv, k.n))
  /\ UNCHANGED <<runs, sel, session, effect, monitor, error, faults>>

MonitorAfter(k) ==
  IF k.kind = "sendback" /\ SelectionCurrent(k) /\ ~Monitored(k.n)
  THEN /\ monitor' = NewMonitor(k.conv, k.n)
       /\ tasks' = Stopped(tasks \ {k})
  ELSE /\ tasks' = tasks \ {k}
       /\ UNCHANGED monitor

SendbackAnswered(k) ==
  /\ k \in tasks /\ k.kind \in {"sendback", "resend"}
  /\ Refreshed(k)
  /\ MonitorAfter(k)
  /\ UNCHANGED <<runs, sel, error, faults>>

\* cancelActiveRun shows the run as the server answered.
CancelAnswered(k) ==
  /\ k \in tasks /\ k.kind = "cancelled"
  /\ shown' = IF SelectionCurrent(k)
              THEN Show(k.conv, k.n, k.since, "answer")
              ELSE shown
  /\ tasks' = tasks \ {k}
  /\ UNCHANGED <<runs, sel, session, effect, monitor, error, faults>>

\* retryPausedRun reads the run after the answer and follows it.
RetryAnswered(k) ==
  /\ k \in tasks /\ k.kind = "retried"
  /\ IF ~SelectionCurrent(k)
     THEN /\ tasks' = tasks \ {k}
          /\ UNCHANGED <<shown, monitor>>
     ELSE \E at \in Told(k) :
            /\ shown' = Show(k.conv, k.n, at, "answer")
            /\ IF runs[k.conv][k.n][at] \in Quiescent
               THEN /\ tasks' = tasks \ {k}
                    /\ UNCHANGED monitor
               ELSE /\ monitor' = NewMonitor(k.conv, k.n)
                    /\ tasks' = Stopped(tasks \ {k})
  /\ UNCHANGED <<runs, sel, session, effect, error, faults>>

-----------------------------------------------------------------------------
(* Failures.                                                               *)

\* The server's own refusals.
Refused(k) ==
  \/ /\ k.kind = "send" /\ Latest(k.conv) > 0
     /\ Status(k.conv, Latest(k.conv)) # "settled"
  \/ k.kind = "retry" /\ Status(k.conv, k.n) # "paused"

Failing(k) ==
  CASE k.kind \in {"refresh", "readback", "sendback", "resend"} -> MayRefresh(k)
    [] OTHER -> SelectionCurrent(k)

AfterFailedEnd == [monitor EXCEPT !.latched = FALSE]

\* A request or its answer is lost. A failed send reads the conversation
\* again, a failed end is tried again, and a failed refresh goes on.
Fails(k) ==
  /\ k \in tasks
  /\ IF Refused(k) THEN UNCHANGED faults
     ELSE faults < MaxFaults /\ faults' = faults + 1
  /\ error' = (error \/ Failing(k))
  /\ CASE k.kind = "finish" ->
            /\ monitor' = AfterFailedEnd
            /\ tasks' = tasks \ {k}
       [] k.kind \in {"send", "accepted"} /\ SelectionCurrent(k) ->
            /\ tasks' = Reread(tasks \ {k}, Ask("resend", k.conv, Latest(k.conv)))
            /\ UNCHANGED monitor
       [] k.kind = "readback" -> EndMonitoring
       [] k.kind = "sendback" -> MonitorAfter(k)
       [] OTHER -> tasks' = tasks \ {k} /\ UNCHANGED monitor
  /\ UNCHANGED <<runs, sel, session, shown, effect>>

-----------------------------------------------------------------------------
Answered(k) ==
  \/ PollAnswered(k) \/ FinishAnswered(k) \/ RefreshAnswered(k)
  \/ ReadbackAnswered(k) \/ SendAnswered(k) \/ SendbackAnswered(k)
  \/ CancelAnswered(k) \/ RetryAnswered(k)

Next ==
  \/ \E c \in Conversations : RunPauses(c) \/ RunSettles(c)
  \/ \E c \in Conversations \cup {Nil} : Select(c)
  \/ ReadAgain \/ Effect
  \/ Poll \/ StreamTells
  \/ Send \/ Cancel \/ Retry
  \/ \E k \in tasks : Answered(k) \/ Serve(k) \/ Fails(k)

Spec == Init /\ [][Next]_vars

\* The browser runs its effects and timers and every request is answered or
\* fails; the person and the server's runs need not do anything. A stream may
\* stay silent: polling alone must do.
Fairness ==
  /\ WF_vars(Effect) /\ WF_vars(Poll)
  /\ \A kind \in {"poll", "finish", "readback", "refresh"} :
       WF_vars(\E k \in tasks : k.kind = kind /\ (Answered(k) \/ Fails(k)))
  /\ WF_vars(\E k \in tasks : /\ k.kind \in Commands
                              /\ Answered(k) \/ Serve(k) \/ Fails(k))

FairSpec == Spec /\ Fairness

-----------------------------------------------------------------------------
(* Properties.                                                             *)

\* Every record keeps its shape and points into the server's log; one command
\* at a time, and one end of the followed run in hand.
RunOf(r) ==
  /\ r.n \in 1..Latest(r.conv)
  /\ r.at \in 1..Len(runs[r.conv][r.n])

TypeOK ==
  /\ runs \in [Conversations -> Seq(Seq({"active"} \cup Quiescent))]
  /\ sel \in Conversations \cup {Nil}
  /\ session # Nil => session.n = 0 \/ RunOf(session)
  /\ shown # Nil => RunOf(shown)
  /\ monitor # Nil => /\ monitor.n \in 1..Latest(monitor.conv)
                      /\ monitor.latched \in BOOLEAN
                      /\ monitor.stream \in BOOLEAN
  /\ \A k \in tasks : k.kind \in Kinds /\ k.n \in 0..Latest(k.conv)
  /\ Cardinality({k \in tasks : k.kind \in Commands}) <= 1
  /\ Cardinality({k \in tasks : k.kind \in {"finish", "readback"}}) <= 1
  /\ effect \in BOOLEAN /\ error \in BOOLEAN
  /\ faults \in 0..MaxFaults

\* "Selection A -> B rejects late acceptance, stream, poll and terminal
\* callbacks": what is shown and followed belongs to the selection.
ShownIsSelected ==
  /\ session # Nil => session.conv = sel
  /\ shown # Nil => shown.conv = sel
  /\ monitor # Nil => monitor.conv = sel

\* "Obsolete reads cannot override new state": while one conversation stays
\* selected, its session is never replaced by an earlier state of itself,
\* through selections A -> B -> A and reads that overtake each other.
SessionNeverGoesBack ==
  [][session # Nil /\ session' # Nil /\ session'.conv = session.conv =>
       \/ session'.n > session.n
       \/ session'.n = session.n /\ session'.at >= session.at]_vars

\* A running run the page was told of is followed, whoever started it, unless
\* an error is on display. A run that was paused before is excepted.
Knows(c) ==
  /\ sel = c /\ Latest(c) > 0
  /\ \/ session # Nil /\ session.n = Latest(c)
     \/ shown # Nil /\ shown.n = Latest(c)
KnowsLive(c) == Knows(c) /\ runs[c][Latest(c)] = <<"active">>

LiveRunIsFollowed ==
  \A c \in Conversations :
    []<>(KnowsLive(c) => error \/ Monitored(Latest(c)))

\* The end of a run the page was told of is shown in the end, although requests
\* fail, unless an error is on display or an overtaken answer to a poll or a
\* command came last. A run that was paused before is excepted.
KnowsEnd(c) == Knows(c) /\ runs[c][Latest(c)] = <<"active", "settled">>

SettledRunIsShown ==
  \A c \in Conversations :
    <>[]KnowsEnd(c) =>
      <>[](\/ error
           \/ /\ shown # Nil /\ shown.n = Latest(c)
              /\ ShownStatus = "settled" \/ shown.by = "answer")

\* Polling does not go on for ever: the monitor of a run that has ended or
\* paused stops, and after a failed read of that end a later poll tries again.
FollowingEnds ==
  \A c \in Conversations :
    []<>(sel = c /\ Monitored(Latest(c)) => Live(c))

=============================================================================

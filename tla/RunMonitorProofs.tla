-------------------------- MODULE RunMonitorProofs --------------------------
(***************************************************************************)
(* Proofs about RunMonitor, for any number of conversations, runs, requests *)
(* in flight and failures: what is shown and followed belongs to what is    *)
(* selected, and the session on display never goes back.                    *)
(***************************************************************************)
EXTENDS RunMonitor, FiniteSetTheorems, SequenceTheorems, TLAPS

-----------------------------------------------------------------------------
(* The inductive invariant.                                                *)

Statuses == {"active"} \cup Quiescent
Ends == {"finish", "readback"}
\* Requests whose answer is the conversation, which becomes the session.
Reads == {"refresh", "readback", "sendback", "resend"}
\* Requests that may be made before the conversation has a run.
Runless == {"send", "refresh", "resend"}

Task == [kind : Kinds, conv : Conversations, n : Nat, since : Nat,
         epoch : BOOLEAN, newest : BOOLEAN]
Sight == [conv : Conversations, n : Nat, at : Nat]

\* The server's log: a run has at least its first status.
LogOK ==
  /\ runs \in [Conversations -> Seq(Seq(Statuses))]
  /\ \A c \in Conversations : \A n \in 1..Latest(c) : Len(runs[c][n]) >= 1

\* What is on display is of the selected conversation and in its log.
SessionOK ==
  session # Nil =>
    /\ session \in Sight /\ session.conv = sel
    /\ \/ session.n = 0 /\ session.at = 0
       \/ RunOf(session)

ShownOK ==
  shown # Nil =>
    /\ shown.conv = sel /\ shown.conv \in Conversations
    /\ RunOf(shown)

MonitorOK ==
  monitor # Nil =>
    /\ monitor \in [conv : Conversations, n : Nat, latched : BOOLEAN,
                    stream : BOOLEAN]
    /\ monitor.conv = sel
    /\ monitor.n \in 1..Latest(monitor.conv)

RestOK ==
  /\ sel \in Conversations \cup {Nil}
  /\ effect \in BOOLEAN /\ error \in BOOLEAN
  /\ faults \in 0..MaxFaults

\* A request is about a run in the log, at a point the log has reached; while
\* a send is under way there is no later run than its own.
Aims(k) ==
  /\ k.n \in 0..Latest(k.conv)
  /\ k.kind \notin Runless => k.n >= 1
  /\ k.n = 0 => k.since = 0
  /\ k.n >= 1 /\ k.kind \notin Commanding =>
       k.since \in 1..Len(runs[k.conv][k.n])
  /\ k.kind \in {"accepted", "sendback"} => k.n = Latest(k.conv)

\* A request of the monitor is one of the monitor that is active, and the end
\* of a run is in hand only while the latch is set.
Follows(k) ==
  k.kind \in Monitoring =>
    /\ monitor # Nil /\ k.conv = monitor.conv
    /\ k.kind \in Ends => monitor.latched

\* The read that may still become the session was asked no earlier than the
\* one that is the session.
Ahead(k) ==
  session # Nil /\ k.kind \in Reads /\ k.newest /\ k.conv = sel =>
    /\ session.n <= k.n
    /\ session.n = k.n => session.at <= k.since

AllAim(ts) == \A k \in ts : k \in Task /\ Aims(k)
AllFollow(ts) == \A k \in ts : Follows(k)
AllAhead(ts) == \A k \in ts : Ahead(k)

\* One command, one end and one read that counts at a time.
OneOf(ts, kinds) ==
  \A j, k \in ts : j.kind \in kinds /\ k.kind \in kinds => j = k
OneRead(ts) ==
  \A j, k \in ts :
    j.kind \in Reads /\ k.kind \in Reads /\ j.newest /\ k.newest => j = k

ViewOK == SessionOK /\ ShownOK /\ MonitorOK /\ RestOK
OnesOK ==
  /\ OneOf(tasks, Commands) /\ OneOf(tasks, Ends)
  /\ OneRead(tasks)

IInv ==
  /\ LogOK /\ ViewOK
  /\ AllAim(tasks) /\ AllFollow(tasks) /\ AllAhead(tasks) /\ OnesOK

\* One conversation, no runs, nothing in flight.
THEOREM InitIInv == Init => IInv
<1> SUFFICES ASSUME Init PROVE IInv
  OBVIOUS
<1> USE DEF Init
<1>1. LogOK
  BY DEF LogOK, Latest
<1>2. ViewOK
  <2>1. 0 \in 0..MaxFaults
    BY RunMonitorAssumption
  <2>2. RestOK
    BY <2>1 DEF RestOK
  <2>3. QED BY <2>2 DEF ViewOK, SessionOK, ShownOK, MonitorOK
<1>3. AllAim(tasks) /\ AllFollow(tasks) /\ AllAhead(tasks) /\ OnesOK
  BY DEF AllAim, AllFollow, AllAhead, OnesOK, OneOf, OneRead
<1>4. QED BY <1>1, <1>2, <1>3 DEF IInv

-----------------------------------------------------------------------------
(* The log only grows.                                                     *)

Grows ==
  \A c \in Conversations :
    /\ Latest(c)' >= Latest(c)
    /\ \A n \in 1..Latest(c) : Len(runs[c][n])' >= Len(runs[c][n])

SameRuns == \A c \in Conversations : Latest(c)' = Latest(c)

\* The number of runs and of statuses are numbers.
LEMMA LogLengths ==
  ASSUME LogOK, NEW c \in Conversations
  PROVE  /\ Latest(c) \in Nat
         /\ \A n \in 1..Latest(c) : /\ runs[c][n] \in Seq(Statuses)
                                    /\ Len(runs[c][n]) \in Nat \ {0}
<1>1. runs[c] \in Seq(Seq(Statuses))
  BY DEF LogOK
<1>2. Latest(c) \in Nat
  BY <1>1, LenProperties DEF Latest
<1>3. ASSUME NEW n \in 1..Latest(c)
      PROVE  runs[c][n] \in Seq(Statuses) /\ Len(runs[c][n]) >= 1
  BY <1>1, ElementOfSeq DEF Latest, LogOK
<1>4. QED BY <1>2, <1>3, LenProperties

LengthsOK ==
  \A c \in Conversations :
    /\ Latest(c) \in Nat
    /\ \A n \in 1..Latest(c) : Len(runs[c][n]) \in Nat \ {0}

LEMMA LogMeasured == LogOK => LengthsOK
BY LogLengths DEF LengthsOK

LEMMA LogMeasuredLater == LogOK' => LengthsOK'
BY LogMeasured, PTL

\* A status told of a run is the last of that run's and changes no other.
LEMMA TellGrows ==
  ASSUME LogOK, NEW c \in Conversations, NEW n \in 1..Latest(c),
         NEW status \in Statuses, Tell(c, n, status)
  PROVE  /\ LogOK' /\ Grows /\ SameRuns
         /\ Len(runs[c][n])' \in 1..Len(runs[c][n])'
<1> DEFINE new == Append(runs[c][n], status)
<1>1. runs[c] \in Seq(Seq(Statuses)) /\ runs[c][n] \in Seq(Statuses)
  BY LogLengths DEF LogOK
<1>2. new \in Seq(Statuses) /\ Len(new) = Len(runs[c][n]) + 1
  BY <1>1, AppendProperties
<1> HIDE DEF new
<1>3. runs' = [runs EXCEPT ![c] = [runs[c] EXCEPT ![n] = new]]
  BY DEF Tell, new
<1>4. /\ [runs[c] EXCEPT ![n] = new] \in Seq(Seq(Statuses))
      /\ \A m \in 1..Latest(c) :
           [runs[c] EXCEPT ![n] = new][m] = IF m = n THEN new ELSE runs[c][m]
  BY <1>1, <1>2, ExceptSeq DEF Latest
<1>5. Len([runs[c] EXCEPT ![n] = new]) = Len(runs[c])
  BY <1>1, <1>2, ExceptSeq DEF Latest
<1>6. /\ runs' \in [Conversations -> Seq(Seq(Statuses))]
      /\ runs'[c] = [runs[c] EXCEPT ![n] = new]
      /\ \A d \in Conversations : d # c => runs'[d] = runs[d]
  BY <1>3, <1>4 DEF LogOK
<1>7. SameRuns
  BY <1>5, <1>6 DEF SameRuns, Latest
<1>8. /\ runs'[c][n] = new
      /\ \A m \in 1..Latest(c) : m # n => runs'[c][m] = runs[c][m]
  BY <1>4, <1>6
<1>9. ASSUME NEW d \in Conversations, NEW m \in 1..Latest(d)
      PROVE  /\ Len(runs'[d][m]) >= Len(runs[d][m])
             /\ Len(runs'[d][m]) >= 1
  <2>1. Len(runs[d][m]) \in Nat \ {0}
    BY LogLengths
  <2>2. \/ runs'[d][m] = runs[d][m]
        \/ runs'[d][m] = new /\ d = c /\ m = n
    BY <1>6, <1>8
  <2>3. QED BY <2>1, <2>2, <1>2
<1>10. Grows
  <2>1. ASSUME NEW d \in Conversations PROVE Latest(d)' >= Latest(d)
    <3>1. Latest(d) \in Nat
      BY LogLengths
    <3>2. QED BY <3>1, <1>7 DEF SameRuns
  <2>2. QED BY <2>1, <1>9 DEF Grows
<1>11. LogOK'
  BY <1>6, <1>7, <1>9 DEF LogOK, SameRuns
<1>12. Len(runs[c][n])' \in 1..Len(runs[c][n])'
  BY <1>2, <1>8, LogLengths
<1>13. QED BY <1>7, <1>10, <1>11, <1>12

\* A new run of a conversation, as Serve begins it.
Starts(c) == runs' = [runs EXCEPT ![c] = Append(@, <<"active">>)]

\* A run that starts is the latest of its conversation.
LEMMA StartGrows ==
  ASSUME LogOK, NEW c \in Conversations, Starts(c)
  PROVE  /\ LogOK' /\ Grows
         /\ Latest(c)' = Latest(c) + 1
         /\ Len(runs'[c][Latest(c) + 1]) = 1
         /\ \A d \in Conversations : d # c => Latest(d)' = Latest(d)
<1> DEFINE new == Append(runs[c], <<"active">>)
<1>1. runs[c] \in Seq(Seq(Statuses))
  BY DEF LogOK
<1>2. <<"active">> \in Seq(Statuses) /\ Len(<<"active">>) = 1
  BY DEF Statuses, Quiescent
<1>3. /\ new \in Seq(Seq(Statuses)) /\ Len(new) = Len(runs[c]) + 1
      /\ new[Len(runs[c]) + 1] = <<"active">>
      /\ \A m \in 1..Len(runs[c]) : new[m] = runs[c][m]
  BY <1>1, <1>2, AppendProperties
<1>4. /\ runs' \in [Conversations -> Seq(Seq(Statuses))]
      /\ runs'[c] = new
      /\ \A d \in Conversations : d # c => runs'[d] = runs[d]
  BY <1>3 DEF LogOK, Starts
<1> HIDE DEF new
<1>5. /\ Latest(c)' = Latest(c) + 1
      /\ \A d \in Conversations : d # c => Latest(d)' = Latest(d)
  BY <1>3, <1>4 DEF Latest
<1>6. Len(runs'[c][Latest(c) + 1]) = 1
  BY <1>2, <1>3, <1>4 DEF Latest
<1>7. ASSUME NEW d \in Conversations, NEW m \in 1..Latest(d)
      PROVE  runs'[d][m] = runs[d][m]
  BY <1>3, <1>4 DEF Latest
<1>8. Grows
  <2>1. ASSUME NEW d \in Conversations PROVE Latest(d)' >= Latest(d)
    <3>1. Latest(d) \in Nat
      BY LogLengths
    <3>2. QED BY <3>1, <1>5
  <2>2. ASSUME NEW d \in Conversations, NEW m \in 1..Latest(d)
        PROVE  Len(runs[d][m])' >= Len(runs[d][m])
    <3>1. Len(runs[d][m]) \in Nat
      BY LogLengths
    <3>2. Len(runs'[d][m]) = Len(runs[d][m])
      BY <1>7
    <3>3. QED BY <3>1, <3>2
  <2>3. QED BY <2>1, <2>2 DEF Grows
<1>9. ASSUME NEW d \in Conversations, NEW m \in 1..Latest(d)'
      PROVE  Len(runs'[d][m]) >= 1
  <2>1. CASE m \in 1..Latest(d)
    <3>1. Len(runs[d][m]) \in Nat \ {0}
      BY <2>1, LogLengths
    <3>2. Len(runs'[d][m]) = Len(runs[d][m])
      BY <2>1, <1>7
    <3>3. QED BY <3>1, <3>2
  <2>2. CASE m \notin 1..Latest(d)
    <3>1. Latest(d) \in Nat
      BY LogLengths
    <3>2. d = c /\ m = Latest(c) + 1
      BY <2>2, <3>1, <1>5
    <3>3. QED BY <3>2, <1>6
  <2>3. QED BY <2>1, <2>2
<1>10. LogOK'
  BY <1>4, <1>9 DEF LogOK
<1>11. QED BY <1>5, <1>6, <1>8, <1>10

-----------------------------------------------------------------------------
(* The sets of requests in flight.                                         *)

\* A request made now is about the log as it is now.
LEMMA AskAims ==
  ASSUME LogOK, NEW kind \in Kinds \ {"accepted"}, NEW c \in Conversations,
         NEW n \in 0..Latest(c), kind \notin Runless => n >= 1,
         kind = "sendback" => n = Latest(c)
  PROVE  Ask(kind, c, n) \in Task /\ Aims(Ask(kind, c, n))
<1> DEFINE a == Ask(kind, c, n)
<1>1. Latest(c) \in Nat /\ n \in Nat
  BY LogLengths
<1>2. n >= 1 => n \in 1..Latest(c)
  BY <1>1
<1>3. n >= 1 => Len(runs[c][n]) \in Nat \ {0}
  BY <1>2, LogLengths
<1>4. /\ a.kind = kind /\ a.conv = c /\ a.n = n
      /\ a.since = IF n = 0 \/ kind \in Commanding THEN 0 ELSE Len(runs[c][n])
      /\ a.epoch = TRUE /\ a.newest = TRUE
  BY DEF Ask
<1>5. a.since \in Nat
  BY <1>1, <1>3, <1>4
<1>6. a \in Task
  BY <1>1, <1>5 DEF Ask, Task
<1>7. n >= 1 /\ kind \notin Commanding => a.since \in 1..Len(runs[c][n])
  BY <1>3, <1>4
<1>8. n = 0 => a.since = 0
  BY <1>4
<1> HIDE DEF a
<1>9. Aims(a)
  BY <1>4, <1>7, <1>8 DEF Aims
<1>10. QED BY <1>6, <1>9 DEF a

\* Nor is it about an earlier state than the session.
LEMMA AskAhead ==
  ASSUME LogOK, SessionOK, NEW kind \in Reads, NEW c \in Conversations
  PROVE  Ahead(Ask(kind, c, Latest(c)))
<1> DEFINE a == Ask(kind, c, Latest(c))
<1>1. Latest(c) \in Nat
  BY LogLengths
<1>2. /\ a.conv = c /\ a.n = Latest(c)
      /\ Latest(c) # 0 => a.since = Len(runs[c][Latest(c)])
      /\ Latest(c) = 0 => a.since = 0
  BY DEF Ask, Reads, Commanding
<1> HIDE DEF a
<1>3. ASSUME session # Nil, c = sel
      PROVE  /\ session.n <= Latest(c)
             /\ session.n = Latest(c) => session.at <= a.since
  <2>1. CASE session.n = 0 /\ session.at = 0
    <3>1. CASE Latest(c) = 0
      BY <1>2, <2>1, <3>1
    <3>2. CASE Latest(c) # 0
      BY <1>1, <2>1, <3>2
    <3>3. QED BY <3>1, <3>2
  <2>2. CASE RunOf(session)
    <3>1. session.conv = c
      BY <1>3 DEF SessionOK
    <3>2. session.n \in 1..Latest(c) /\ session.at \in 1..Len(runs[c][session.n])
      BY <2>2, <3>1 DEF RunOf
    <3>3. QED BY <1>1, <1>2, <3>2
  <2>3. QED BY <2>1, <2>2, <1>3 DEF SessionOK
<1>4. QED BY <1>2, <1>3 DEF Ahead, a

\* A request that a later read has made obsolete.
Faded(k) == [k EXCEPT !.newest = FALSE]

LEMMA FadedTask ==
  ASSUME NEW k \in Task
  PROVE  /\ Faded(k) \in Task
         /\ Faded(k).kind = k.kind /\ Faded(k).conv = k.conv
         /\ Faded(k).n = k.n /\ Faded(k).since = k.since
         /\ ~Faded(k).newest
BY DEF Faded, Task

\* What is in flight once the conversation is read again.
LEMMA RereadTasks ==
  ASSUME NEW ts, NEW a, NEW j \in Reread(ts, a)
  PROVE  j = a \/ \E k \in ts : k.kind # "refresh" /\ j = Faded(k)
BY DEF Reread, Faded

LEMMA RereadAims ==
  ASSUME NEW ts, AllAim(ts), NEW a \in Task, Aims(a)
  PROVE  AllAim(Reread(ts, a))
<1> SUFFICES ASSUME NEW j \in Reread(ts, a) PROVE j \in Task /\ Aims(j)
  BY DEF AllAim
<1>1. CASE j = a
  BY <1>1
<1>2. ASSUME NEW k \in ts, j = Faded(k) PROVE j \in Task /\ Aims(j)
  <2>1. k \in Task /\ Aims(k)
    BY DEF AllAim
  <2>2. QED BY <1>2, <2>1, FadedTask DEF Aims
<1>3. QED BY <1>1, <1>2, RereadTasks

LEMMA RereadFollows ==
  ASSUME NEW ts, AllAim(ts), AllFollow(ts), NEW a, Follows(a)
  PROVE  AllFollow(Reread(ts, a))
<1> SUFFICES ASSUME NEW j \in Reread(ts, a) PROVE Follows(j)
  BY DEF AllFollow
<1>1. CASE j = a
  BY <1>1
<1>2. ASSUME NEW k \in ts, j = Faded(k) PROVE Follows(j)
  <2>1. k \in Task /\ Follows(k)
    BY DEF AllAim, AllFollow
  <2>2. QED BY <1>2, <2>1, FadedTask DEF Follows
<1>3. QED BY <1>1, <1>2, RereadTasks

\* Only the new read counts.
LEMMA RereadNewest ==
  ASSUME NEW ts, AllAim(ts), NEW a, Ahead(a)
  PROVE  AllAhead(Reread(ts, a)) /\ OneRead(Reread(ts, a))
<1>1. ASSUME NEW j \in Reread(ts, a) PROVE j = a \/ ~j.newest
  BY RereadTasks, FadedTask DEF AllAim
<1>2. QED BY <1>1 DEF AllAhead, OneRead, Ahead

LEMMA RereadOneOf ==
  ASSUME NEW ts, AllAim(ts), NEW a, NEW kinds, OneOf(ts, kinds),
         a.kind \in kinds => \A k \in ts : k.kind \notin kinds
  PROVE  OneOf(Reread(ts, a), kinds)
<1> SUFFICES ASSUME NEW i \in Reread(ts, a), NEW j \in Reread(ts, a),
                    i.kind \in kinds, j.kind \in kinds
             PROVE  i = j
  BY DEF OneOf
<1>1. ASSUME NEW l \in Reread(ts, a), l.kind \in kinds
      PROVE  l = a \/ \E k \in ts : k.kind \in kinds /\ l = Faded(k)
  BY <1>1, RereadTasks, FadedTask DEF AllAim
<1>2. CASE a.kind \in kinds
  BY <1>1, <1>2
<1>3. CASE a.kind \notin kinds
  BY <1>1, <1>3 DEF OneOf
<1>4. QED BY <1>2, <1>3

\* A command whose selection was left.
Stale(k) == [k EXCEPT !.epoch = FALSE]

LEMMA StaleTask ==
  ASSUME NEW k \in Task
  PROVE  /\ Stale(k) \in Task
         /\ Stale(k).kind = k.kind /\ Stale(k).conv = k.conv
         /\ Stale(k).n = k.n /\ Stale(k).since = k.since
         /\ Stale(k).newest = k.newest
BY DEF Stale, Task

\* What is in flight once a selection is left.
LEMMA LeftTasks ==
  ASSUME AllAim(tasks), AllFollow(tasks), OnesOK
  PROVE  /\ AllAim(Left(tasks)) /\ OneOf(Left(tasks), Commands)
         /\ OneOf(Left(tasks), Ends) /\ OneRead(Left(tasks))
         /\ \A k \in Left(tasks) : k.kind \in Commands
<1>1. ASSUME NEW j \in Left(tasks)
      PROVE  \E k \in tasks : k.kind \in Commands /\ j = Stale(k)
  BY DEF Left, Stale
<1>2. \A j \in Left(tasks) : j.kind \in Commands
  BY <1>1, StaleTask DEF AllAim
<1>3. AllAim(Left(tasks))
  <2> SUFFICES ASSUME NEW j \in Left(tasks) PROVE j \in Task /\ Aims(j)
    BY DEF AllAim
  <2>1. PICK k \in tasks : j = Stale(k)
    BY <1>1
  <2>2. k \in Task /\ Aims(k)
    BY DEF AllAim
  <2>3. QED BY <2>1, <2>2, StaleTask DEF Aims
<1>4. OneOf(Left(tasks), Commands)
  BY <1>1 DEF OnesOK, OneOf
<1>5. OneOf(Left(tasks), Ends)
  BY <1>2 DEF OneOf, Ends, Commands, Commanding
<1>6. OneRead(Left(tasks))
  BY <1>1, StaleTask DEF OnesOK, OneOf, OneRead
<1>7. QED BY <1>2, <1>3, <1>4, <1>5, <1>6

\* Fewer requests are in flight.
LEMMA FewerTasks ==
  ASSUME AllAim(tasks), AllFollow(tasks), AllAhead(tasks), OnesOK,
         NEW ts \in SUBSET tasks
  PROVE  /\ AllAim(ts) /\ AllFollow(ts) /\ AllAhead(ts)
         /\ OneOf(ts, Commands) /\ OneOf(ts, Ends) /\ OneRead(ts)
BY DEF AllAim, AllFollow, AllAhead, OnesOK, OneOf, OneRead

-----------------------------------------------------------------------------
(* Steps of the server.                                                    *)

\* What is on display stays in a log that grows.
LEMMA ViewLater ==
  ASSUME IInv, LogOK', Grows, UNCHANGED <<sel, session, shown, effect, monitor>>,
         UNCHANGED <<error, faults>>
  PROVE  ViewOK'
<1>1. ASSUME NEW c \in Conversations, NEW n \in 1..Latest(c),
             NEW at \in 1..Len(runs[c][n])
      PROVE  n \in 1..Latest(c)' /\ at \in 1..Len(runs[c][n])'
  <2>1. /\ Latest(c) \in Nat /\ Latest(c)' \in Nat /\ Latest(c)' >= Latest(c)
        /\ Len(runs[c][n]) \in Nat /\ Len(runs[c][n])' >= Len(runs[c][n])
    BY LogMeasured, LogMeasuredLater DEF Grows, IInv, LengthsOK
  <2>2. n \in 1..Latest(c)'
    BY <2>1
  <2>3. Len(runs[c][n])' \in Nat
    BY <2>2, LogMeasuredLater DEF LengthsOK
  <2>4. QED BY <2>1, <2>2, <2>3
<1>2. SessionOK'
  <2>1. CASE session # Nil /\ RunOf(session)
    <3>1. session.conv \in Conversations
      BY <2>1 DEF IInv, ViewOK, SessionOK, Sight
    <3>2. RunOf(session)'
      BY <1>1, <2>1, <3>1 DEF RunOf
    <3>3. QED BY <2>1, <3>2 DEF IInv, ViewOK, SessionOK
  <2>2. CASE ~(session # Nil /\ RunOf(session))
    BY <2>2 DEF IInv, ViewOK, SessionOK
  <2>3. QED BY <2>1, <2>2
<1>3. ShownOK'
  BY <1>1 DEF IInv, ViewOK, ShownOK, RunOf
<1>4. MonitorOK'
  <2>1. CASE monitor # Nil
    <3>1. monitor.conv \in Conversations /\ monitor.n \in 1..Latest(monitor.conv)
      BY <2>1 DEF IInv, ViewOK, MonitorOK
    <3>2. /\ Latest(monitor.conv) \in Nat /\ Latest(monitor.conv)' \in Nat
          /\ Latest(monitor.conv)' >= Latest(monitor.conv)
      BY <3>1, LogMeasured, LogMeasuredLater DEF Grows, IInv, LengthsOK
    <3>3. monitor.n \in 1..Latest(monitor.conv)'
      BY <3>1, <3>2
    <3>4. QED BY <2>1, <3>3 DEF IInv, ViewOK, MonitorOK
  <2>2. CASE monitor = Nil
    BY <2>2 DEF MonitorOK
  <2>3. QED BY <2>1, <2>2
<1>5. RestOK'
  BY DEF IInv, ViewOK, RestOK
<1>6. QED BY <1>2, <1>3, <1>4, <1>5 DEF ViewOK

\* So does what is asked, except that a new run overtakes a send.
LEMMA AimsLater ==
  ASSUME LogOK, LogOK', Grows, NEW k \in Task, Aims(k),
         k.kind \in {"accepted", "sendback"} =>
           Latest(k.conv)' = Latest(k.conv)
  PROVE  Aims(k)'
<1> DEFINE c == k.conv
<1>1. c \in Conversations /\ k.n \in Nat
  BY DEF Task
<1>2. Latest(c) \in Nat /\ Latest(c)' \in Nat /\ Latest(c)' >= Latest(c)
  BY <1>1, LogMeasured, LogMeasuredLater DEF Grows, LengthsOK
<1>3. k.n \in 0..Latest(c) /\ k.n \in 0..Latest(c)'
  BY <1>2 DEF Aims
<1>4. k.n >= 1 =>
        /\ k.n \in 1..Latest(c) /\ k.n \in 1..Latest(c)'
        /\ Len(runs[c][k.n]) \in Nat /\ Len(runs'[c][k.n]) \in Nat
        /\ Len(runs'[c][k.n]) >= Len(runs[c][k.n])
  <2>1. k.n >= 1 => k.n \in 1..Latest(c) /\ k.n \in 1..Latest(c)'
    BY <1>2, <1>3
  <2>2. ASSUME k.n \in 1..Latest(c)
        PROVE  /\ Len(runs[c][k.n]) \in Nat
               /\ Len(runs'[c][k.n]) >= Len(runs[c][k.n])
    BY <1>1, <2>2, LogLengths DEF Grows
  <2>3. ASSUME k.n \in 1..Latest(c)' PROVE Len(runs'[c][k.n]) \in Nat
    BY <1>1, <2>3, LogMeasuredLater DEF LengthsOK
  <2>4. QED BY <2>1, <2>2, <2>3
<1>5. k.n >= 1 /\ k.kind \notin Commanding =>
        k.since \in 1..Len(runs'[c][k.n])
  BY <1>4 DEF Aims
<1>6. QED BY <1>3, <1>5 DEF Aims

\* A status told while nobody looks.
LEMMA ToldQuietly ==
  ASSUME IInv, NEW c \in Conversations, NEW status \in Statuses, Live(c),
         Tell(c, Latest(c), status), UNCHANGED <<view, error, faults>>
  PROVE  IInv'
<1> USE DEF view
<1>1. Latest(c) \in 1..Latest(c)
  BY LogLengths DEF IInv, Live
<1>2. LogOK' /\ Grows /\ SameRuns
  BY <1>1, TellGrows DEF IInv
<1>3. ViewOK'
  BY <1>2, ViewLater
<1>4. AllAim(tasks)'
  BY <1>2, AimsLater DEF IInv, AllAim, SameRuns, Task
<1>5. AllFollow(tasks)' /\ AllAhead(tasks)' /\ OnesOK'
  BY DEF IInv, AllFollow, Follows, AllAhead, Ahead, OnesOK, OneOf, OneRead
<1>6. QED BY <1>2, <1>3, <1>4, <1>5 DEF IInv

LEMMA RunPausesStep ==
  ASSUME IInv, NEW c \in Conversations, RunPauses(c)
  PROVE  IInv'
BY ToldQuietly DEF RunPauses, Statuses, Quiescent

LEMMA RunSettlesStep ==
  ASSUME IInv, NEW c \in Conversations, RunSettles(c)
  PROVE  IInv'
BY ToldQuietly DEF RunSettles, Statuses, Quiescent

\* A command is served: its run is the latest, or has been told more.
ServedAs(k, kind, n, since) ==
  [k EXCEPT !.kind = kind, !.n = n, !.since = since]

LEMMA ServedTask ==
  ASSUME NEW k \in Task, NEW kind \in {"accepted", "cancelled", "retried"},
         NEW n \in Nat \ {0}, n <= Latest(k.conv)', Latest(k.conv)' \in Nat,
         NEW since \in Nat \ {0}, since = Len(runs'[k.conv][n]),
         kind = "accepted" => n = Latest(k.conv)'
  PROVE  /\ ServedAs(k, kind, n, since) \in Task
         /\ Aims(ServedAs(k, kind, n, since))'
         /\ ServedAs(k, kind, n, since).kind = kind
<1> DEFINE s == ServedAs(k, kind, n, since)
<1>1. kind \in Kinds /\ kind \notin Commanding
  BY DEF Kinds, Commands, Commanding
<1>2. /\ s \in Task /\ s.kind = kind /\ s.conv = k.conv /\ s.n = n
      /\ s.since = since
  BY <1>1 DEF ServedAs, Task
<1> HIDE DEF s
<1>3. s.n \in 0..Latest(s.conv)'
  BY <1>2
<1>4. s.since \in 1..Len(runs'[s.conv][s.n])
  BY <1>2
<1>5. s.kind \in {"accepted", "sendback"} => s.n = Latest(s.conv)'
  BY <1>2
<1>6. Aims(s)'
  BY <1>2, <1>3, <1>4, <1>5 DEF Aims
<1>7. QED BY <1>2, <1>6 DEF s

LEMMA Served ==
  ASSUME IInv, NEW k \in tasks, k.kind \in Commanding,
         NEW kind \in {"accepted", "cancelled", "retried"},
         NEW n \in 1..Latest(k.conv)',
         LogOK', Grows, kind = "accepted" \/ SameRuns,
         kind = "accepted" =>
           /\ n = Latest(k.conv)'
           /\ \A d \in Conversations : d # k.conv => Latest(d)' = Latest(d),
         NEW since, since = Len(runs'[k.conv][n]),
         tasks' = (tasks \ {k}) \cup {ServedAs(k, kind, n, since)},
         UNCHANGED <<sel, session, shown, effect, monitor, error, faults>>
  PROVE  IInv'
<1> DEFINE s == ServedAs(k, kind, n, since)
<1>1. k \in Task /\ Aims(k) /\ k.conv \in Conversations
  BY DEF IInv, AllAim, Task
<1>2. /\ Latest(k.conv)' \in Nat /\ since \in Nat \ {0}
      /\ n \in Nat \ {0} /\ n <= Latest(k.conv)'
  BY <1>1, LogMeasuredLater DEF LengthsOK
<1>3. s \in Task /\ Aims(s)' /\ s.kind = kind
  BY <1>1, <1>2, ServedTask
<1> HIDE DEF s
<1>4. \A j \in tasks' : j = s \/ (j \in tasks /\ j # k)
  BY DEF s
<1>5. k.kind \in Commands /\ kind \in Commands
  BY DEF Commands, Commanding
<1>6. ASSUME NEW j \in tasks, j # k PROVE j.kind \notin Commands
  BY <1>5, <1>6 DEF IInv, OnesOK, OneOf
<1>7. AllAim(tasks)'
  <2> SUFFICES ASSUME NEW j \in tasks' PROVE j \in Task /\ Aims(j)'
    BY DEF AllAim
  <2>1. CASE j = s
    BY <1>3, <2>1
  <2>2. CASE j \in tasks /\ j # k
    <3>1. j \in Task /\ Aims(j)
      BY <2>2 DEF IInv, AllAim
    <3>2. j.kind \notin {"accepted", "sendback"}
      BY <1>6, <2>2 DEF Commands
    <3>3. QED BY <3>1, <3>2, AimsLater DEF IInv
  <2>3. QED BY <1>4, <2>1, <2>2
<1>8. /\ kind \notin Monitoring /\ kind \notin Reads /\ kind \notin Ends
  BY DEF Monitoring, Reads, Ends
<1>9. AllFollow(tasks)' /\ AllAhead(tasks)'
  BY <1>3, <1>4, <1>8 DEF IInv, AllFollow, Follows, AllAhead, Ahead
<1>10. OnesOK'
  <2>1. OneOf(tasks', Commands)
    BY <1>3, <1>4, <1>5, <1>6 DEF OneOf
  <2>2. OneOf(tasks', Ends)
    BY <1>3, <1>4, <1>8 DEF IInv, OnesOK, OneOf
  <2>3. OneRead(tasks')
    BY <1>3, <1>4, <1>8 DEF IInv, OnesOK, OneRead
  <2>4. QED BY <2>1, <2>2, <2>3 DEF OnesOK, OneOf, OneRead
<1>11. ViewOK'
  BY ViewLater
<1>12. QED BY <1>7, <1>9, <1>10, <1>11 DEF IInv

LEMMA ServeStep ==
  ASSUME IInv, NEW k \in tasks, Serve(k)
  PROVE  IInv'
<1> DEFINE c == k.conv
<1>1. /\ k \in Task /\ Aims(k) /\ c \in Conversations
      /\ Latest(c) \in Nat
  BY LogMeasured DEF IInv, AllAim, Task, LengthsOK
<1>2. k.kind \in Commanding /\
      UNCHANGED <<sel, session, shown, effect, monitor, error, faults>>
  BY DEF Serve, Commanding
<1>3. CASE k.kind = "send"
  <2>1. /\ Starts(c)
        /\ tasks' = (tasks \ {k}) \cup
             {ServedAs(k, "accepted", Latest(c) + 1,
                       Len(runs'[c][Latest(c) + 1]))}
    BY <1>3 DEF Serve, Starts, ServedAs
  <2>2. /\ LogOK' /\ Grows /\ Latest(c)' = Latest(c) + 1
        /\ \A d \in Conversations : d # c => Latest(d)' = Latest(d)
    BY <1>1, <2>1, StartGrows DEF IInv
  <2>3. Latest(c) + 1 \in 1..Latest(c)'
    BY <1>1, <2>2
  <2>4. QED BY <1>1, <1>2, <2>1, <2>2, <2>3, Served
<1>4. ASSUME NEW kind \in {"cancelled", "retried"},
             k.kind # "send",
             \/ UNCHANGED runs
             \/ \E status \in Statuses : Tell(c, k.n, status),
             tasks' = (tasks \ {k}) \cup
               {ServedAs(k, kind, k.n, Len(runs'[c][k.n]))}
      PROVE  IInv'
  <2>1. k.n \in 1..Latest(c)
    BY <1>1, <1>2, <1>4 DEF Aims, Runless, Commanding
  <2>2. LogOK' /\ Grows /\ SameRuns
    <3>1. CASE UNCHANGED runs
      <4>1. LogOK' /\ SameRuns
        BY <3>1 DEF IInv, LogOK, SameRuns, Latest
      <4>2. \A n : \A d \in Conversations :
              n \in 1..Latest(d) => Len(runs[d][n])' >= Len(runs[d][n])
        BY <3>1, LogMeasured DEF IInv, LengthsOK
      <4>3. \A d \in Conversations : Latest(d)' >= Latest(d)
        BY <4>1, LogMeasured DEF IInv, LengthsOK, SameRuns
      <4>4. QED BY <4>1, <4>2, <4>3 DEF Grows
    <3>2. CASE \E status \in Statuses : Tell(c, k.n, status)
      BY <1>1, <2>1, <3>2, TellGrows DEF IInv
    <3>3. QED BY <1>4, <3>1, <3>2
  <2>3. k.n \in 1..Latest(c)'
    BY <1>1, <2>1, <2>2 DEF SameRuns
  <2>4. QED BY <1>2, <1>4, <2>2, <2>3, Served
<1>5. CASE k.kind = "cancel"
  <2>1. /\ UNCHANGED runs \/ Tell(c, k.n, "settled")
        /\ tasks' = (tasks \ {k}) \cup
             {ServedAs(k, "cancelled", k.n, Len(runs'[c][k.n]))}
    BY <1>5 DEF Serve, ServedAs
  <2>2. "settled" \in Statuses
    BY DEF Statuses, Quiescent
  <2>3. QED BY <1>4, <1>5, <2>1, <2>2
<1>6. CASE k.kind = "retry"
  <2>1. /\ Tell(c, k.n, "active")
        /\ tasks' = (tasks \ {k}) \cup
             {ServedAs(k, "retried", k.n, Len(runs'[c][k.n]))}
    BY <1>6 DEF Serve, ServedAs
  <2>2. "active" \in Statuses
    BY DEF Statuses
  <2>3. QED BY <1>4, <1>6, <2>1, <2>2
<1>7. QED BY <1>2, <1>3, <1>5, <1>6 DEF Commanding

-----------------------------------------------------------------------------
(* Steps of the page.                                                      *)

\* They leave the log as it is.
LEMMA PageStep ==
  ASSUME IInv, runs' = runs, ViewOK', AllAim(tasks'), AllFollow(tasks)',
         AllAhead(tasks)', OneOf(tasks', Commands), OneOf(tasks', Ends),
         OneRead(tasks')
  PROVE  IInv'
<1>1. LogOK'
  BY DEF IInv, LogOK, Latest
<1>2. AllAim(tasks)'
  BY DEF AllAim, Aims, Latest
<1>3. OnesOK'
  BY DEF OnesOK, OneOf, OneRead
<1>4. QED BY <1>1, <1>2, <1>3 DEF IInv

LEMMA SameFollow ==
  ASSUME monitor' = monitor, AllFollow(tasks')
  PROVE  AllFollow(tasks)'
BY DEF AllFollow, Follows

LEMMA SameAhead ==
  ASSUME session' = session, sel' = sel, AllAhead(tasks')
  PROVE  AllAhead(tasks)'
BY DEF AllAhead, Ahead

\* With no session there is none to be ahead of.
LEMMA NoneAhead ==
  ASSUME session' = Nil
  PROVE  AllAhead(tasks)'
BY DEF AllAhead, Ahead

\* What is shown and what is followed, while the log stays.
LEMMA SameSession ==
  ASSUME IInv, runs' = runs, UNCHANGED <<sel, session>>
  PROVE  SessionOK'
BY DEF IInv, ViewOK, SessionOK, RunOf, Latest

LEMMA SameShown ==
  ASSUME IInv, runs' = runs, UNCHANGED <<sel, shown>>
  PROVE  ShownOK'
BY DEF IInv, ViewOK, ShownOK, RunOf, Latest

LEMMA SameMonitor ==
  ASSUME IInv, runs' = runs, UNCHANGED <<sel, monitor>>
  PROVE  MonitorOK'
BY DEF IInv, ViewOK, MonitorOK, Latest

\* A new conversation is selected, or the form for one.
LEMMA SelectStep ==
  ASSUME IInv, NEW c \in Conversations \cup {Nil}, Select(c)
  PROVE  IInv'
<1> DEFINE a == Ask("refresh", c, Latest(c))
<1>1. /\ AllAim(Left(tasks)) /\ OneOf(Left(tasks), Commands)
      /\ OneOf(Left(tasks), Ends) /\ OneRead(Left(tasks))
      /\ \A k \in Left(tasks) : k.kind \in Commands
  BY LeftTasks DEF IInv
<1>2. ViewOK'
  BY DEF Select, IInv, ViewOK, SessionOK, ShownOK, MonitorOK, RestOK
<1>3. AllAhead(tasks)'
  BY NoneAhead DEF Select
<1>4. CASE c = Nil
  <2>1. tasks' = Left(tasks) /\ runs' = runs
    BY <1>4 DEF Select
  <2>2. AllFollow(tasks)'
    BY <1>1, <2>1 DEF AllFollow, Follows, Commands, Commanding, Monitoring
  <2>3. QED BY <1>1, <1>2, <1>3, <2>1, <2>2, PageStep
<1>5. CASE c # Nil
  <2>1. tasks' = Reread(Left(tasks), a) /\ runs' = runs
    BY <1>5 DEF Select
  <2>2. a \in Task /\ Aims(a) /\ a.kind = "refresh"
    <3>1. c \in Conversations /\ Latest(c) \in 0..Latest(c)
      BY <1>5, LogMeasured DEF IInv, LengthsOK
    <3>2. "refresh" \in Kinds \ {"accepted"} /\ "refresh" \in Runless
      BY DEF Kinds, Runless
    <3>3. a \in Task /\ Aims(a)
      BY <3>1, <3>2, AskAims DEF IInv
    <3>4. QED BY <3>3 DEF Ask
  <2> HIDE DEF a
  <2>3. \A j \in tasks' : j = a \/ (j \in Task /\ j.kind \in Commands /\ ~j.newest)
    <3>1. \A k \in Left(tasks) : Faded(k).kind = k.kind /\ ~Faded(k).newest
                                 /\ Faded(k) \in Task
      BY <1>1, FadedTask DEF AllAim
    <3>2. QED BY <1>1, <2>1, <3>1, RereadTasks
  <2>4. AllFollow(tasks)'
    BY <2>2, <2>3
       DEF AllFollow, Follows, Commands, Commanding, Monitoring
  <2>5. AllAim(tasks')
    BY <1>1, <2>1, <2>2, RereadAims
  <2>6. OneOf(tasks', Commands) /\ OneOf(tasks', Ends)
    BY <1>1, <2>1, <2>2, RereadOneOf DEF Commands, Commanding, Ends
  <2>7. OneRead(tasks')
    BY <2>3 DEF OneRead
  <2>8. QED BY <1>2, <1>3, <2>1, <2>4, <2>5, <2>6, <2>7, PageStep
<1>6. QED BY <1>4, <1>5

\* All that holds of the requests in flight, as one.
TasksOK(ts) ==
  /\ AllAim(ts) /\ AllFollow(ts) /\ AllAhead(ts)
  /\ OneOf(ts, Commands) /\ OneOf(ts, Ends) /\ OneRead(ts)

\* A step after which the same session and monitor are there.
LEMMA TasksStep ==
  ASSUME IInv, runs' = runs, UNCHANGED <<sel, session, monitor>>,
         ShownOK', RestOK', TasksOK(tasks')
  PROVE  IInv'
<1>1. ViewOK'
  BY SameSession, SameMonitor DEF ViewOK
<1>2. QED BY <1>1, PageStep, SameFollow, SameAhead DEF TasksOK

LEMMA FewerOK ==
  ASSUME IInv, NEW ts \in SUBSET tasks
  PROVE  TasksOK(ts)
BY FewerTasks DEF IInv, TasksOK

\* A request that reads no conversation is made.
LEMMA OneMoreOK ==
  ASSUME NEW ts, TasksOK(ts), NEW a \in Task, Aims(a), Follows(a),
         a.kind \notin Reads,
         a.kind \in Commands => \A k \in ts : k.kind \notin Commands,
         a.kind \in Ends => \A k \in ts : k.kind \notin Ends
  PROVE  TasksOK(ts \cup {a})
<1>1. AllAim(ts \cup {a}) /\ AllFollow(ts \cup {a})
  BY DEF TasksOK, AllAim, AllFollow
<1>2. AllAhead(ts \cup {a}) /\ OneRead(ts \cup {a})
  BY DEF TasksOK, AllAhead, Ahead, OneRead
<1>3. OneOf(ts \cup {a}, Commands) /\ OneOf(ts \cup {a}, Ends)
  BY DEF TasksOK, OneOf
<1>4. QED BY <1>1, <1>2, <1>3 DEF TasksOK

\* The conversation is read again.
LEMMA RereadOK ==
  ASSUME NEW ts, TasksOK(ts), NEW a \in Task, Aims(a), Follows(a), Ahead(a),
         a.kind \in Commands => \A k \in ts : k.kind \notin Commands,
         a.kind \in Ends => \A k \in ts : k.kind \notin Ends
  PROVE  TasksOK(Reread(ts, a))
BY RereadAims, RereadFollows, RereadNewest, RereadOneOf DEF TasksOK

\* What the page asks of a conversation outside a command.
LEMMA RefreshAsked ==
  ASSUME IInv, NEW kind \in {"refresh", "resend"}, NEW c \in Conversations
  PROVE  /\ Ask(kind, c, Latest(c)) \in Task /\ Aims(Ask(kind, c, Latest(c)))
         /\ Follows(Ask(kind, c, Latest(c))) /\ Ahead(Ask(kind, c, Latest(c)))
         /\ Ask(kind, c, Latest(c)).kind = kind
<1>1. /\ kind \in Kinds \ {"accepted"} /\ kind \in Runless /\ kind \in Reads
      /\ kind # "sendback" /\ kind \notin Monitoring
  BY DEF Kinds, Commands, Runless, Reads, Monitoring
<1>2. Latest(c) \in 0..Latest(c)
  BY LogMeasured DEF IInv, LengthsOK
<1>3. Ask(kind, c, Latest(c)) \in Task /\ Aims(Ask(kind, c, Latest(c)))
  BY <1>1, <1>2, AskAims DEF IInv
<1>4. Ahead(Ask(kind, c, Latest(c)))
  BY <1>1, AskAhead DEF IInv, ViewOK
<1>5. Ask(kind, c, Latest(c)).kind = kind
  BY DEF Ask
<1>6. Follows(Ask(kind, c, Latest(c)))
  BY <1>1, <1>5 DEF Follows
<1>7. QED BY <1>3, <1>4, <1>5, <1>6

LEMMA ReadAgainStep ==
  ASSUME IInv, ReadAgain
  PROVE  IInv'
<1> DEFINE a == Ask("refresh", sel, Latest(sel))
<1>1. sel \in Conversations
  BY DEF ReadAgain, IInv, ViewOK, SessionOK, Sight
<1>2. a \in Task /\ Aims(a) /\ Follows(a) /\ Ahead(a) /\ a.kind = "refresh"
  BY <1>1, RefreshAsked
<1> HIDE DEF a
<1>3. TasksOK(Reread(tasks, a))
  BY <1>2, FewerOK, RereadOK DEF Commands, Commanding, Ends
<1>4. ShownOK' /\ RestOK'
  BY SameShown DEF ReadAgain, IInv, ViewOK, RestOK
<1>5. QED BY <1>3, <1>4, TasksStep DEF ReadAgain, a

\* A command takes hold of the page.
LEMMA CommandStep ==
  ASSUME IInv, NEW kind \in Commanding, NEW n, Command(kind, n),
         sel \in Conversations, n \in 0..Latest(sel),
         kind \notin Runless => n >= 1
  PROVE  IInv'
<1> DEFINE a == Ask(kind, sel, n)
<1>1. /\ kind \in Kinds \ {"accepted"} /\ kind # "sendback"
      /\ kind \notin Monitoring /\ kind \notin Reads /\ kind \notin Ends
      /\ kind \in Commands
  BY DEF Kinds, Commands, Commanding, Reads, Monitoring, Ends
<1>2. a \in Task /\ Aims(a)
  BY <1>1, AskAims DEF IInv
<1>3. a.kind = kind
  BY DEF Ask
<1>4. tasks' = tasks \cup {a} /\ \A k \in tasks : k.kind \notin Commands
  BY DEF Command, Busy
<1> HIDE DEF a
<1>5. Follows(a)
  BY <1>1, <1>3 DEF Follows
<1>6. TasksOK(tasks \cup {a})
  BY <1>1, <1>2, <1>3, <1>4, <1>5, FewerOK, OneMoreOK
<1>7. ShownOK' /\ RestOK'
  BY SameShown DEF Command, IInv, ViewOK, RestOK
<1>8. QED BY <1>4, <1>6, <1>7, TasksStep DEF Command

LEMMA SendStep ==
  ASSUME IInv, Send
  PROVE  IInv'
<1>1. sel \in Conversations
  BY DEF Send, IInv, ViewOK, SessionOK, Sight
<1>2. 0 \in 0..Latest(sel)
  BY <1>1, LogMeasured DEF IInv, LengthsOK
<1>3. QED BY <1>1, <1>2, CommandStep DEF Send, Commanding, Runless

\* The run shown is one of the selected conversation.
LEMMA ShownRun ==
  ASSUME IInv, shown # Nil
  PROVE  sel \in Conversations /\ shown.n \in 0..Latest(sel) /\ shown.n >= 1
<1>1. sel \in Conversations /\ shown.n \in 1..Latest(sel)
  BY DEF IInv, ViewOK, ShownOK, RunOf
<1>2. Latest(sel) \in Nat
  BY <1>1, LogMeasured DEF IInv, LengthsOK
<1>3. QED BY <1>1, <1>2

LEMMA CancelStep ==
  ASSUME IInv, Cancel
  PROVE  IInv'
BY ShownRun, CommandStep DEF Cancel, Commanding

LEMMA RetryStep ==
  ASSUME IInv, Retry
  PROVE  IInv'
BY ShownRun, CommandStep DEF Retry, Commanding

\* A request of the monitor.
LEMMA FollowAsked ==
  ASSUME IInv, monitor # Nil, NEW kind \in {"poll", "finish"}
  PROVE  /\ Ask(kind, monitor.conv, monitor.n) \in Task
         /\ Aims(Ask(kind, monitor.conv, monitor.n))
         /\ Ask(kind, monitor.conv, monitor.n).kind = kind
         /\ Ask(kind, monitor.conv, monitor.n).conv = monitor.conv
<1>1. monitor.conv \in Conversations /\ monitor.n \in 1..Latest(monitor.conv)
  BY DEF IInv, ViewOK, MonitorOK
<1>2. Latest(monitor.conv) \in Nat
  BY <1>1, LogMeasured DEF IInv, LengthsOK
<1>3. monitor.n \in 0..Latest(monitor.conv) /\ monitor.n >= 1
  BY <1>1, <1>2
<1>4. kind \in Kinds \ {"accepted"} /\ kind # "sendback"
  BY DEF Kinds
<1>5. /\ Ask(kind, monitor.conv, monitor.n) \in Task
      /\ Aims(Ask(kind, monitor.conv, monitor.n))
  BY <1>1, <1>3, <1>4, AskAims DEF IInv
<1>6. QED BY <1>5 DEF Ask

LEMMA PollStep ==
  ASSUME IInv, Poll
  PROVE  IInv'
<1> DEFINE a == Ask("poll", monitor.conv, monitor.n)
<1>1. a \in Task /\ Aims(a) /\ a.kind = "poll" /\ a.conv = monitor.conv
  BY FollowAsked DEF Poll
<1>2. tasks' = tasks \cup {a} /\ monitor # Nil
  BY DEF Poll
<1> HIDE DEF a
<1>3. Follows(a)
  BY <1>1, <1>2 DEF Follows, Ends
<1>4. TasksOK(tasks \cup {a})
  BY <1>1, <1>3, FewerOK, OneMoreOK DEF Commands, Commanding, Reads, Ends
<1>5. ShownOK' /\ RestOK'
  BY SameShown DEF Poll, IInv, ViewOK, RestOK
<1>6. QED BY <1>2, <1>4, <1>5, TasksStep DEF Poll

\* The page begins to follow the run of a session that is live.
LEMMA EffectStep ==
  ASSUME IInv, Effect
  PROVE  IInv'
<1>1. CASE UNCHANGED <<monitor, tasks>>
  <2>1. TasksOK(tasks')
    BY <1>1, FewerOK
  <2>2. ShownOK' /\ RestOK'
    BY SameShown DEF Effect, IInv, ViewOK, RestOK
  <2>3. QED BY <1>1, <2>1, <2>2, TasksStep DEF Effect
<1>2. CASE /\ session # Nil /\ session.n > 0
           /\ monitor' = NewMonitor(sel, session.n)
           /\ tasks' = Stopped(tasks)
  <2>1. /\ runs' = runs /\ UNCHANGED <<sel, session, shown>>
        /\ TasksOK(tasks')
    BY <1>2, FewerOK DEF Effect, Stopped
  <2>2. session.conv = sel /\ sel \in Conversations /\ session.n \in Nat
        /\ session.n \in 1..Latest(sel)
    BY <1>2 DEF IInv, ViewOK, SessionOK, RunOf, Sight
  <2>3. MonitorOK'
    BY <1>2, <2>1, <2>2 DEF MonitorOK, NewMonitor, Latest
  <2>4. ViewOK'
    BY <2>1, <2>3, SameSession, SameShown
       DEF ViewOK, Effect, IInv, RestOK
  <2>5. AllFollow(tasks)'
    BY <1>2 DEF Stopped, AllFollow, Follows
  <2>6. QED BY <2>1, <2>4, <2>5, PageStep, SameAhead DEF TasksOK
<1>3. QED BY <1>1, <1>2 DEF Effect, SessionLive

\* The latch is set, and one request for the run's end is in hand.
LEMMA LatchStep ==
  ASSUME IInv, monitor # Nil, runs' = runs, UNCHANGED <<sel, session>>,
         NEW ts \in SUBSET tasks, tasks' = FinishRun(ts),
         NEW stream \in BOOLEAN,
         monitor' = [conv |-> monitor.conv, n |-> monitor.n, latched |-> TRUE,
                     stream |-> stream],
         ShownOK', RestOK'
  PROVE  IInv'
<1> DEFINE a == Ask("finish", monitor.conv, monitor.n)
<1>1. /\ monitor.conv \in Conversations /\ monitor.n \in Nat
      /\ monitor.conv = sel /\ monitor.n \in 1..Latest(monitor.conv)
      /\ monitor.latched \in BOOLEAN
  BY DEF IInv, ViewOK, MonitorOK
<1>2. /\ monitor' # Nil /\ monitor'.conv = monitor.conv
      /\ monitor'.latched = TRUE
  <2>1. monitor' \in [conv : Conversations, n : Nat, latched : BOOLEAN,
                      stream : BOOLEAN]
    BY <1>1
  <2>2. Nil \notin [conv : Conversations, n : Nat, latched : BOOLEAN,
                   stream : BOOLEAN]
    BY RunMonitorAssumption
  <2>3. monitor' # Nil
    BY <2>1, <2>2, Zenon
  <2>4. QED BY <2>3
<1>3. MonitorOK'
  BY <1>1 DEF MonitorOK, Latest
<1>4. a \in Task /\ Aims(a) /\ a.kind = "finish" /\ a.conv = monitor.conv
  BY FollowAsked
<1>5. tasks' = IF Finishing THEN ts \cup {a} ELSE ts
  BY DEF FinishRun
<1> HIDE DEF a
<1>6. TasksOK(ts)
  BY FewerOK
<1>7. /\ AllAim(tasks') /\ AllAhead(tasks') /\ OneRead(tasks')
      /\ OneOf(tasks', Commands) /\ OneOf(tasks', Ends)
  <2>1. CASE ~Finishing
    BY <1>5, <1>6, <2>1 DEF TasksOK
  <2>2. CASE Finishing
    <3>1. /\ a.kind \notin Reads /\ a.kind \notin Commands /\ a.kind \in Ends
          /\ a.kind \in Monitoring
      BY <1>4 DEF Reads, Commands, Commanding, Ends, Monitoring
    <3>2. \A k \in ts : k.kind \notin Ends
      BY <2>2 DEF IInv, AllFollow, Follows, Finishing, Ends, Monitoring
    <3>3. AllAim(ts \cup {a})
      BY <1>4, <1>6 DEF TasksOK, AllAim
    <3>4. AllAhead(ts \cup {a}) /\ OneRead(ts \cup {a})
      BY <3>1, <1>6 DEF TasksOK, AllAhead, Ahead, OneRead
    <3>5. OneOf(ts \cup {a}, Commands) /\ OneOf(ts \cup {a}, Ends)
      BY <3>1, <3>2, <1>6 DEF TasksOK, OneOf
    <3>6. QED BY <1>5, <2>2, <3>3, <3>4, <3>5
  <2>3. QED BY <2>1, <2>2
<1>8. AllFollow(tasks)'
  <2>1. ASSUME NEW j \in tasks' PROVE j.kind \in Monitoring => j.conv = monitor.conv
    BY <1>4, <1>5 DEF IInv, AllFollow, Follows
  <2>2. QED BY <1>2, <2>1 DEF AllFollow, Follows
<1>9. ViewOK'
  BY <1>3, SameSession DEF ViewOK
<1>10. QED BY <1>7, <1>8, <1>9, PageStep, SameAhead

\* The run shown is replaced by an answer about the selected conversation.
LEMMA ShownAnswer ==
  ASSUME IInv, NEW k \in tasks, k.kind \notin Runless, k.kind \notin Commanding,
         k.conv = sel, NEW at \in Told(k), NEW by,
         runs' = runs, sel' = sel, shown' = Show(k.conv, k.n, at, by)
  PROVE  ShownOK'
<1>1. /\ k \in Task /\ k.conv \in Conversations /\ k.n \in 1..Latest(k.conv)
      /\ k.since \in 1..Len(runs[k.conv][k.n])
  <2>1. k \in Task /\ k.conv \in Conversations /\ Aims(k)
    BY DEF IInv, AllAim, Task
  <2>2. Latest(k.conv) \in Nat
    BY <2>1, LogMeasured DEF IInv, LengthsOK
  <2>3. QED BY <2>1, <2>2 DEF Aims
<1>2. Len(runs[k.conv][k.n]) \in Nat
  BY <1>1, LogMeasured DEF IInv, LengthsOK
<1>3. at \in 1..Len(runs[k.conv][k.n])
  BY <1>1, <1>2 DEF Told
<1>4. QED BY <1>1, <1>3 DEF ShownOK, Show, RunOf, Latest

\* A request of the monitor is about the selected conversation.
LEMMA FollowedSelected ==
  ASSUME IInv, NEW k \in tasks, k.kind \in Monitoring
  PROVE  /\ monitor # Nil /\ k.conv = monitor.conv /\ k.conv = sel
         /\ k.kind \in Ends => monitor.latched
         /\ monitor \in [conv : Conversations, n : Nat, latched : BOOLEAN,
                         stream : BOOLEAN]
BY DEF IInv, AllFollow, Follows, ViewOK, MonitorOK

LEMMA StreamTellsStep ==
  ASSUME IInv, StreamTells
  PROVE  IInv'
<1>1. monitor \in [conv : Conversations, n : Nat, latched : BOOLEAN,
                   stream : BOOLEAN]
  BY DEF StreamTells, IInv, ViewOK, MonitorOK
<1>2. monitor' = [conv |-> monitor.conv, n |-> monitor.n, latched |-> TRUE,
                  stream |-> FALSE]
  BY <1>1 DEF StreamTells
<1>3. ShownOK' /\ RestOK'
  BY SameShown DEF StreamTells, IInv, ViewOK, RestOK
<1>4. QED BY <1>2, <1>3, LatchStep DEF StreamTells

LEMMA PollAnsweredStep ==
  ASSUME IInv, NEW k \in tasks, PollAnswered(k)
  PROVE  IInv'
<1>1. /\ monitor # Nil /\ k.conv = sel
      /\ monitor \in [conv : Conversations, n : Nat, latched : BOOLEAN,
                      stream : BOOLEAN]
  BY FollowedSelected DEF PollAnswered, Monitoring
<1>2. /\ runs' = runs /\ UNCHANGED <<sel, session>>
      /\ k.kind \notin Runless /\ k.kind \notin Commanding
  BY DEF PollAnswered, Runless, Commanding
<1>3. ShownOK'
  <2>1. PICK at \in Told(k) : shown' = Show(k.conv, k.n, at, "answer")
    BY DEF PollAnswered
  <2>2. QED BY <1>1, <1>2, <2>1, ShownAnswer
<1>4. RestOK'
  BY DEF PollAnswered, IInv, ViewOK, RestOK
<1>5. CASE tasks' = tasks \ {k} /\ UNCHANGED monitor
  BY <1>2, <1>3, <1>4, <1>5, FewerOK, TasksStep
<1>6. CASE /\ tasks' = FinishRun(tasks \ {k})
           /\ monitor' = [monitor EXCEPT !.latched = TRUE]
  <2>1. monitor' = [conv |-> monitor.conv, n |-> monitor.n, latched |-> TRUE,
                    stream |-> monitor.stream]
    BY <1>1, <1>6
  <2>2. monitor.stream \in BOOLEAN
    BY <1>1
  <2>3. QED BY <1>1, <1>2, <1>3, <1>4, <1>6, <2>1, <2>2, LatchStep
<1>7. QED BY <1>5, <1>6 DEF PollAnswered

LEMMA FinishAnsweredStep ==
  ASSUME IInv, NEW k \in tasks, FinishAnswered(k)
  PROVE  IInv'
<1> DEFINE a == Ask("readback", k.conv, Latest(k.conv))
<1>1. /\ monitor # Nil /\ k.conv = monitor.conv /\ k.conv = sel
      /\ monitor.latched
  BY FollowedSelected DEF FinishAnswered, Monitoring, Ends
<1>2. /\ runs' = runs /\ UNCHANGED <<sel, session, monitor>>
      /\ k.kind \notin Runless /\ k.kind \notin Commanding /\ k.kind \in Ends
      /\ tasks' = Reread(tasks \ {k}, a)
  BY DEF FinishAnswered, Runless, Commanding, Ends
<1>3. k.conv \in Conversations /\ k.n >= 1 /\ k.n \in 0..Latest(k.conv)
  BY <1>2 DEF IInv, AllAim, Aims, Task
<1>4. Latest(k.conv) \in 0..Latest(k.conv) /\ Latest(k.conv) >= 1
  BY <1>3, LogMeasured DEF IInv, LengthsOK
<1>5. a \in Task /\ Aims(a)
  BY <1>3, <1>4, AskAims DEF Kinds, Monitoring, IInv
<1>6. Ahead(a)
  BY <1>3, AskAhead DEF IInv, ViewOK, Reads
<1>7. a.kind = "readback" /\ a.conv = k.conv
  BY DEF Ask
<1> HIDE DEF a
<1>8. Follows(a)
  BY <1>1, <1>7 DEF Follows
<1>9. \A j \in tasks \ {k} : j.kind \notin Ends
  BY <1>2 DEF IInv, OnesOK, OneOf
<1>10. TasksOK(tasks')
  BY <1>2, <1>5, <1>6, <1>7, <1>8, <1>9, FewerOK, RereadOK
     DEF Commands, Commanding
<1>11. ShownOK'
  <2>1. PICK at \in Told(k) : shown' = Show(k.conv, k.n, at, "read")
    BY DEF FinishAnswered
  <2>2. QED BY <1>1, <1>2, <2>1, ShownAnswer
<1>12. RestOK'
  BY DEF FinishAnswered, IInv, ViewOK, RestOK
<1>13. QED BY <1>2, <1>10, <1>11, <1>12, TasksStep

\* The answer to a read becomes the session, if it counts still, and it is of
\* no earlier state than the session before.
Newer ==
  session # Nil /\ session' # Nil /\ session'.conv = session.conv =>
    \/ session'.n > session.n
    \/ session'.n = session.n /\ session'.at >= session.at

LEMMA SessionRead ==
  ASSUME IInv, NEW k \in tasks, k.kind \in Reads, Refreshed(k),
         runs' = runs, sel' = sel
  PROVE  /\ SessionOK' /\ ShownOK' /\ effect' \in BOOLEAN /\ Newer
         /\ \A j \in tasks : j # k => Ahead(j)'
<1>1. /\ k \in Task /\ k.conv \in Conversations /\ Aims(k)
      /\ Latest(k.conv) \in Nat
  BY LogMeasured DEF IInv, AllAim, Task, LengthsOK
<1>2. CASE ~MayRefresh(k)
  <2>1. UNCHANGED <<session, shown, effect>>
    BY <1>2 DEF Refreshed
  <2>2. SessionOK' /\ ShownOK' /\ effect' \in BOOLEAN
    BY <2>1, SameSession, SameShown DEF IInv, ViewOK, RestOK
  <2>3. Newer
    <3>1. session # Nil => session.n \in Nat /\ session.at \in Nat
      BY DEF IInv, ViewOK, SessionOK, Sight
    <3>2. QED BY <2>1, <3>1 DEF Newer
  <2>4. QED BY <2>1, <2>2, <2>3 DEF IInv, AllAhead, Ahead
<1>3. CASE MayRefresh(k)
  <2>1. k.conv = sel /\ k.newest
    BY <1>3 DEF MayRefresh, SelectionCurrent
  <2>a. PICK n \in k.n..Latest(k.conv) :
          \E at \in LatestTold(k, n) :
            /\ session' = [conv |-> k.conv, n |-> n, at |-> at]
            /\ shown' = Merged(n, at) /\ effect' = TRUE
    BY <1>3 DEF Refreshed
  <2>2. PICK at \in LatestTold(k, n) :
          /\ session' = [conv |-> k.conv, n |-> n, at |-> at]
          /\ shown' = Merged(n, at) /\ effect' = TRUE
    BY <2>a
  <2>3. /\ n \in Nat /\ n >= k.n
        /\ \/ n = 0 /\ at = 0
           \/ /\ n \in 1..Latest(k.conv) /\ at \in 1..Len(runs[k.conv][n])
              /\ n = k.n => at >= k.since
    <3>1. n \in Nat /\ n >= k.n /\ n <= Latest(k.conv)
      BY <1>1 DEF Task
    <3>2. CASE n = 0
      BY <3>1, <3>2 DEF LatestTold
    <3>3. CASE n # 0
      <4>1. n \in 1..Latest(k.conv)
        BY <1>1, <3>1, <3>3
      <4>2. Len(runs[k.conv][n]) \in Nat
        BY <1>1, <4>1, LogMeasured DEF IInv, LengthsOK
      <4>3. CASE n = k.n
        <5>1. k.since \in 1..Len(runs[k.conv][n])
          BY <1>1, <3>1, <3>3, <4>3 DEF Aims, Reads, Commanding
        <5>2. at \in k.since..Len(runs[k.conv][n])
          BY <3>3, <4>3 DEF LatestTold, Told
        <5>3. QED BY <3>1, <4>1, <4>2, <5>1, <5>2
      <4>4. CASE n # k.n
        BY <3>1, <3>3, <4>1, <4>2, <4>4 DEF LatestTold
      <4>5. QED BY <4>3, <4>4
    <3>4. QED BY <3>2, <3>3
  <2>4. at \in Nat
    <3>1. n \in 1..Latest(k.conv) => Len(runs[k.conv][n]) \in Nat
      BY <1>1, LogMeasured DEF IInv, LengthsOK
    <3>2. QED BY <2>3, <3>1
  <2>5. SessionOK'
    BY <1>1, <2>1, <2>2, <2>3, <2>4 DEF SessionOK, Sight, RunOf, Latest
  <2>6. ShownOK'
    <3>1. CASE UNCHANGED shown
      BY <3>1, SameShown
    <3>2. CASE shown' = Nil
      BY <3>2 DEF ShownOK
    <3>3. CASE n # 0 /\ shown' = Show(sel, n, at, "read")
      BY <1>1, <2>1, <2>3, <3>3 DEF ShownOK, Show, RunOf, Latest
    <3>4. QED BY <2>2, <3>1, <3>2, <3>3 DEF Merged
  <2>7. Newer
    <3>1. CASE session # Nil
      <4>1. session.n <= k.n /\ (session.n = k.n => session.at <= k.since)
        BY <2>1, <3>1 DEF IInv, AllAhead, Ahead
      <4>2. /\ session.n \in Nat /\ session.at \in Nat
            /\ session.n = 0 => session.at = 0
        BY <3>1 DEF IInv, ViewOK, SessionOK, Sight, RunOf
      <4>3. k.n \in Nat /\ k.since \in Nat
        BY <1>1 DEF Task
      <4>4. session'.n = n /\ session'.at = at
        BY <2>2
      <4>5. n > session.n \/ (n = session.n /\ at >= session.at)
        BY <2>3, <2>4, <4>1, <4>2, <4>3
      <4>6. QED BY <4>4, <4>5 DEF Newer
    <3>2. CASE session = Nil
      BY <3>2 DEF Newer
    <3>3. QED BY <3>1, <3>2
  <2>8. ASSUME NEW j \in tasks, j # k PROVE Ahead(j)'
    BY <2>1, <2>8 DEF IInv, OnesOK, OneRead, Ahead
  <2>9. QED BY <2>2, <2>5, <2>6, <2>7, <2>8
<1>4. QED BY <1>2, <1>3

\* A read is answered, and the monitor is what it was, new or gone.
LEMMA ReadStep ==
  ASSUME IInv, NEW k \in tasks, k.kind \in Reads, Refreshed(k),
         UNCHANGED <<runs, sel, error, faults>>,
         MonitorOK', tasks' \subseteq tasks \ {k}, AllFollow(tasks)'
  PROVE  IInv' /\ Newer
<1>1. /\ SessionOK' /\ ShownOK' /\ effect' \in BOOLEAN /\ Newer
      /\ \A j \in tasks : j # k => Ahead(j)'
  BY SessionRead
<1>2. TasksOK(tasks')
  BY FewerOK
<1>3. ViewOK'
  BY <1>1 DEF IInv, ViewOK, RestOK
<1>4. AllAhead(tasks)'
  BY <1>1 DEF AllAhead
<1>5. QED BY <1>1, <1>2, <1>3, <1>4, PageStep DEF TasksOK

LEMMA RefreshAnsweredStep ==
  ASSUME IInv, NEW k \in tasks, RefreshAnswered(k)
  PROVE  IInv' /\ Newer
<1>1. /\ k.kind \in Reads /\ tasks' \subseteq tasks \ {k}
      /\ UNCHANGED <<runs, sel, monitor, error, faults>> /\ Refreshed(k)
  BY DEF RefreshAnswered, Reads
<1>2. AllFollow(tasks)'
  BY <1>1 DEF IInv, AllFollow, Follows
<1>3. QED BY <1>1, <1>2, SameMonitor, ReadStep

\* The monitor stops with all its requests.
LEMMA MonitorStops ==
  ASSUME EndMonitoring, NEW k \in tasks, k.kind \in Monitoring
  PROVE  MonitorOK' /\ AllFollow(tasks)' /\ tasks' \subseteq tasks \ {k}
BY DEF EndMonitoring, Stopped, MonitorOK, AllFollow, Follows

LEMMA ReadbackAnsweredStep ==
  ASSUME IInv, NEW k \in tasks, ReadbackAnswered(k)
  PROVE  IInv' /\ Newer
<1>1. /\ k.kind \in Reads /\ k.kind \in Monitoring /\ Refreshed(k)
      /\ UNCHANGED <<runs, sel, error, faults>> /\ EndMonitoring
  BY DEF ReadbackAnswered, Reads, Monitoring
<1>2. QED BY <1>1, MonitorStops, ReadStep

\* A monitor begins to follow a run of the selected conversation.
LEMMA MonitorBegins ==
  ASSUME IInv, NEW k \in tasks, k.kind \notin Runless, k.conv = sel,
         runs' = runs, sel' = sel, monitor' = NewMonitor(k.conv, k.n),
         tasks' = Stopped(tasks \ {k})
  PROVE  MonitorOK' /\ AllFollow(tasks)' /\ tasks' \subseteq tasks \ {k}
<1>1. /\ k.conv \in Conversations /\ k.n \in Nat /\ k.n >= 1
      /\ k.n \in 0..Latest(k.conv) /\ Latest(k.conv) \in Nat
  BY LogMeasured DEF IInv, AllAim, Aims, Task, LengthsOK
<1>2. k.n \in 1..Latest(k.conv)
  BY <1>1
<1>3. MonitorOK'
  BY <1>1, <1>2 DEF MonitorOK, NewMonitor, Latest
<1>4. AllFollow(tasks)' /\ tasks' \subseteq tasks \ {k}
  BY DEF Stopped, AllFollow, Follows
<1>5. QED BY <1>3, <1>4

LEMMA MonitorAfterSend ==
  ASSUME IInv, NEW k \in tasks, MonitorAfter(k), runs' = runs, sel' = sel
  PROVE  MonitorOK' /\ AllFollow(tasks)' /\ tasks' \subseteq tasks \ {k}
<1>1. CASE k.kind = "sendback" /\ SelectionCurrent(k) /\ ~Monitored(k.n)
  BY <1>1, MonitorBegins DEF MonitorAfter, SelectionCurrent, Runless
<1>2. CASE ~(k.kind = "sendback" /\ SelectionCurrent(k) /\ ~Monitored(k.n))
  <2>1. tasks' = tasks \ {k} /\ UNCHANGED monitor
    BY <1>2 DEF MonitorAfter
  <2>2. AllFollow(tasks)'
    BY <2>1 DEF IInv, AllFollow, Follows
  <2>3. QED BY <2>1, <2>2, SameMonitor
<1>3. QED BY <1>1, <1>2

LEMMA SendbackAnsweredStep ==
  ASSUME IInv, NEW k \in tasks, SendbackAnswered(k)
  PROVE  IInv' /\ Newer
<1>1. /\ k.kind \in Reads /\ Refreshed(k) /\ MonitorAfter(k)
      /\ UNCHANGED <<runs, sel, error, faults>>
  BY DEF SendbackAnswered, Reads
<1>2. QED BY <1>1, MonitorAfterSend, ReadStep

\* The command's own follow-up read, or the one after a failed send.
LEMMA FollowUpStep ==
  ASSUME IInv, NEW k \in tasks, k.kind \in Commands, k.conv = sel,
         NEW kind \in {"sendback", "resend"},
         kind = "sendback" => k.kind = "accepted",
         tasks' = Reread(tasks \ {k}, Ask(kind, k.conv, Latest(k.conv))),
         UNCHANGED <<runs, sel, session, monitor>>, ShownOK', RestOK'
  PROVE  IInv'
<1> DEFINE a == Ask(kind, k.conv, Latest(k.conv))
<1>1. k.conv \in Conversations
  BY DEF IInv, AllAim, Task
<1>2. a \in Task /\ Aims(a) /\ a.kind = kind
  <2>1. CASE kind = "resend"
    BY <1>1, <2>1, RefreshAsked
  <2>2. CASE kind = "sendback"
    <3>1. k.n = Latest(k.conv) /\ k.n >= 1
      BY <2>2 DEF IInv, AllAim, Aims, Runless
    <3>2. Latest(k.conv) \in 0..Latest(k.conv) /\ Latest(k.conv) >= 1
      BY <1>1, <3>1, LogMeasured DEF IInv, LengthsOK
    <3>3. "sendback" \in Kinds \ {"accepted"}
      BY DEF Kinds, Commands
    <3>4. a \in Task /\ Aims(a)
      BY <1>1, <2>2, <3>2, <3>3, AskAims DEF IInv
    <3>5. QED BY <3>4 DEF Ask
  <2>3. QED BY <2>1, <2>2
<1>3. Ahead(a)
  BY <1>1, AskAhead DEF IInv, ViewOK, Reads
<1> HIDE DEF a
<1>4. kind \notin Monitoring /\ kind \notin Ends
  BY DEF Monitoring, Ends
<1>5. Follows(a)
  BY <1>2, <1>4 DEF Follows
<1>6. \A j \in tasks \ {k} : j.kind \notin Commands
  BY DEF IInv, OnesOK, OneOf
<1>7. TasksOK(Reread(tasks \ {k}, a))
  BY <1>2, <1>3, <1>4, <1>5, <1>6, FewerOK, RereadOK
<1>8. QED BY <1>7, TasksStep DEF a

LEMMA SendAnsweredStep ==
  ASSUME IInv, NEW k \in tasks, SendAnswered(k)
  PROVE  IInv'
<1>1. /\ UNCHANGED <<runs, sel, session, effect, monitor, error, faults>>
      /\ k.kind = "accepted" /\ k.kind \in Commands
      /\ k.kind \notin Runless /\ k.kind \notin Commanding
  BY DEF SendAnswered, Commands, Commanding, Runless
<1>2. RestOK'
  BY <1>1 DEF IInv, ViewOK, RestOK
<1>3. CASE ~SelectionCurrent(k)
  <2>1. tasks' = tasks \ {k} /\ shown' = shown
    BY <1>3 DEF SendAnswered
  <2>2. QED BY <1>1, <1>2, <2>1, SameShown, FewerOK, TasksStep
<1>4. CASE SelectionCurrent(k)
  <2>1. k.conv = sel
    BY <1>4 DEF SelectionCurrent
  <2>2. PICK at \in Told(k) : shown' = Show(k.conv, k.n, at, "answer")
    BY <1>4 DEF SendAnswered
  <2>3. ShownOK'
    BY <1>1, <2>1, <2>2, ShownAnswer
  <2>4. k.n = Latest(k.conv)
    BY <1>1 DEF IInv, AllAim, Aims
  <2>5. tasks' = Reread(tasks \ {k}, Ask("sendback", k.conv, Latest(k.conv)))
    BY <1>4, <2>4 DEF SendAnswered
  <2>6. QED BY <1>1, <1>2, <2>1, <2>3, <2>5, FollowUpStep
<1>5. QED BY <1>3, <1>4

LEMMA CancelAnsweredStep ==
  ASSUME IInv, NEW k \in tasks, CancelAnswered(k)
  PROVE  IInv'
<1>1. /\ UNCHANGED <<runs, sel, session, effect, monitor, error, faults>>
      /\ tasks' = tasks \ {k}
      /\ k.kind \notin Runless /\ k.kind \notin Commanding
  BY DEF CancelAnswered, Commanding, Runless
<1>2. RestOK' /\ TasksOK(tasks')
  BY <1>1, FewerOK DEF IInv, ViewOK, RestOK
<1>3. CASE ~SelectionCurrent(k)
  BY <1>1, <1>2, <1>3, SameShown, TasksStep DEF CancelAnswered
<1>4. CASE SelectionCurrent(k)
  <2>1. k.conv = sel /\ shown' = Show(k.conv, k.n, k.since, "answer")
    BY <1>4 DEF CancelAnswered, SelectionCurrent
  <2>2. k.since \in Told(k)
    <3>1. k.conv \in Conversations /\ k.n \in 0..Latest(k.conv) /\ k.n >= 1
          /\ k.since \in 1..Len(runs[k.conv][k.n])
      BY <1>1 DEF IInv, AllAim, Aims, Task
    <3>2. k.n \in 1..Latest(k.conv)
      BY <3>1, LogMeasured DEF IInv, LengthsOK
    <3>3. Len(runs[k.conv][k.n]) \in Nat
      BY <3>1, <3>2, LogMeasured DEF IInv, LengthsOK
    <3>4. QED BY <3>1, <3>3 DEF Told
  <2>3. ShownOK'
    BY <1>1, <2>1, <2>2, ShownAnswer
  <2>4. QED BY <1>1, <1>2, <2>3, TasksStep
<1>5. QED BY <1>3, <1>4

LEMMA RetryAnsweredStep ==
  ASSUME IInv, NEW k \in tasks, RetryAnswered(k)
  PROVE  IInv'
<1>1. /\ UNCHANGED <<runs, sel, session, effect, error, faults>>
      /\ k.kind \notin Runless /\ k.kind \notin Commanding
  BY DEF RetryAnswered, Commanding, Runless
<1>2. RestOK'
  BY <1>1 DEF IInv, ViewOK, RestOK
<1>3. CASE ~SelectionCurrent(k)
  <2>1. tasks' = tasks \ {k} /\ UNCHANGED <<shown, monitor>>
    BY <1>3 DEF RetryAnswered
  <2>2. QED BY <1>1, <1>2, <2>1, SameShown, FewerOK, TasksStep
<1>4. CASE SelectionCurrent(k)
  <2>1. k.conv = sel
    BY <1>4 DEF SelectionCurrent
  <2>2. PICK at \in Told(k) :
          /\ shown' = Show(k.conv, k.n, at, "answer")
          /\ \/ tasks' = tasks \ {k} /\ UNCHANGED monitor
             \/ /\ monitor' = NewMonitor(k.conv, k.n)
                /\ tasks' = Stopped(tasks \ {k})
    BY <1>4 DEF RetryAnswered
  <2>3. ShownOK'
    BY <1>1, <2>1, <2>2, ShownAnswer
  <2>4. CASE tasks' = tasks \ {k} /\ UNCHANGED monitor
    BY <1>1, <1>2, <2>3, <2>4, FewerOK, TasksStep
  <2>5. CASE /\ monitor' = NewMonitor(k.conv, k.n)
             /\ tasks' = Stopped(tasks \ {k})
    <3>1. MonitorOK' /\ AllFollow(tasks)' /\ tasks' \subseteq tasks \ {k}
      BY <1>1, <2>1, <2>5, MonitorBegins
    <3>2. ViewOK'
      BY <1>1, <1>2, <2>3, <3>1, SameSession DEF ViewOK
    <3>3. TasksOK(tasks')
      BY <3>1, FewerOK
    <3>4. QED BY <1>1, <3>1, <3>2, <3>3, PageStep, SameAhead DEF TasksOK
  <2>6. QED BY <2>2, <2>4, <2>5
<1>5. QED BY <1>3, <1>4

\* A request is lost or refused.
LEMMA FailsStep ==
  ASSUME IInv, NEW k \in tasks, Fails(k)
  PROVE  IInv'
<1>1. UNCHANGED <<runs, sel, session, shown, effect>>
  BY DEF Fails
<1>2. ShownOK' /\ SessionOK'
  BY <1>1, SameShown, SameSession
<1>3. RestOK'
  <2>1. faults' \in 0..MaxFaults
    <3>1. MaxFaults \in Nat /\ faults \in 0..MaxFaults
      BY RunMonitorAssumption DEF IInv, ViewOK, RestOK
    <3>2. faults' = faults \/ (faults < MaxFaults /\ faults' = faults + 1)
      BY DEF Fails
    <3>3. QED BY <3>1, <3>2
  <2>2. error' \in BOOLEAN
    <3>1. error' = (error \/ Failing(k))
      BY DEF Fails
    <3>2. QED BY <3>1
  <2>3. QED BY <1>1, <2>1, <2>2 DEF IInv, ViewOK, RestOK
<1>4. ASSUME MonitorOK', AllFollow(tasks)', tasks' \subseteq tasks
      PROVE  IInv'
  <2>1. TasksOK(tasks')
    BY <1>4, FewerOK
  <2>2. QED BY <1>1, <1>2, <1>3, <1>4, <2>1, PageStep, SameAhead
            DEF TasksOK, ViewOK
<1>5. CASE k.kind = "finish"
  <2>1. monitor' = [monitor EXCEPT !.latched = FALSE] /\ tasks' = tasks \ {k}
    BY <1>5 DEF Fails, AfterFailedEnd
  <2>2. /\ monitor \in [conv : Conversations, n : Nat, latched : BOOLEAN,
                        stream : BOOLEAN]
        /\ monitor # Nil
    BY <1>5, FollowedSelected DEF Monitoring
  <2>3. /\ monitor' \in [conv : Conversations, n : Nat, latched : BOOLEAN,
                         stream : BOOLEAN]
        /\ monitor'.conv = monitor.conv /\ monitor'.n = monitor.n
    BY <2>1, <2>2
  <2>4. monitor' # Nil
    <3>1. Nil \notin [conv : Conversations, n : Nat, latched : BOOLEAN,
                      stream : BOOLEAN]
      BY RunMonitorAssumption
    <3>2. QED BY <2>3, <3>1, Zenon
  <2>5. MonitorOK'
    BY <1>1, <2>2, <2>3 DEF IInv, ViewOK, MonitorOK, Latest
  <2>6. \A j \in tasks' : j.kind \notin Ends
    BY <1>5, <2>1 DEF IInv, OnesOK, OneOf, Ends
  <2>7. AllFollow(tasks)'
    BY <2>1, <2>3, <2>4, <2>6 DEF IInv, AllFollow, Follows
  <2>8. QED BY <1>4, <2>1, <2>5, <2>7
<1>6. CASE k.kind \in {"send", "accepted"} /\ SelectionCurrent(k)
  <2>1. /\ tasks' = Reread(tasks \ {k}, Ask("resend", k.conv, Latest(k.conv)))
        /\ UNCHANGED monitor
    BY <1>6 DEF Fails
  <2>2. k.kind \in Commands /\ k.conv = sel
    BY <1>6 DEF Commands, Commanding, SelectionCurrent
  <2>3. QED BY <1>1, <1>2, <1>3, <2>1, <2>2, FollowUpStep
<1>7. CASE k.kind = "readback"
  <2>1. EndMonitoring
    BY <1>7 DEF Fails
  <2>2. QED BY <1>4, <1>7, <2>1, MonitorStops DEF Monitoring
<1>8. CASE k.kind = "sendback"
  <2>1. MonitorAfter(k)
    BY <1>8 DEF Fails
  <2>2. QED BY <1>1, <1>4, <2>1, MonitorAfterSend
<1>9. CASE /\ k.kind \notin {"finish", "readback", "sendback"}
           /\ ~(k.kind \in {"send", "accepted"} /\ SelectionCurrent(k))
  <2>1. tasks' = tasks \ {k} /\ UNCHANGED monitor
    BY <1>9 DEF Fails
  <2>2. AllFollow(tasks)' /\ MonitorOK'
    BY <1>1, <2>1, SameMonitor DEF IInv, AllFollow, Follows
  <2>3. QED BY <1>4, <2>1, <2>2
<1>10. QED BY <1>5, <1>6, <1>7, <1>8, <1>9

-----------------------------------------------------------------------------
(* The invariant, and what follows from it.                                *)

\* Every answer keeps the invariant.
LEMMA AnsweredStep ==
  ASSUME IInv, NEW k \in tasks, Answered(k)
  PROVE  IInv'
BY PollAnsweredStep, FinishAnsweredStep, RefreshAnsweredStep,
   ReadbackAnsweredStep, SendAnsweredStep, SendbackAnsweredStep,
   CancelAnsweredStep, RetryAnsweredStep DEF Answered

\* Every step keeps the invariant.
THEOREM NextIInv == IInv /\ [Next]_vars => IInv'
<1> SUFFICES ASSUME IInv, [Next]_vars PROVE IInv'
  OBVIOUS
<1>1. ASSUME NEW c \in Conversations, RunPauses(c) \/ RunSettles(c)
      PROVE  IInv'
  BY <1>1, RunPausesStep, RunSettlesStep
<1>2. ASSUME NEW c \in Conversations \cup {Nil}, Select(c) PROVE IInv'
  BY <1>2, SelectStep
<1>3. CASE ReadAgain \/ Effect \/ Poll \/ StreamTells
  BY <1>3, ReadAgainStep, EffectStep, PollStep, StreamTellsStep
<1>4. CASE Send \/ Cancel \/ Retry
  BY <1>4, SendStep, CancelStep, RetryStep
<1>5. ASSUME NEW k \in tasks, Answered(k) \/ Serve(k) \/ Fails(k) PROVE IInv'
  BY <1>5, AnsweredStep, ServeStep, FailsStep
<1>6. CASE UNCHANGED vars
  <2>1. /\ runs' = runs /\ UNCHANGED <<sel, session, shown, monitor>>
        /\ UNCHANGED <<effect, error, faults>> /\ tasks' = tasks
    BY <1>6 DEF vars, view
  <2>2. ShownOK' /\ RestOK'
    BY <2>1, SameShown DEF IInv, ViewOK, RestOK
  <2>3. QED BY <2>1, <2>2, FewerOK, TasksStep
<1>7. QED BY <1>1, <1>2, <1>3, <1>4, <1>5, <1>6 DEF Next

\* The invariant holds throughout.
THEOREM Invariance == Spec => []IInv
<1>1. QED BY InitIInv, NextIInv, PTL DEF Spec

\* A set any two members of which are the same has at most one.
LEMMA AtMostOne ==
  ASSUME NEW S, \A i, j \in S : i = j
  PROVE  Cardinality(S) <= 1
<1>1. CASE S = {}
  BY <1>1, FS_EmptySet
<1>2. CASE S # {}
  <2>1. PICK i : i \in S
    BY <1>2
  <2>2. S = {i}
    BY <2>1
  <2>3. Cardinality(S) = 1
    BY <2>2, FS_Singleton, Zenon
  <2>4. QED BY <2>3
<1>3. QED BY <1>1, <1>2

\* Every record keeps its shape and points into the server's log, the page
\* has one command at a time under way and one end of a run in hand.
THEOREM TypeCorrect == Spec => []TypeOK
<1>1. IInv => TypeOK
  <2> SUFFICES ASSUME IInv PROVE TypeOK
    OBVIOUS
  <2>1. runs \in [Conversations -> Seq(Seq({"active"} \cup Quiescent))]
    BY DEF IInv, LogOK, Statuses
  <2>2. /\ sel \in Conversations \cup {Nil} /\ effect \in BOOLEAN
        /\ error \in BOOLEAN /\ faults \in 0..MaxFaults
    BY DEF IInv, ViewOK, RestOK
  <2>3. /\ session # Nil => session.n = 0 \/ RunOf(session)
        /\ shown # Nil => RunOf(shown)
    BY DEF IInv, ViewOK, SessionOK, ShownOK
  <2>4. monitor # Nil => /\ monitor.n \in 1..Latest(monitor.conv)
                         /\ monitor.latched \in BOOLEAN
                         /\ monitor.stream \in BOOLEAN
    BY DEF IInv, ViewOK, MonitorOK
  <2>5. \A k \in tasks : k.kind \in Kinds /\ k.n \in 0..Latest(k.conv)
    BY DEF IInv, AllAim, Aims, Task
  <2>6. Cardinality({k \in tasks : k.kind \in Commands}) <= 1
    BY AtMostOne DEF IInv, OnesOK, OneOf
  <2>7. Cardinality({k \in tasks : k.kind \in {"finish", "readback"}}) <= 1
    BY AtMostOne DEF IInv, OnesOK, OneOf, Ends
  <2>8. QED BY <2>1, <2>2, <2>3, <2>4, <2>5, <2>6, <2>7 DEF TypeOK
<1>2. QED BY <1>1, Invariance, PTL

\* What is shown and followed belongs to what is selected, through any order
\* of selections, answers and failures.
THEOREM ShownBelongs == Spec => []ShownIsSelected
<1>1. IInv => ShownIsSelected
  BY DEF IInv, ViewOK, SessionOK, ShownOK, MonitorOK, ShownIsSelected
<1>2. QED BY <1>1, Invariance, PTL

\* Only a read that counts sets a session.
LEMMA SessionSteps ==
  ASSUME Next
  PROVE  \/ session' = session \/ session' = Nil
         \/ \E k \in tasks : RefreshAnswered(k) \/ ReadbackAnswered(k)
                             \/ SendbackAnswered(k)
<1>1. ASSUME NEW c \in Conversations, RunPauses(c) \/ RunSettles(c)
      PROVE  session' = session
  BY <1>1 DEF RunPauses, RunSettles, view
<1>2. ASSUME NEW c \in Conversations \cup {Nil}, Select(c)
      PROVE  session' = Nil
  BY <1>2 DEF Select
<1>3. CASE ReadAgain \/ Effect \/ Poll \/ StreamTells
  BY <1>3 DEF ReadAgain, Effect, Poll, StreamTells
<1>4. CASE Send \/ Cancel \/ Retry
  BY <1>4 DEF Send, Cancel, Retry, Command
<1>5. ASSUME NEW k \in tasks, Serve(k) \/ Fails(k) PROVE session' = session
  BY <1>5 DEF Serve, Fails
<1>6. ASSUME NEW k \in tasks,
             \/ PollAnswered(k) \/ FinishAnswered(k) \/ SendAnswered(k)
             \/ CancelAnswered(k) \/ RetryAnswered(k)
      PROVE  session' = session
  BY <1>6 DEF PollAnswered, FinishAnswered, SendAnswered, CancelAnswered,
              RetryAnswered
<1>7. QED BY <1>1, <1>2, <1>3, <1>4, <1>5, <1>6 DEF Next, Answered

\* Obsolete reads cannot override a newer session of the same conversation.
THEOREM SessionsOnlyAdvance == Spec => SessionNeverGoesBack
<1>1. IInv /\ [Next]_vars => Newer
  <2> SUFFICES ASSUME IInv, [Next]_vars PROVE Newer
    OBVIOUS
  <2>1. ASSUME session' = session \/ session' = Nil PROVE Newer
    <3>1. session # Nil => session.n \in Nat /\ session.at \in Nat
      BY DEF IInv, ViewOK, SessionOK, Sight
    <3>2. QED BY <2>1, <3>1 DEF Newer
  <2>2. ASSUME NEW k \in tasks,
               \/ RefreshAnswered(k) \/ ReadbackAnswered(k)
               \/ SendbackAnswered(k)
        PROVE  Newer
    BY <2>2, RefreshAnsweredStep, ReadbackAnsweredStep, SendbackAnsweredStep
  <2>3. CASE UNCHANGED vars
    BY <2>1, <2>3 DEF vars, view
  <2>4. QED BY <2>1, <2>2, <2>3, SessionSteps
<1>2. IInv /\ [Next]_vars =>
        [session # Nil /\ session' # Nil /\ session'.conv = session.conv =>
           \/ session'.n > session.n
           \/ session'.n = session.n /\ session'.at >= session.at]_vars
  BY <1>1 DEF Newer
<1>3. QED BY <1>2, Invariance, PTL DEF Spec, SessionNeverGoesBack

=============================================================================

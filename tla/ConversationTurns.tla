-------------------------- MODULE ConversationTurns --------------------------
(***************************************************************************)
(* What Agent Studio promises the person behind a conversation, with no    *)
(* workers, leases, attempts or crashes in sight: a turn is accepted into  *)
(* the transcript when nothing else is being answered there, is then       *)
(* answered at most once, or handed back for a Retry of the same input, or *)
(* given up, or cancelled because somebody asked for it; and the           *)
(* transcript is only ever appended to.                                    *)
(* RunLifecycle implements this specification.                             *)
(***************************************************************************)
EXTENDS Naturals, Sequences

CONSTANTS Conversations, RunIds, Nil

VARIABLES
  turn,       \* turn[r]: what is visible of run r
  transcript  \* transcript[c]: the messages of a conversation

vars == <<turn, transcript>>

Unknown == [state |-> "unknown", conv |-> Nil, withdrawn |-> FALSE]

\* A turn blocks its conversation while it is worked on or waits for Retry.
Unsettled == {"open", "waiting"}

Init ==
  /\ turn = [r \in RunIds |-> Unknown]
  /\ transcript = [c \in Conversations |-> <<>>]

Accept(c, r) ==
  /\ turn[r] = Unknown
  /\ \A q \in RunIds : turn[q].conv = c => turn[q].state \notin Unsettled
  /\ turn' = [turn EXCEPT ![r] = [state |-> "open", conv |-> c, withdrawn |-> FALSE]]
  /\ transcript' = [transcript EXCEPT
                      ![c] = Append(@, [run |-> r, role |-> "user"])]

\* The reply and the end of the turn are one step.
Answer(r) ==
  /\ turn[r].state = "open" /\ ~turn[r].withdrawn
  /\ turn' = [turn EXCEPT ![r].state = "answered"]
  /\ transcript' = [transcript EXCEPT
       ![turn[r].conv] = Append(@, [run |-> r, role |-> "assistant"])]

HandBack(r) ==
  /\ turn[r].state = "open" /\ ~turn[r].withdrawn
  /\ turn' = [turn EXCEPT ![r].state = "waiting"]
  /\ UNCHANGED transcript

\* Retry works on the saved input: the transcript does not change.
Resume(r) ==
  /\ turn[r].state = "waiting"
  /\ turn' = [turn EXCEPT ![r].state = "open"]
  /\ UNCHANGED transcript

GiveUp(r) ==
  /\ turn[r].state = "open" /\ ~turn[r].withdrawn
  /\ turn' = [turn EXCEPT ![r].state = "failed"]
  /\ UNCHANGED transcript

\* A cancel request may take effect at once, or later (TakeBack).
Withdraw(r) ==
  /\ turn[r].state \in Unsettled
  /\ \E s \in {turn[r].state, "cancelled"} :
       /\ s # "waiting"
       /\ turn' = [turn EXCEPT ![r] = [state |-> s, conv |-> @.conv, withdrawn |-> TRUE]]
  /\ UNCHANGED transcript

TakeBack(r) ==
  /\ turn[r].state = "open" /\ turn[r].withdrawn
  /\ turn' = [turn EXCEPT ![r].state = "cancelled"]
  /\ UNCHANGED transcript

Settle(r) == Answer(r) \/ HandBack(r) \/ GiveUp(r) \/ TakeBack(r)

Next ==
  \E r \in RunIds :
    \/ \E c \in Conversations : Accept(c, r)
    \/ Settle(r) \/ Resume(r) \/ Withdraw(r)

SafeSpec == Init /\ [][Next]_vars

\* No open turn is left open for ever.
Spec == SafeSpec /\ \A r \in RunIds : WF_vars(Settle(r))

=============================================================================

----------------------------- MODULE MessageFate -----------------------------
(***************************************************************************)
(* What the way of an event into the worker promises of every message.     *)
(* Its content never changes.  Its workflow is begun at most once, and     *)
(* only if it is an event.  It is settled, for good, only when a workflow  *)
(* was begun or a dead letter recorded.  A dead letter is claimed once,    *)
(* published again at most once and with the same content, while it is     *)
(* claimed, and is REPLAYED only if it was.                                *)
(***************************************************************************)
CONSTANTS Event, Transport, None

Forms == {"event", "payload", "envelope"}

VARIABLES
  content,  \* of each message: the event it names and what the schemas make of it
  standing, \* unsent, open with the broker, or settled
  work,     \* its workflow: none, begun or ended
  verdict,  \* on its dead letter
  from      \* the dead letter whose replay it is

fateVars == <<content, standing, work, verdict, from>>

Nothing == [event |-> None, form |-> "envelope"]

FateInit ==
  /\ content = [m \in Transport |-> Nothing]
  /\ standing = [m \in Transport |-> "unsent"]
  /\ work = [m \in Transport |-> "none"]
  /\ verdict = [m \in Transport |-> "NONE"]
  /\ from = [m \in Transport |-> None]

Opens(m, what) ==
  /\ standing[m] = "unsent"
  /\ standing' = [standing EXCEPT ![m] = "open"]
  /\ content' = [content EXCEPT ![m] = what]

Publish(m, what) == Opens(m, what) /\ UNCHANGED <<work, verdict, from>>

Begin(m) ==
  /\ standing[m] # "unsent" /\ content[m].form = "event"
  /\ work[m] = "none" /\ work' = [work EXCEPT ![m] = "begun"]
  /\ UNCHANGED <<content, standing, verdict, from>>

End(m) ==
  /\ work[m] = "begun" /\ work' = [work EXCEPT ![m] = "ended"]
  /\ UNCHANGED <<content, standing, verdict, from>>

\* The message is recorded as a dead letter, unless it is one.
Record(m) ==
  /\ standing[m] # "unsent"
  /\ verdict' = [verdict EXCEPT ![m] = IF @ = "NONE" THEN "AVAILABLE" ELSE @]
  /\ UNCHANGED <<content, work, from>>

Settle(m) == standing[m] = "open" /\ standing' = [standing EXCEPT ![m] = "settled"]

SettleBegun(m) == work[m] # "none" /\ Settle(m) /\ UNCHANGED <<content, work, verdict, from>>

SettleRecorded(m) == Record(m) /\ (Settle(m) \/ UNCHANGED standing)

Moves(m, old, new) ==
  /\ verdict[m] = old /\ verdict' = [verdict EXCEPT ![m] = new]
  /\ UNCHANGED <<content, standing, work, from>>

Claim(d) == Moves(d, "AVAILABLE", "REPLAYING")

Resend(d, m) ==
  /\ verdict[d] = "REPLAYING" /\ \A n \in Transport : from[n] # d
  /\ Opens(m, content[d])
  /\ from' = [from EXCEPT ![m] = d]
  /\ UNCHANGED <<work, verdict>>

Confirm(d) == (\E m \in Transport : from[m] = d) /\ Moves(d, "REPLAYING", "REPLAYED")

\* Whether it was published again is for a person to find out.
Doubt(d) == Moves(d, "REPLAYING", "REVIEW_REQUIRED")

FateNext == \E m \in Transport :
  \/ \E what \in [event : Event \cup {None}, form : Forms] : Publish(m, what)
  \/ Begin(m) \/ End(m) \/ SettleBegun(m) \/ SettleRecorded(m)
  \/ Claim(m) \/ Confirm(m) \/ Doubt(m)
  \/ \E d \in Transport : Resend(d, m)

FateSpec == FateInit /\ [][FateNext]_fateVars
=============================================================================

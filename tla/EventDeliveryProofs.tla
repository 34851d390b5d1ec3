------------------------- MODULE EventDeliveryProofs -------------------------
(***************************************************************************)
(* What EventDelivery keeps, for every number of events, messages, pushes  *)
(* and replay requests, and whatever fails.                                *)
(***************************************************************************)
EXTENDS EventDelivery, TLAPS

\* Nothing is known of a message that was not sent, and what is known has a cause.
MessageShape ==
  \A m \in Transport :
    /\ message[m].place = "unsent" =>
         progress[m] = "none" /\ letter[m].status = "NONE" /\ message[m].from = None
    /\ message[m].from \in Transport => letter[message[m].from].status \in Claimed

\* A push at work has written the receipt, and nobody else works on the message.
PushShape ==
  \A p \in Push :
    /\ push[p].pc # "idle" =>
         push[p].msg \in Transport /\ message[push[p].msg].place # "unsent"
    /\ push[p].pc \in {"received", "working", "reporting"} =>
         message[push[p].msg].form = "event" /\ push[p].sub = "topic"
    /\ push[p].pc = "working" => progress[push[p].msg] = "accepted"
    /\ push[p].pc = "reporting" => progress[push[p].msg] \in {"worked", "reported"}

OneWorker ==
  \A p, q \in Push :
    InWorkflow(p) /\ InWorkflow(q) /\ push[p].msg = push[q].msg => p = q

\* A request holds the claim from its success until the request ends.
HoldsClaim(r) == replay[r].pc \in {"publish", "complete", "fail"}

ReplayShape ==
  \A r \in Replay :
    /\ replay[r].pc # "idle" =>
         replay[r].id \in Transport /\ letter[replay[r].id].status # "NONE"
    /\ replay[r].pc \in {"publish", "complete"} =>
         letter[replay[r].id].status = "REPLAYING"
    /\ replay[r].pc = "fail" => letter[replay[r].id].status \in Claimed
    /\ replay[r].pc = "publish" => \A m \in Transport : message[m].from # replay[r].id
    /\ replay[r].pc = "complete" =>
         /\ replay[r].sent \in Transport
         /\ message[replay[r].sent].from = replay[r].id
         /\ message[replay[r].sent].event = message[replay[r].id].event

OneClaim ==
  \A q, r \in Replay :
    HoldsClaim(q) /\ HoldsClaim(r) /\ replay[q].id = replay[r].id => q = r

OneCopy ==
  \A m, n \in Transport : message[m].from # None /\ message[m].from = message[n].from => m = n

DeliveryInv ==
  /\ TypeOK
  /\ MessageShape
  /\ PushShape
  /\ OneWorker
  /\ ReplayShape
  /\ OneClaim
  /\ OneCopy
  /\ AckedIsRecorded
  /\ LetterTellsTruth

-----------------------------------------------------------------------------
(* Steps that leave the content of the messages alone. *)

SameContent ==
  \A m \in Transport :
    /\ message'[m].event = message[m].event
    /\ message'[m].form = message[m].form
    /\ message'[m].from = message[m].from
    /\ (message'[m].place = "unsent" <=> message[m].place = "unsent")

\* Another place, for a message that was sent.
LEMMA Moved ==
  ASSUME TypeOK, NEW m \in Transport, NEW place \in Places,
         (message[m].place = "unsent") = (place = "unsent"),
         message' = [message EXCEPT ![m].place = place]
  PROVE  /\ message' \in [Transport -> Messages]
         /\ SameContent
         /\ message'[m].place = place
         /\ \A n \in Transport : n # m => message'[n] = message[n]
<1>1. message[m] \in Messages
  BY DEF TypeOK
<1>2. [message[m] EXCEPT !.place = place] \in Messages
  BY <1>1 DEF Messages
<1>3. message'[m] = [message[m] EXCEPT !.place = place]
  BY DEF TypeOK
<1>4. \A n \in Transport : n # m => message'[n] = message[n]
  BY DEF TypeOK
<1>5. message' \in [Transport -> Messages]
  BY <1>2 DEF TypeOK
<1>6. /\ message'[m].place = place /\ message'[m].event = message[m].event
      /\ message'[m].form = message[m].form /\ message'[m].from = message[m].from
  BY <1>1, <1>3 DEF Messages
<1> QED
  BY <1>4, <1>5, <1>6 DEF SameContent

\* One delivery more.
LEMMA Counted ==
  ASSUME TypeOK, NEW m \in Transport, message[m].tries < MaxDeliveries,
         message' = [message EXCEPT ![m].tries = @ + 1]
  PROVE  /\ message' \in [Transport -> Messages]
         /\ SameContent
         /\ \A n \in Transport : message'[n].place = message[n].place
<1>1. message[m] \in Messages
  BY DEF TypeOK
<1>2. message[m].tries + 1 \in 0 .. MaxDeliveries
  BY <1>1, BoundsAssumption DEF Messages
<1>3. [message[m] EXCEPT !.tries = @ + 1] \in Messages
  BY <1>1, <1>2 DEF Messages
<1>4. message'[m] = [message[m] EXCEPT !.tries = @ + 1]
  BY DEF TypeOK
<1>5. \A n \in Transport : n # m => message'[n] = message[n]
  BY DEF TypeOK
<1>6. message' \in [Transport -> Messages]
  BY <1>3 DEF TypeOK
<1>7. /\ message'[m].place = message[m].place /\ message'[m].event = message[m].event
      /\ message'[m].form = message[m].form /\ message'[m].from = message[m].from
  BY <1>1, <1>4 DEF Messages
<1> QED
  BY <1>5, <1>6, <1>7 DEF SameContent

\* Parts of the invariant that such a step keeps when the database stands still.
LEMMA ContentKeeps ==
  ASSUME DeliveryInv, SameContent
  PROVE  /\ progress' = progress /\ letter' = letter => MessageShape'
         /\ progress' = progress /\ push' = push => PushShape'
         /\ replay' = replay /\ letter' = letter => ReplayShape'
         /\ OneCopy'
         /\ letter' = letter => LetterTellsTruth'
<1>1. progress' = progress /\ letter' = letter => MessageShape'
  BY DEF DeliveryInv, MessageShape, SameContent
<1>2. progress' = progress /\ push' = push => PushShape'
  BY DEF DeliveryInv, PushShape, SameContent
<1>3. replay' = replay /\ letter' = letter => ReplayShape'
  BY DEF DeliveryInv, ReplayShape, SameContent
<1>4. OneCopy'
  BY DEF DeliveryInv, OneCopy, SameContent
<1>5. letter' = letter => LetterTellsTruth'
  BY DEF DeliveryInv, LetterTellsTruth, SameContent
<1> QED
  BY <1>1, <1>2, <1>3, <1>4, <1>5

-----------------------------------------------------------------------------
(* Publishers and the broker. *)

LEMMA CreateScenarioKeeps ==
  ASSUME DeliveryInv, NEW e \in Event, CreateScenario(e)
  PROVE  DeliveryInv'
<1>1. TypeOK'
  BY DEF DeliveryInv, TypeOK, CreateScenario
<1>2. SameContent
  BY DEF CreateScenario, SameContent
<1>3. OneWorker' /\ OneClaim' /\ AckedIsRecorded'
  BY DEF DeliveryInv, CreateScenario, OneWorker, InWorkflow, OneClaim, HoldsClaim, AckedIsRecorded
<1> QED
  BY <1>1, <1>2, <1>3, ContentKeeps DEF DeliveryInv, CreateScenario

\* A message that is new, and if it is a replay, the first one of its letter.
LEMMA SendKeeps ==
  ASSUME DeliveryInv, NEW m \in Transport, NEW e \in Event \cup {None}, NEW form \in Forms,
         NEW from \in Transport \cup {None}, Send(m, e, form, from),
         from \in Transport =>
           /\ letter[from].status = "REPLAYING"
           /\ \A n \in Transport : message[n].from # from,
         progress' = progress, letter' = letter, push' = push
  PROVE  /\ message' \in [Transport -> Messages]
         /\ MessageShape' /\ PushShape' /\ OneCopy' /\ AckedIsRecorded' /\ LetterTellsTruth'
         /\ \A n \in Transport : n # m => message'[n] = message[n]
         /\ message'[m].from = from /\ message'[m].event = e
         /\ message[m].from = None
<1> DEFINE new == [event |-> e, form |-> form, place |-> "topic", tries |-> 0, from |-> from]
<1>1. new \in Messages
  BY BoundsAssumption DEF Messages, Places
<1>2. message[m].place = "unsent" /\ message[m].from = None
  BY DEF DeliveryInv, MessageShape, Send
<1>3. /\ message'[m] = new
      /\ \A n \in Transport : n # m => message'[n] = message[n]
      /\ message' \in [Transport -> Messages]
  BY <1>1 DEF Send, DeliveryInv, TypeOK
<1>4. /\ message'[m].place = "topic" /\ message'[m].from = from /\ message'[m].event = e
  BY <1>3
<1> HIDE DEF new
<1>5. MessageShape'
  BY <1>3, <1>4 DEF DeliveryInv, MessageShape, Claimed
<1>6. PushShape'
  BY <1>2, <1>3, <1>4 DEF DeliveryInv, PushShape
<1>7. OneCopy'
  BY <1>3, <1>4, NoneAssumption DEF DeliveryInv, OneCopy
<1>8. AckedIsRecorded'
  BY <1>3, <1>4 DEF DeliveryInv, AckedIsRecorded
<1>9. LetterTellsTruth'
  <2> SUFFICES ASSUME NEW d \in Transport
               PROVE  /\ letter[d].status \in {"NONE", "AVAILABLE"} =>
                           \A n \in Transport : message'[n].from # d
                      /\ letter[d].status = "REPLAYED" =>
                           /\ letter[d].sent \in Transport
                           /\ message'[letter[d].sent].from = d
                           /\ message'[letter[d].sent].event = message'[d].event
    BY DEF LetterTellsTruth
  <2>1. ASSUME letter[d].status \in {"NONE", "AVAILABLE"}, NEW n \in Transport
        PROVE  message'[n].from # d
    <3>1. message[n].from # d
      BY <2>1 DEF DeliveryInv, LetterTellsTruth
    <3>2. from # d
      BY <2>1
    <3> QED
      BY <3>1, <3>2, <1>3, <1>4
  <2>2. ASSUME letter[d].status = "REPLAYED"
        PROVE  /\ letter[d].sent \in Transport
               /\ message'[letter[d].sent].from = d
               /\ message'[letter[d].sent].event = message'[d].event
    <3>1. /\ letter[d].sent \in Transport /\ message[letter[d].sent].from = d
          /\ message[letter[d].sent].event = message[d].event
      BY <2>2 DEF DeliveryInv, LetterTellsTruth
    <3>2. letter[d].sent # m
      BY <3>1, <1>2, NoneAssumption
    <3>3. d # m
      BY <2>2, <1>2 DEF DeliveryInv, MessageShape
    <3> QED
      BY <3>1, <3>2, <3>3, <1>3
  <2> QED
    BY <2>1, <2>2
<1> QED
  BY <1>2, <1>3, <1>4, <1>5, <1>6, <1>7, <1>8, <1>9

\* The claims do not notice a message that replays nothing.
LEMMA SendKeepsReplays ==
  ASSUME DeliveryInv, NEW m \in Transport, message[m].place = "unsent",
         message[m].from = None, message'[m].from = None,
         \A n \in Transport : n # m => message'[n] = message[n],
         letter' = letter, replay' = replay
  PROVE  ReplayShape'
<1>1. \A r \in Replay : replay[r].pc # "idle" => replay[r].id # m
  BY DEF DeliveryInv, ReplayShape, MessageShape
<1>2. \A r \in Replay : replay[r].pc = "complete" => replay[r].sent # m
  BY NoneAssumption DEF DeliveryInv, ReplayShape
<1>3. \A r \in Replay : replay[r].pc = "publish" =>
        \A n \in Transport : message'[n].from # replay[r].id
  BY NoneAssumption DEF DeliveryInv, ReplayShape
<1> QED
  BY <1>1, <1>2, <1>3 DEF DeliveryInv, ReplayShape

LEMMA PublishKeeps ==
  ASSUME DeliveryInv, NEW m \in Transport, NEW e \in Event \cup {None}, NEW form \in Forms,
         Send(m, e, form, None),
         UNCHANGED <<events, progress, letter, push, replay, faults>>
  PROVE  DeliveryInv'
<1>1. /\ message' \in [Transport -> Messages]
      /\ MessageShape' /\ PushShape' /\ OneCopy' /\ AckedIsRecorded' /\ LetterTellsTruth'
      /\ \A n \in Transport : n # m => message'[n] = message[n]
      /\ message'[m].from = None /\ message[m].from = None
  BY SendKeeps, NoneAssumption
<1>2. TypeOK'
  BY <1>1 DEF DeliveryInv, TypeOK
<1>3. ReplayShape'
  BY <1>1, SendKeepsReplays DEF Send
<1>4. OneWorker' /\ OneClaim'
  BY DEF DeliveryInv, OneWorker, InWorkflow, OneClaim, HoldsClaim
<1> QED
  BY <1>1, <1>2, <1>3, <1>4 DEF DeliveryInv

LEMMA DeliverKeeps ==
  ASSUME DeliveryInv, NEW p \in Push, NEW m \in Transport, Deliver(p, m)
  PROVE  DeliveryInv'
<1>1. /\ message' \in [Transport -> Messages] /\ SameContent
      /\ \A n \in Transport : message'[n].place = message[n].place
  BY Counted DEF DeliveryInv, Deliver
<1>2. TypeOK'
  BY <1>1 DEF DeliveryInv, TypeOK, Deliver
<1>3. PushShape'
  BY <1>1 DEF DeliveryInv, TypeOK, PushShape, Deliver, SameContent
<1>4. OneWorker'
  BY DEF DeliveryInv, TypeOK, OneWorker, InWorkflow, Deliver
<1>5. OneClaim'
  BY DEF DeliveryInv, OneClaim, HoldsClaim, Deliver
<1>6. AckedIsRecorded'
  BY <1>1 DEF DeliveryInv, AckedIsRecorded, SameContent, Deliver
<1> QED
  BY <1>1, <1>2, <1>3, <1>4, <1>5, <1>6, ContentKeeps DEF DeliveryInv, Deliver

LEMMA ForwardKeeps ==
  ASSUME DeliveryInv, NEW m \in Transport, Forward(m)
  PROVE  DeliveryInv'
<1>1. /\ message' \in [Transport -> Messages] /\ SameContent
      /\ message'[m].place = "dead"
      /\ \A n \in Transport : n # m => message'[n] = message[n]
  BY Moved DEF DeliveryInv, Forward, Places
<1>2. TypeOK'
  BY <1>1 DEF DeliveryInv, TypeOK, Forward
<1>3. OneWorker' /\ OneClaim'
  BY DEF DeliveryInv, OneWorker, InWorkflow, OneClaim, HoldsClaim, Forward
<1>4. AckedIsRecorded'
  BY <1>1 DEF DeliveryInv, AckedIsRecorded, Forward
<1> QED
  BY <1>1, <1>2, <1>3, <1>4, ContentKeeps DEF DeliveryInv, Forward

LEMMA DeliverDeadKeeps ==
  ASSUME DeliveryInv, NEW p \in Push, NEW m \in Transport, DeliverDead(p, m)
  PROVE  DeliveryInv'
<1>1. SameContent
  BY DEF DeliverDead, SameContent
<1>2. TypeOK'
  BY DEF DeliveryInv, TypeOK, DeliverDead
<1>3. PushShape'
  BY DEF DeliveryInv, TypeOK, PushShape, DeliverDead
<1>4. OneWorker'
  BY DEF DeliveryInv, TypeOK, OneWorker, InWorkflow, DeliverDead
<1>5. OneClaim' /\ AckedIsRecorded'
  BY DEF DeliveryInv, OneClaim, HoldsClaim, AckedIsRecorded, DeliverDead
<1> QED
  BY <1>1, <1>2, <1>3, <1>4, <1>5, ContentKeeps DEF DeliveryInv, DeliverDead

-----------------------------------------------------------------------------
(* The push handler. *)

LEMMA Answered ==
  ASSUME DeliveryInv, NEW p \in Push, push[p].pc # "idle", Answer(p)
  PROVE  /\ message' \in [Transport -> Messages] /\ SameContent
         /\ faults' \in 0 .. MaxFaults
         /\ \A m \in Transport : m # push[p].msg => message'[m] = message[m]
<1> DEFINE m == push[p].msg
           place == IF message[m].place = push[p].sub THEN "acked" ELSE message[m].place
<1>1. m \in Transport /\ message[m].place # "unsent"
  BY DEF DeliveryInv, PushShape
<1>2. message[m].place \in Places
  BY <1>1 DEF DeliveryInv, TypeOK, Messages
<1>3. place \in Places /\ place # "unsent"
  BY <1>1, <1>2 DEF Places
<1>4. CASE Ack(p) /\ UNCHANGED faults
  <2>1. message' = [message EXCEPT ![m].place = place]
    BY <1>4 DEF Ack
  <2> HIDE DEF place
  <2> QED
    BY <1>1, <1>3, <1>4, <2>1, Moved DEF DeliveryInv, TypeOK
<1>5. CASE Fault /\ UNCHANGED message
  BY <1>5, BoundsAssumption DEF Fault, DeliveryInv, TypeOK, SameContent
<1> QED
  BY <1>4, <1>5 DEF Answer

\* A push ends; of its message it may have noted that the workflow went on.
LEMMA DoneKeeps ==
  ASSUME DeliveryInv, NEW p \in Push, Done(p), SameContent,
         \A m \in Transport :
           \/ progress'[m] = progress[m]
           \/ InWorkflow(p) /\ m = push[p].msg /\ progress'[m] # "none"
  PROVE  /\ push' \in [Push -> [pc : {"idle", "received", "working", "reporting", "quarantine"},
                                msg : Transport \cup {None}, sub : {"topic", "dead"}]]
         /\ PushShape' /\ OneWorker'
<1>1. /\ push'[p].pc = "idle"
      /\ \A q \in Push : q # p => push'[q] = push[q]
      /\ push' \in [Push -> [pc : {"idle", "received", "working", "reporting", "quarantine"},
                             msg : Transport \cup {None}, sub : {"topic", "dead"}]]
  BY DEF DeliveryInv, TypeOK, Done, IdlePush
<1>2. OneWorker'
  BY <1>1 DEF DeliveryInv, OneWorker, InWorkflow
<1>3. ASSUME NEW q \in Push, InWorkflow(q), q # p
      PROVE  progress'[push[q].msg] = progress[push[q].msg]
  BY <1>3 DEF DeliveryInv, OneWorker, PushShape, InWorkflow
<1>4. PushShape'
  BY <1>1, <1>3 DEF DeliveryInv, PushShape, InWorkflow, SameContent
<1> QED
  BY <1>1, <1>2, <1>4

\* An answer is a receipt, once the message is recorded.
LEMMA AnswerKeepsRecords ==
  ASSUME DeliveryInv, NEW p \in Push, push[p].pc # "idle", Answer(p),
         \A m \in Transport : progress[m] # "none" => progress'[m] # "none",
         \A m \in Transport : letter[m].status # "NONE" => letter'[m].status # "NONE",
         \/ message[push[p].msg].form = "event" /\ progress'[push[p].msg] # "none"
         \/ letter'[push[p].msg].status # "NONE"
  PROVE  AckedIsRecorded'
BY Answered DEF DeliveryInv, AckedIsRecorded, SameContent

\* A push that nobody shares its message with may go on with it.
LEMMA StaysAlone ==
  ASSUME OneWorker, NEW p \in Push, push'[p].msg = push[p].msg,
         \A q \in Push : q # p => push'[q] = push[q],
         \A q \in Push : InWorkflow(q) /\ q # p => push[q].msg # push[p].msg
  PROVE  OneWorker'
<1> SUFFICES ASSUME NEW q \in Push, NEW r \in Push, InWorkflow(q)', InWorkflow(r)',
                    push'[q].msg = push'[r].msg
             PROVE  q = r
  BY DEF OneWorker
<1>1. \A v \in Push : v # p => InWorkflow(v)' = InWorkflow(v)
  BY DEF InWorkflow
<1>2. CASE q = p
  BY <1>1, <1>2
<1>3. CASE r = p
  BY <1>1, <1>3
<1>4. CASE q # p /\ r # p
  BY <1>1, <1>4 DEF OneWorker
<1> QED
  BY <1>2, <1>3, <1>4

LEMMA AcceptKeeps ==
  ASSUME DeliveryInv, NEW p \in Push, Accept(p)
  PROVE  DeliveryInv'
<1> DEFINE m == push[p].msg
<1>1. m \in Transport /\ message[m].place # "unsent" /\ message[m].form = "event" /\ push[p].sub = "topic"
  BY DEF DeliveryInv, PushShape, Accept
<1>2. /\ progress'[m] = "accepted" /\ progress[m] = "none"
      /\ \A n \in Transport : n # m => progress'[n] = progress[n]
      /\ progress' \in [Transport -> {"none", "accepted", "worked", "reported"}]
  BY <1>1 DEF Accept, DeliveryInv, TypeOK
<1>3. push[p] \in [pc : {"idle", "received", "working", "reporting", "quarantine"},
                   msg : Transport \cup {None}, sub : {"topic", "dead"}]
  BY DEF DeliveryInv, TypeOK
<1>4. /\ push'[p] = [push[p] EXCEPT !.pc = "working"]
      /\ \A q \in Push : q # p => push'[q] = push[q]
  BY DEF Accept, DeliveryInv, TypeOK
<1>5. push'[p].pc = "working" /\ push'[p].msg = m /\ push'[p].sub = push[p].sub
  BY <1>3, <1>4
<1>6. TypeOK'
  <2>1. push' \in [Push -> [pc : {"idle", "received", "working", "reporting", "quarantine"},
                            msg : Transport \cup {None}, sub : {"topic", "dead"}]]
    BY <1>3 DEF Accept, DeliveryInv, TypeOK
  <2> QED
    BY <1>2, <2>1 DEF DeliveryInv, TypeOK, Accept
<1>7. \A q \in Push : InWorkflow(q) => push[q].msg # m
  BY <1>2 DEF DeliveryInv, PushShape, InWorkflow
<1>8. PushShape'
  BY <1>1, <1>2, <1>4, <1>5, <1>7 DEF DeliveryInv, PushShape, InWorkflow, Accept
<1>9. OneWorker'
  BY <1>4, <1>5, <1>7, StaysAlone DEF DeliveryInv
<1>10. MessageShape' /\ AckedIsRecorded'
  BY <1>1, <1>2 DEF DeliveryInv, MessageShape, AckedIsRecorded, Accept
<1>11. OneClaim'
  BY DEF DeliveryInv, OneClaim, HoldsClaim, Accept
<1>12. SameContent
  BY DEF SameContent, Accept
<1> QED
  BY <1>6, <1>8, <1>9, <1>10, <1>11, <1>12, ContentKeeps DEF DeliveryInv, Accept

LEMMA SkipDuplicateKeeps ==
  ASSUME DeliveryInv, NEW p \in Push, SkipDuplicate(p)
  PROVE  DeliveryInv'
<1>1. /\ message' \in [Transport -> Messages] /\ SameContent /\ faults' \in 0 .. MaxFaults
  BY Answered DEF SkipDuplicate
<1>2. /\ push' \in [Push -> [pc : {"idle", "received", "working", "reporting", "quarantine"},
                             msg : Transport \cup {None}, sub : {"topic", "dead"}]]
      /\ PushShape' /\ OneWorker'
  BY <1>1, DoneKeeps DEF SkipDuplicate, Answer
<1>3. TypeOK'
  BY <1>1, <1>2 DEF DeliveryInv, TypeOK, SkipDuplicate
<1>4. AckedIsRecorded'
  BY AnswerKeepsRecords DEF DeliveryInv, PushShape, SkipDuplicate
<1>5. OneClaim'
  BY DEF DeliveryInv, OneClaim, HoldsClaim, SkipDuplicate
<1> QED
  BY <1>1, <1>2, <1>3, <1>4, <1>5, ContentKeeps DEF DeliveryInv, SkipDuplicate

LEMMA WorkKeeps ==
  ASSUME DeliveryInv, NEW p \in Push, Work(p)
  PROVE  DeliveryInv'
<1> DEFINE m == push[p].msg
<1>1. m \in Transport /\ message[m].place # "unsent" /\ message[m].form = "event" /\ push[p].sub = "topic"
  BY DEF DeliveryInv, PushShape, Work
<1>2. /\ progress'[m] = "worked"
      /\ \A n \in Transport : n # m => progress'[n] = progress[n]
      /\ progress' \in [Transport -> {"none", "accepted", "worked", "reported"}]
  BY <1>1 DEF Work, DeliveryInv, TypeOK
<1>3. push[p] \in [pc : {"idle", "received", "working", "reporting", "quarantine"},
                   msg : Transport \cup {None}, sub : {"topic", "dead"}]
  BY DEF DeliveryInv, TypeOK
<1>4. /\ push'[p] = [push[p] EXCEPT !.pc = "reporting"]
      /\ \A q \in Push : q # p => push'[q] = push[q]
  BY DEF Work, DeliveryInv, TypeOK
<1>5. push'[p].pc = "reporting" /\ push'[p].msg = m /\ push'[p].sub = push[p].sub
  BY <1>3, <1>4
<1>6. TypeOK'
  <2>1. push' \in [Push -> [pc : {"idle", "received", "working", "reporting", "quarantine"},
                            msg : Transport \cup {None}, sub : {"topic", "dead"}]]
    BY <1>3 DEF Work, DeliveryInv, TypeOK
  <2> QED
    BY <1>2, <2>1 DEF DeliveryInv, TypeOK, Work
<1>7. \A q \in Push : InWorkflow(q) /\ q # p => push[q].msg # m
  BY DEF DeliveryInv, OneWorker, InWorkflow, Work
<1>8. PushShape'
  BY <1>1, <1>2, <1>4, <1>5, <1>7 DEF DeliveryInv, PushShape, InWorkflow, Work
<1>9. OneWorker'
  BY <1>4, <1>5, <1>7, StaysAlone DEF DeliveryInv
<1>10. MessageShape' /\ AckedIsRecorded'
  BY <1>1, <1>2 DEF DeliveryInv, MessageShape, AckedIsRecorded, Work
<1>11. OneClaim'
  BY DEF DeliveryInv, OneClaim, HoldsClaim, Work
<1>12. SameContent
  BY DEF SameContent, Work
<1> QED
  BY <1>6, <1>8, <1>9, <1>10, <1>11, <1>12, ContentKeeps DEF DeliveryInv, Work

LEMMA ReportKeeps ==
  ASSUME DeliveryInv, NEW p \in Push, Report(p)
  PROVE  DeliveryInv'
<1> DEFINE m == push[p].msg
<1>1. m \in Transport /\ message[m].place # "unsent" /\ message[m].form = "event"
  BY DEF DeliveryInv, PushShape, Report
<1>2. /\ progress'[m] = "reported"
      /\ \A n \in Transport : n # m => progress'[n] = progress[n]
      /\ progress' \in [Transport -> {"none", "accepted", "worked", "reported"}]
  BY <1>1 DEF Report, DeliveryInv, TypeOK
<1>3. /\ message' \in [Transport -> Messages] /\ SameContent /\ faults' \in 0 .. MaxFaults
  BY Answered DEF Report
<1>4. /\ push' \in [Push -> [pc : {"idle", "received", "working", "reporting", "quarantine"},
                             msg : Transport \cup {None}, sub : {"topic", "dead"}]]
      /\ PushShape' /\ OneWorker'
  BY <1>1, <1>2, <1>3, DoneKeeps DEF Report, Answer, InWorkflow
<1>5. TypeOK'
  BY <1>2, <1>3, <1>4 DEF DeliveryInv, TypeOK, Report
<1>6. AckedIsRecorded'
  BY <1>1, <1>2, AnswerKeepsRecords DEF Report
<1>7. MessageShape'
  BY <1>1, <1>2, <1>3 DEF DeliveryInv, MessageShape, SameContent, Report
<1>8. OneClaim'
  BY DEF DeliveryInv, OneClaim, HoldsClaim, Report
<1> QED
  BY <1>3, <1>4, <1>5, <1>6, <1>7, <1>8, ContentKeeps DEF DeliveryInv, Report

LEMMA PushFailsKeeps ==
  ASSUME DeliveryInv, NEW p \in Push, PushFails(p)
  PROVE  DeliveryInv'
<1>1. SameContent
  BY DEF PushFails, SameContent
<1>2. /\ push' \in [Push -> [pc : {"idle", "received", "working", "reporting", "quarantine"},
                             msg : Transport \cup {None}, sub : {"topic", "dead"}]]
      /\ PushShape' /\ OneWorker'
  BY <1>1, DoneKeeps DEF PushFails
<1>3. TypeOK'
  BY <1>2, BoundsAssumption DEF DeliveryInv, TypeOK, PushFails, Fault
<1>4. OneClaim' /\ AckedIsRecorded'
  BY DEF DeliveryInv, OneClaim, HoldsClaim, AckedIsRecorded, PushFails
<1> QED
  BY <1>1, <1>2, <1>3, <1>4, ContentKeeps DEF DeliveryInv, PushFails

\* The record is made, unless there is one.
LEMMA Stored ==
  ASSUME DeliveryInv, NEW m \in Transport, Store(m)
  PROVE  /\ letter' \in [Transport -> Letters]
         /\ \A n \in Transport : n # m \/ letter[n].status # "NONE" => letter'[n] = letter[n]
         /\ letter[m].status = "NONE" => letter'[m].status = "AVAILABLE"
         /\ letter'[m].status # "NONE"
<1> DEFINE new == [status |-> "AVAILABLE", sent |-> None]
<1>1. new \in Letters
  BY DEF Letters
<1>2. /\ letter'[m] = IF letter[m].status = "NONE" THEN new ELSE letter[m]
      /\ \A n \in Transport : n # m => letter'[n] = letter[n]
  BY DEF Store, DeliveryInv, TypeOK
<1>3. letter' \in [Transport -> Letters]
  BY <1>1 DEF Store, DeliveryInv, TypeOK
<1> QED
  BY <1>2, <1>3

LEMMA QuarantineKeeps ==
  ASSUME DeliveryInv, NEW p \in Push, Quarantine(p)
  PROVE  DeliveryInv'
<1> DEFINE m == push[p].msg
<1>1. m \in Transport /\ message[m].place # "unsent"
  BY DEF DeliveryInv, PushShape, Quarantine
<1>2. OneClaim'
  BY DEF DeliveryInv, OneClaim, HoldsClaim, Quarantine
<1>3. CASE Recordable(p)
  <2>1. Store(m) /\ Answer(p) /\ push[p].pc # "idle"
    BY <1>3 DEF Quarantine
  <2>2. /\ letter' \in [Transport -> Letters]
        /\ \A n \in Transport : n # m \/ letter[n].status # "NONE" => letter'[n] = letter[n]
        /\ letter[m].status = "NONE" => letter'[m].status = "AVAILABLE"
        /\ letter'[m].status # "NONE"
    BY <1>1, <2>1, Stored
  <2>3. /\ message' \in [Transport -> Messages] /\ SameContent /\ faults' \in 0 .. MaxFaults
    BY <2>1, Answered
  <2>4. /\ push' \in [Push -> [pc : {"idle", "received", "working", "reporting", "quarantine"},
                               msg : Transport \cup {None}, sub : {"topic", "dead"}]]
        /\ PushShape' /\ OneWorker'
    BY <2>1, <2>3, DoneKeeps DEF Quarantine, Answer
  <2>5. TypeOK'
    BY <2>2, <2>3, <2>4 DEF DeliveryInv, TypeOK, Quarantine
  <2>6. AckedIsRecorded'
    BY <2>1, <2>2, AnswerKeepsRecords DEF Quarantine
  <2>7. MessageShape'
    BY <1>1, <2>2, <2>3 DEF DeliveryInv, MessageShape, SameContent, Claimed, Quarantine
  <2>8. ReplayShape'
    BY <1>1, <2>2, <2>3 DEF DeliveryInv, ReplayShape, SameContent, Claimed, Quarantine
  <2>9. LetterTellsTruth'
    BY <1>1, <2>2, <2>3 DEF DeliveryInv, LetterTellsTruth, SameContent
  <2> QED
    BY <1>2, <2>3, <2>4, <2>5, <2>6, <2>7, <2>8, <2>9, ContentKeeps DEF DeliveryInv
<1>4. CASE ~Recordable(p)
  <2>1. Done(p) /\ UNCHANGED <<events, message, progress, letter, replay, faults>>
    BY <1>4 DEF Quarantine
  <2>2. SameContent
    BY <2>1 DEF SameContent
  <2>3. /\ push' \in [Push -> [pc : {"idle", "received", "working", "reporting", "quarantine"},
                               msg : Transport \cup {None}, sub : {"topic", "dead"}]]
        /\ PushShape' /\ OneWorker'
    BY <2>1, <2>2, DoneKeeps
  <2>4. TypeOK' /\ AckedIsRecorded'
    BY <2>1, <2>3 DEF DeliveryInv, TypeOK, AckedIsRecorded
  <2> QED
    BY <1>2, <2>1, <2>2, <2>3, <2>4, ContentKeeps DEF DeliveryInv
<1> QED
  BY <1>3, <1>4

-----------------------------------------------------------------------------
(* Replays. *)

Replays == [pc : {"idle", "claim", "publish", "complete", "fail"},
            id : Transport \cup {None}, sent : Transport \cup {None}]

Moves(r, new) == replay' = [replay EXCEPT ![r] = new]
Writes(d, record) == letter' = [letter EXCEPT ![d] = record]

\* A request goes on or ends: what it may take for granted is given.
LEMMA RequestKeeps ==
  ASSUME DeliveryInv, NEW r \in Replay, NEW new \in Replays,
         Moves(r, new),
         UNCHANGED <<events, message, progress, letter, push>>,
         faults' \in 0 .. MaxFaults,
         new.pc \in {"idle", "claim", "fail"},
         new.pc # "idle" => new.id \in Transport /\ letter[new.id].status # "NONE",
         new.pc = "fail" =>
           HoldsClaim(r) /\ new.id = replay[r].id /\ letter[new.id].status \in Claimed
  PROVE  DeliveryInv'
<1>1. /\ replay'[r] = new
      /\ \A q \in Replay : q # r => replay'[q] = replay[q]
      /\ replay' \in [Replay -> Replays]
  BY DEF DeliveryInv, TypeOK, Replays, Moves
<1>2. SameContent
  BY DEF SameContent
<1>3. TypeOK'
  BY <1>1 DEF DeliveryInv, TypeOK, Replays
<1>4. OneWorker' /\ AckedIsRecorded'
  BY DEF DeliveryInv, OneWorker, InWorkflow, AckedIsRecorded
<1>5. ReplayShape'
  BY <1>1 DEF DeliveryInv, ReplayShape
<1>6. OneClaim'
  BY <1>1 DEF DeliveryInv, OneClaim, HoldsClaim
<1> QED
  BY <1>2, <1>3, <1>4, <1>5, <1>6, ContentKeeps DEF DeliveryInv

LEMMA ReplayReadKeeps ==
  ASSUME DeliveryInv, NEW r \in Replay, NEW d \in Transport, ReplayRead(r, d)
  PROVE  DeliveryInv'
<1> DEFINE new == [pc |-> "claim", id |-> d, sent |-> None]
<1>1. new \in Replays /\ new.pc = "claim" /\ new.id = d
  BY DEF Replays
<1>2. Moves(r, new) /\ letter[d].status # "NONE"
  BY DEF ReplayRead, Moves
<1> HIDE DEF new
<1>3. UNCHANGED <<events, message, progress, letter, push>> /\ faults' \in 0 .. MaxFaults
  BY DEF ReplayRead, DeliveryInv, TypeOK
<1> QED
  BY <1>1, <1>2, <1>3, RequestKeeps

LEMMA ReplayEndsKeeps ==
  ASSUME DeliveryInv, NEW r \in Replay, ReplayEnds(r),
         UNCHANGED <<events, message, progress, letter, push>>, faults' \in 0 .. MaxFaults
  PROVE  DeliveryInv'
<1>1. IdleReplay \in Replays /\ IdleReplay.pc = "idle"
  BY DEF IdleReplay, Replays
<1> QED
  BY <1>1, RequestKeeps DEF ReplayEnds, Moves

LEMMA ReplayDiesKeeps ==
  ASSUME DeliveryInv, NEW r \in Replay, ReplayDies(r)
  PROVE  DeliveryInv'
<1>1. faults' \in 0 .. MaxFaults
  BY BoundsAssumption DEF ReplayDies, Fault, DeliveryInv, TypeOK
<1> QED
  BY <1>1, ReplayEndsKeeps DEF ReplayDies

LEMMA CompleteFailsKeeps ==
  ASSUME DeliveryInv, NEW r \in Replay, CompleteFails(r)
  PROVE  DeliveryInv'
<1> DEFINE new == [replay[r] EXCEPT !.pc = "fail"]
<1>1. faults' \in 0 .. MaxFaults
  BY BoundsAssumption DEF CompleteFails, Fault, DeliveryInv, TypeOK
<1>2. replay[r] \in Replays /\ replay[r].pc = "complete"
  BY DEF DeliveryInv, TypeOK, Replays, CompleteFails
<1>3. new \in Replays /\ new.pc = "fail" /\ new.id = replay[r].id
  BY <1>2 DEF Replays
<1>4. Moves(r, new) /\ UNCHANGED <<events, message, progress, letter, push>>
  BY DEF CompleteFails, Moves
<1>5. replay[r].id \in Transport /\ letter[replay[r].id].status = "REPLAYING" /\ HoldsClaim(r)
  BY <1>2 DEF DeliveryInv, ReplayShape, HoldsClaim
<1> HIDE DEF new
<1> QED
  BY <1>1, <1>3, <1>4, <1>5, RequestKeeps DEF Claimed

\* The record of a claim changes together with the request that holds the claim.
LEMMA RecordKeeps ==
  ASSUME DeliveryInv, NEW r \in Replay, NEW d \in Transport, replay[r].id = d,
         NEW record \in Letters, record.status \in Claimed,
         Writes(d, record), letter[d].status # "NONE",
         NEW new \in Replays, Moves(r, new),
         new.pc \in {"idle", "publish", "fail"}, new.pc # "idle" => new.id = d,
         new.pc = "publish" =>
           record.status = "REPLAYING" /\ \A m \in Transport : message[m].from # d,
         record.status = "REPLAYED" =>
           /\ record.sent \in Transport
           /\ message[record.sent].from = d
           /\ message[record.sent].event = message[d].event,
         \A q \in Replay : q # r /\ HoldsClaim(q) => replay[q].id # d,
         UNCHANGED <<events, message, progress, push>>, faults' \in 0 .. MaxFaults
  PROVE  DeliveryInv'
<1>1. /\ replay'[r] = new
      /\ \A q \in Replay : q # r => replay'[q] = replay[q]
      /\ replay' \in [Replay -> Replays]
  BY DEF DeliveryInv, TypeOK, Replays, Moves
<1>2. /\ letter'[d] = record
      /\ \A n \in Transport : n # d => letter'[n] = letter[n]
      /\ letter' \in [Transport -> Letters]
  BY DEF DeliveryInv, TypeOK, Writes
<1>3. record.status # "NONE" /\ record.status # "AVAILABLE"
  BY DEF Claimed
<1>4. TypeOK'
  BY <1>1, <1>2 DEF DeliveryInv, TypeOK, Replays
<1>5. MessageShape' /\ AckedIsRecorded'
  BY <1>2, <1>3 DEF DeliveryInv, MessageShape, AckedIsRecorded
<1>6. PushShape' /\ OneWorker' /\ OneCopy'
  BY DEF DeliveryInv, PushShape, OneWorker, InWorkflow, OneCopy
<1>7. OneClaim'
  BY <1>1 DEF DeliveryInv, OneClaim, HoldsClaim
<1>8. ReplayShape'
  BY <1>1, <1>2, <1>3 DEF DeliveryInv, ReplayShape, HoldsClaim
<1>9. LetterTellsTruth'
  BY <1>2, <1>3 DEF DeliveryInv, LetterTellsTruth
<1> QED
  BY <1>4, <1>5, <1>6, <1>7, <1>8, <1>9 DEF DeliveryInv

LEMMA ClaimKeeps ==
  ASSUME DeliveryInv, NEW r \in Replay, Claim(r)
  PROVE  DeliveryInv'
<1> DEFINE d == replay[r].id
           record == [letter[d] EXCEPT !.status = "REPLAYING"]
           new == [replay[r] EXCEPT !.pc = "publish"]
<1>1. d \in Transport /\ faults' \in 0 .. MaxFaults
  BY DEF DeliveryInv, TypeOK, ReplayShape, Claim
<1>2. CASE letter[d].status = "AVAILABLE"
  <2>1. letter[d] \in Letters /\ replay[r] \in Replays
    BY <1>1 DEF DeliveryInv, TypeOK, Replays
  <2>2. record \in Letters /\ record.status = "REPLAYING"
    BY <2>1 DEF Letters, Claimed
  <2>3. new \in Replays /\ new.pc = "publish" /\ new.id = d
    BY <2>1 DEF Replays
  <2>4. /\ Writes(d, record)
        /\ Moves(r, new)
        /\ UNCHANGED <<events, message, progress, push>>
    BY <1>2 DEF Claim, Moves, Writes
  <2>5. \A m \in Transport : message[m].from # d
    BY <1>1, <1>2 DEF DeliveryInv, LetterTellsTruth
  <2>6. \A q \in Replay : q # r /\ HoldsClaim(q) => replay[q].id # d
    BY <1>2 DEF DeliveryInv, ReplayShape, HoldsClaim, Claimed
  <2> HIDE DEF record, new
  <2> QED
    BY <1>1, <1>2, <2>2, <2>3, <2>4, <2>5, <2>6, RecordKeeps DEF Claimed
<1>3. CASE letter[d].status # "AVAILABLE"
  BY <1>1, <1>3, ReplayEndsKeeps DEF Claim
<1> QED
  BY <1>2, <1>3

LEMMA FailKeeps ==
  ASSUME DeliveryInv, NEW r \in Replay, Fail(r)
  PROVE  DeliveryInv'
<1> DEFINE d == replay[r].id
           record == [letter[d] EXCEPT !.status = "REVIEW_REQUIRED"]
<1>1. d \in Transport /\ faults' \in 0 .. MaxFaults
  BY DEF DeliveryInv, TypeOK, ReplayShape, Fail
<1>2. CASE letter[d].status = "REPLAYING"
  <2>1. letter[d] \in Letters
    BY <1>1 DEF DeliveryInv, TypeOK
  <2>2. record \in Letters /\ record.status = "REVIEW_REQUIRED"
    BY <2>1 DEF Letters, Claimed
  <2>3. IdleReplay \in Replays /\ IdleReplay.pc = "idle"
    BY DEF IdleReplay, Replays
  <2>4. /\ Writes(d, record)
        /\ Moves(r, IdleReplay)
        /\ UNCHANGED <<events, message, progress, push>>
    BY <1>2 DEF Fail, ReplayEnds, Moves, Writes
  <2>5. \A q \in Replay : q # r /\ HoldsClaim(q) => replay[q].id # d
    BY DEF DeliveryInv, OneClaim, HoldsClaim, Fail
  <2> HIDE DEF record
  <2> QED
    BY <1>1, <1>2, <2>2, <2>3, <2>4, <2>5, RecordKeeps DEF Claimed
<1>3. CASE letter[d].status # "REPLAYING"
  BY <1>1, <1>3, ReplayEndsKeeps DEF Fail
<1> QED
  BY <1>2, <1>3

LEMMA CompleteKeeps ==
  ASSUME DeliveryInv, NEW r \in Replay, Complete(r)
  PROVE  DeliveryInv'
<1> DEFINE d == replay[r].id
           record == [status |-> "REPLAYED", sent |-> replay[r].sent]
           new == [replay[r] EXCEPT !.pc = "fail"]
<1>1. /\ d \in Transport /\ letter[d].status = "REPLAYING"
      /\ replay[r].sent \in Transport /\ message[replay[r].sent].from = d
      /\ message[replay[r].sent].event = message[d].event
  BY DEF DeliveryInv, ReplayShape, Complete
<1>2. faults' \in 0 .. MaxFaults
  BY <1>1, BoundsAssumption DEF DeliveryInv, TypeOK, Complete, Fault
<1>3. record \in Letters /\ record.status = "REPLAYED" /\ record.sent = replay[r].sent
  BY <1>1 DEF Letters, Claimed
<1>4. new \in Replays /\ new.pc = "fail" /\ new.id = d
  BY DEF DeliveryInv, TypeOK, Replays
<1>5. IdleReplay \in Replays /\ IdleReplay.pc = "idle"
  BY DEF IdleReplay, Replays
<1>6. \A q \in Replay : q # r /\ HoldsClaim(q) => replay[q].id # d
  BY DEF DeliveryInv, OneClaim, HoldsClaim, Complete
<1>7. /\ Writes(d, record)
      /\ Moves(r, IdleReplay) \/ Moves(r, new)
      /\ UNCHANGED <<events, message, progress, push>>
  BY <1>1 DEF Complete, ReplayEnds, Moves, Writes
<1> HIDE DEF record, new
<1> QED
  BY <1>1, <1>2, <1>3, <1>4, <1>5, <1>6, <1>7, RecordKeeps DEF Claimed

\* The message of a replay, sent by the request that holds the claim.
LEMMA ReplaySent ==
  ASSUME DeliveryInv, NEW r \in Replay, NEW m \in Transport, replay[r].pc = "publish",
         Send(m, message[replay[r].id].event, "event", replay[r].id),
         UNCHANGED <<progress, letter, push>>
  PROVE  /\ message' \in [Transport -> Messages]
         /\ MessageShape' /\ PushShape' /\ OneCopy' /\ AckedIsRecorded' /\ LetterTellsTruth'
         /\ message'[m].from = replay[r].id
         /\ message'[m].event = message'[replay[r].id].event
         /\ \A q \in Replay : replay[q].pc = "complete" =>
              message'[replay[q].sent] = message[replay[q].sent]
         /\ \A q \in Replay : replay[q].pc # "idle" =>
              message'[replay[q].id] = message[replay[q].id]
         /\ \A q \in Replay, n \in Transport :
              q # r /\ replay[q].pc = "publish" => message'[n].from # replay[q].id
<1> DEFINE d == replay[r].id
<1>1. d \in Transport /\ letter[d].status = "REPLAYING"
      /\ \A n \in Transport : message[n].from # d
  BY DEF DeliveryInv, ReplayShape
<1>2. message[d].event \in Event \cup {None}
  BY <1>1 DEF DeliveryInv, TypeOK, Messages
<1>3. /\ message' \in [Transport -> Messages]
      /\ MessageShape' /\ PushShape' /\ OneCopy' /\ AckedIsRecorded' /\ LetterTellsTruth'
      /\ \A n \in Transport : n # m => message'[n] = message[n]
      /\ message'[m].from = d /\ message'[m].event = message[d].event
      /\ message[m].from = None
  BY <1>1, <1>2, SendKeeps DEF Forms
<1>4. \A n \in Transport : letter[n].status # "NONE" => n # m
  BY DEF DeliveryInv, MessageShape, Send
<1>5. \A q \in Replay : replay[q].pc # "idle" => message'[replay[q].id] = message[replay[q].id]
  BY <1>3, <1>4 DEF DeliveryInv, ReplayShape
<1>6. \A q \in Replay : replay[q].pc = "complete" =>
        message'[replay[q].sent] = message[replay[q].sent]
  BY <1>3, NoneAssumption DEF DeliveryInv, ReplayShape
<1>7. ASSUME NEW q \in Replay, NEW n \in Transport, q # r, replay[q].pc = "publish"
      PROVE  message'[n].from # replay[q].id
  <2>1. replay[q].id # d
    BY <1>7 DEF DeliveryInv, OneClaim, HoldsClaim
  <2>2. message[n].from # replay[q].id
    BY <1>7 DEF DeliveryInv, ReplayShape
  <2> QED
    BY <2>1, <2>2, <1>3
<1> QED
  BY <1>1, <1>3, <1>5, <1>6, <1>7

LEMMA PublishReplayKeeps ==
  ASSUME DeliveryInv, NEW r \in Replay, NEW m \in Transport,
         PublishReplay(r, m) \/ PublishUnheard(r, m)
  PROVE  DeliveryInv'
<1> DEFINE d == replay[r].id
           sent == [replay[r] EXCEPT !.pc = "complete", !.sent = m]
           unheard == [replay[r] EXCEPT !.pc = "fail"]
<1>1. /\ replay[r] \in Replays /\ replay[r].pc = "publish"
      /\ d \in Transport /\ letter[d].status = "REPLAYING"
  BY DEF DeliveryInv, TypeOK, Replays, ReplayShape, PublishReplay, PublishUnheard
<1>2. sent \in Replays /\ sent.pc = "complete" /\ sent.id = d /\ sent.sent = m
  BY <1>1 DEF Replays
<1>3. unheard \in Replays /\ unheard.pc = "fail" /\ unheard.id = d
  BY <1>1 DEF Replays
<1>4. UNCHANGED <<events, progress, letter, push>> /\ faults' \in 0 .. MaxFaults
  <2>1. faults \in 0 .. MaxFaults
    BY DEF DeliveryInv, TypeOK
  <2>2. CASE PublishReplay(r, m)
    BY <2>1, <2>2 DEF PublishReplay
  <2>3. CASE PublishUnheard(r, m)
    BY <2>1, <2>3, BoundsAssumption DEF PublishUnheard, Fault
  <2> QED
    BY <2>2, <2>3
<1>5. CASE PublishUnheard(r, m) /\ UNCHANGED message
  <2>1. Moves(r, unheard)
    BY <1>5 DEF PublishUnheard, Moves
  <2> HIDE DEF unheard
  <2> QED
    BY <1>1, <1>3, <1>4, <1>5, <2>1, RequestKeeps DEF HoldsClaim, Claimed
<1>6. ASSUME Send(m, message[d].event, "event", d),
             NEW new \in {sent, unheard}, Moves(r, new)
      PROVE  DeliveryInv'
  <2>1. new \in Replays /\ new.pc \in {"complete", "fail"} /\ new.id = d
        /\ (new.pc = "complete" => new.sent = m)
    BY <1>2, <1>3, <1>6
  <2>2. /\ message' \in [Transport -> Messages]
        /\ MessageShape' /\ PushShape' /\ OneCopy' /\ AckedIsRecorded' /\ LetterTellsTruth'
        /\ message'[m].from = d /\ message'[m].event = message'[d].event
        /\ \A q \in Replay : replay[q].pc = "complete" =>
             message'[replay[q].sent] = message[replay[q].sent]
        /\ \A q \in Replay : replay[q].pc # "idle" =>
             message'[replay[q].id] = message[replay[q].id]
        /\ \A q \in Replay, n \in Transport :
             q # r /\ replay[q].pc = "publish" => message'[n].from # replay[q].id
    BY <1>1, <1>4, <1>6, ReplaySent
  <2>3. /\ replay'[r] = new
        /\ \A q \in Replay : q # r => replay'[q] = replay[q]
        /\ replay' \in [Replay -> Replays]
    BY <1>6, <2>1 DEF DeliveryInv, TypeOK, Replays, Moves
  <2> HIDE DEF sent, unheard
  <2>4. TypeOK'
    BY <1>4, <2>2, <2>3 DEF DeliveryInv, TypeOK, Replays
  <2>5. OneWorker'
    BY <1>4 DEF DeliveryInv, OneWorker, InWorkflow
  <2>6. OneClaim'
    BY <1>1, <2>1, <2>3 DEF DeliveryInv, OneClaim, HoldsClaim
  <2>7. ReplayShape'
    BY <1>1, <1>4, <2>1, <2>2, <2>3 DEF DeliveryInv, ReplayShape, Claimed
  <2> QED
    BY <2>2, <2>4, <2>5, <2>6, <2>7 DEF DeliveryInv
<1>7. CASE PublishReplay(r, m)
  BY <1>6, <1>7 DEF PublishReplay, Moves
<1>8. CASE PublishUnheard(r, m) /\ Send(m, message[d].event, "event", d)
  BY <1>6, <1>8 DEF PublishUnheard, Moves
<1> QED
  BY <1>5, <1>7, <1>8 DEF PublishUnheard

-----------------------------------------------------------------------------
(* The specification. *)

LEMMA InitDelivery == Init => DeliveryInv
<1> SUFFICES ASSUME Init PROVE DeliveryInv
  OBVIOUS
<1>1. Unsent \in Messages /\ Unsent.place = "unsent" /\ Unsent.from = None
  BY BoundsAssumption DEF Unsent, Messages, Places, Forms
<1>2. NoLetter \in Letters /\ NoLetter.status = "NONE"
  BY DEF NoLetter, Letters
<1>3. TypeOK
  BY <1>1, <1>2, BoundsAssumption DEF Init, TypeOK, IdlePush, IdleReplay
<1>4. MessageShape /\ OneCopy /\ AckedIsRecorded
  BY <1>1, <1>2, NoneAssumption DEF Init, MessageShape, OneCopy, AckedIsRecorded
<1>5. LetterTellsTruth
  BY <1>1, <1>2, NoneAssumption DEF Init, LetterTellsTruth
<1>6. PushShape /\ OneWorker /\ ReplayShape /\ OneClaim
  BY DEF Init, IdlePush, IdleReplay, PushShape, OneWorker, InWorkflow, ReplayShape, OneClaim,
         HoldsClaim
<1> QED
  BY <1>3, <1>4, <1>5, <1>6 DEF DeliveryInv

LEMMA NextDelivery == DeliveryInv /\ [Next]_vars => DeliveryInv'
<1> SUFFICES ASSUME DeliveryInv, [Next]_vars PROVE DeliveryInv'
  OBVIOUS
<1>1. CASE UNCHANGED vars
  <2>1. SameContent
    BY <1>1 DEF vars, SameContent
  <2> QED
    BY <1>1, <2>1, ContentKeeps DEF vars, DeliveryInv, TypeOK, OneWorker, InWorkflow, OneClaim,
                                    HoldsClaim, AckedIsRecorded
<1>2. ASSUME NEW e \in Event, CreateScenario(e) PROVE DeliveryInv'
  BY <1>2, CreateScenarioKeeps
<1>3. ASSUME NEW e \in Event, NEW m \in Transport, PublishScenario(e, m) PROVE DeliveryInv'
  BY <1>3, PublishKeeps DEF PublishScenario, Forms
<1>4. ASSUME NEW e \in Event \cup {None}, NEW m \in Transport, PublishPoison(e, m)
      PROVE  DeliveryInv'
  BY <1>4, PublishKeeps DEF PublishPoison, Forms
<1>5. ASSUME NEW m \in Transport, Forward(m) PROVE DeliveryInv'
  BY <1>5, ForwardKeeps
<1>6. ASSUME NEW p \in Push, NEW m \in Transport, Deliver(p, m) \/ DeliverDead(p, m)
      PROVE  DeliveryInv'
  BY <1>6, DeliverKeeps, DeliverDeadKeeps
<1>7. ASSUME NEW p \in Push, HandlerStep(p) \/ PushFails(p) PROVE DeliveryInv'
  BY <1>7, AcceptKeeps, SkipDuplicateKeeps, WorkKeeps, ReportKeeps, QuarantineKeeps,
     PushFailsKeeps DEF HandlerStep
<1>8. ASSUME NEW r \in Replay, ReplayStep(r) PROVE DeliveryInv'
  BY <1>8, ReplayReadKeeps, PublishReplayKeeps, ClaimKeeps, CompleteKeeps, CompleteFailsKeeps,
     FailKeeps, ReplayDiesKeeps DEF ReplayStep
<1> QED
  BY <1>1, <1>2, <1>3, <1>4, <1>5, <1>6, <1>7, <1>8 DEF Next

\* The invariant holds in every state.
THEOREM Inductive == Spec => []DeliveryInv
BY InitDelivery, NextDelivery, PTL DEF Spec

\* The variables of the delivery path keep their types.
THEOREM TypeCorrect == Spec => []TypeOK
<1>1. DeliveryInv => TypeOK
  BY DEF DeliveryInv
<1> QED
  BY Inductive, <1>1, PTL

\* Redeliveries, also overlapping ones, run the workflow of a message once.
THEOREM OneWorkflow == Spec => []OneWorkflowPerMessage
<1>1. DeliveryInv => OneWorkflowPerMessage
  BY DEF DeliveryInv, OneWorker, PushShape, OneWorkflowPerMessage
<1> QED
  BY Inductive, <1>1, PTL

\* What the broker forgets has a receipt or a dead-letter record.
THEOREM AckedRecorded == Spec => []AckedIsRecorded
<1>1. DeliveryInv => AckedIsRecorded
  BY DEF DeliveryInv
<1> QED
  BY Inductive, <1>1, PTL

\* A dead letter is published again at most once.
THEOREM OneReplay == Spec => []OneReplayPerLetter
<1>1. DeliveryInv => OneReplayPerLetter
  BY DEF DeliveryInv, OneCopy, OneClaim, HoldsClaim, ReplayShape, OneReplayPerLetter
<1> QED
  BY Inductive, <1>1, PTL

\* The status of a dead letter tells whether it was published again.
THEOREM TrueLetters == Spec => []LetterTellsTruth
<1>1. DeliveryInv => LetterTellsTruth
  BY DEF DeliveryInv
<1> QED
  BY Inductive, <1>1, PTL

\* One step of a letter, as LettersMoveForward allows it.
MovesForward ==
  \A d \in Transport :
    \/ letter'[d] = letter[d]
    \/ letter[d].status = "NONE" /\ letter'[d].status = "AVAILABLE"
    \/ letter[d].status = "AVAILABLE" /\ letter'[d].status = "REPLAYING"
    \/ letter[d].status = "REPLAYING" /\ letter'[d].status \in {"REPLAYED", "REVIEW_REQUIRED"}

LEMMA StepMovesForward == DeliveryInv /\ [Next]_vars => MovesForward
<1> SUFFICES ASSUME DeliveryInv, [Next]_vars, letter' # letter PROVE MovesForward
  BY DEF MovesForward
<1>1. ASSUME NEW p \in Push, HandlerStep(p) PROVE MovesForward
  <2>1. Quarantine(p) /\ Recordable(p)
    BY <1>1 DEF HandlerStep, Accept, SkipDuplicate, Work, Report, Quarantine
  <2>2. Store(push[p].msg) /\ push[p].msg \in Transport
    BY <2>1 DEF Quarantine, DeliveryInv, PushShape
  <2> QED
    BY <2>2, Stored DEF MovesForward
<1>2. ASSUME NEW r \in Replay, ReplayStep(r) PROVE MovesForward
  <2> DEFINE d == replay[r].id
  <2>1. Claim(r) \/ Complete(r) \/ Fail(r)
    BY <1>2 DEF ReplayStep, ReplayRead, PublishReplay, PublishUnheard, CompleteFails, ReplayDies
  <2>2. d \in Transport /\ letter[d] \in Letters
    BY <2>1 DEF DeliveryInv, TypeOK, ReplayShape, Claim, Complete, Fail
  <2>3. CASE Claim(r)
    <3>1. /\ letter[d].status = "AVAILABLE"
          /\ letter' = [letter EXCEPT ![d].status = "REPLAYING"]
      BY <2>3 DEF Claim
    <3>2. /\ letter'[d] = [letter[d] EXCEPT !.status = "REPLAYING"]
          /\ \A n \in Transport : n # d => letter'[n] = letter[n]
      BY <2>2, <3>1 DEF DeliveryInv, TypeOK
    <3>3. letter'[d].status = "REPLAYING"
      BY <2>2, <3>2 DEF Letters
    <3> QED
      BY <3>1, <3>2, <3>3 DEF MovesForward
  <2>4. CASE Complete(r)
    <3>1. /\ letter[d].status = "REPLAYING"
          /\ letter' = [letter EXCEPT ![d] = [status |-> "REPLAYED", sent |-> replay[r].sent]]
      BY <2>4 DEF Complete
    <3> QED
      BY <2>2, <3>1 DEF MovesForward, DeliveryInv, TypeOK
  <2>5. CASE Fail(r)
    <3>1. /\ letter[d].status = "REPLAYING"
          /\ letter' = [letter EXCEPT ![d].status = "REVIEW_REQUIRED"]
      BY <2>5 DEF Fail
    <3>2. /\ letter'[d] = [letter[d] EXCEPT !.status = "REVIEW_REQUIRED"]
          /\ \A n \in Transport : n # d => letter'[n] = letter[n]
      BY <2>2, <3>1 DEF DeliveryInv, TypeOK
    <3>3. letter'[d].status = "REVIEW_REQUIRED"
      BY <2>2, <3>2 DEF Letters
    <3> QED
      BY <3>1, <3>2, <3>3 DEF MovesForward
  <2> QED
    BY <2>1, <2>3, <2>4, <2>5
<1>3. (\E p \in Push : HandlerStep(p)) \/ (\E r \in Replay : ReplayStep(r))
  BY DEF Next, vars, CreateScenario, PublishScenario, PublishPoison, Forward, Deliver,
         DeliverDead, PushFails
<1> QED
  BY <1>1, <1>2, <1>3

\* A letter is offered for replay once, and what was decided about it stays.
THEOREM ForwardLetters == Spec => LettersMoveForward
<1>1. DeliveryInv /\ [Next]_vars => [MovesForward]_vars
  BY StepMovesForward
<1> QED
  BY Inductive, <1>1, PTL DEF Spec, LettersMoveForward, MovesForward

-----------------------------------------------------------------------------
(***************************************************************************)
(* The refinement of MessageFate.  A replay is of a message that can be    *)
(* read, so its copy has the content of the original.                      *)
(***************************************************************************)

Readable == \A r \in Replay : replay[r].pc # "idle" => message[replay[r].id].form = "event"

\* The content of a message that was sent stays what it is.
LEMMA ContentStays ==
  ASSUME DeliveryInv, Next, NEW m \in Transport, message[m].place # "unsent"
  PROVE  message'[m].form = message[m].form
<1> USE DEF DeliveryInv, TypeOK
<1>1. ASSUME NEW n \in Transport, NEW e, NEW form, NEW from, Send(n, e, form, from)
      PROVE  message'[m].form = message[m].form
  BY <1>1 DEF Send
<1>2. ASSUME SameContent PROVE message'[m].form = message[m].form
  BY <1>2 DEF SameContent
<1>3. ASSUME NEW p \in Push, push[p].pc # "idle", Answer(p) PROVE SameContent
  BY <1>3, Answered
<1>4. ASSUME NEW p \in Push, HandlerStep(p) \/ PushFails(p)
      PROVE  message'[m].form = message[m].form
  BY <1>2, <1>3, <1>4 DEF HandlerStep, PushFails, Accept, SkipDuplicate, Work, Report, Quarantine
<1>5. ASSUME NEW r \in Replay, ReplayStep(r)
      PROVE  message'[m].form = message[m].form
  BY <1>1, <1>5 DEF ReplayStep, ReplayRead, PublishReplay, PublishUnheard, Claim, Complete,
                    CompleteFails, Fail, ReplayDies
<1>6. ASSUME NEW n \in Transport, Forward(n) PROVE SameContent
  <2>1. /\ message' = [message EXCEPT ![n].place = "dead"]
        /\ (message[n].place = "unsent") = ("dead" = "unsent")
    BY <1>6 DEF Forward
  <2>2. "dead" \in Places
    BY DEF Places
  <2> QED
    BY <2>1, <2>2, Moved
<1>7. ASSUME NEW p \in Push, NEW n \in Transport, Deliver(p, n) \/ DeliverDead(p, n)
      PROVE  message'[m].form = message[m].form
  BY <1>2, <1>7, Counted DEF Deliver, DeliverDead
<1>8. ASSUME NEW e, NEW n \in Transport, PublishScenario(e, n) \/ PublishPoison(e, n)
      PROVE  message'[m].form = message[m].form
  BY <1>1, <1>8 DEF PublishScenario, PublishPoison
<1>9. ASSUME NEW e \in Event, CreateScenario(e) PROVE message'[m].form = message[m].form
  BY <1>9 DEF CreateScenario
<1> QED
  BY <1>2, <1>4, <1>5, <1>6, <1>7, <1>8, <1>9 DEF Next

LEMMA StaysReadable == DeliveryInv /\ Readable /\ [Next]_vars => Readable'
<1> SUFFICES ASSUME DeliveryInv, Readable, Next, NEW r \in Replay, replay'[r].pc # "idle"
             PROVE  message'[replay'[r].id].form = "event"
  BY DEF Readable, vars
<1>1. /\ replay[r].pc # "idle" => replay[r].id \in Transport /\ message[replay[r].id].place # "unsent"
      /\ \A d \in Transport : letter[d].status = "AVAILABLE" => message[d].place # "unsent"
  BY DEF DeliveryInv, ReplayShape, MessageShape
<1>2. CASE replay[r].pc # "idle" /\ replay'[r].id = replay[r].id
  BY <1>1, <1>2, ContentStays DEF Readable
<1>3. CASE \E d \in Transport : ReplayRead(r, d)
  <2>1. PICK d \in Transport : ReplayRead(r, d)
    BY <1>3
  <2>2. replay'[r] = [pc |-> "claim", id |-> d, sent |-> None] /\ message[d].form = "event" /\ UNCHANGED message
    BY <2>1 DEF ReplayRead, DeliveryInv, TypeOK
  <2> QED
    BY <2>2
<1>4. CASE ~ \E d \in Transport : ReplayRead(r, d)
  <2>1. replay[r].pc # "idle" /\ replay'[r].id = replay[r].id
    <3>1. CASE replay' = replay
      BY <3>1
    <3>2. ASSUME NEW q \in Replay, ReplayStep(q), q # r
          PROVE  replay'[r] = replay[r]
      BY <3>2 DEF ReplayStep, ReplayRead, PublishReplay, PublishUnheard, Claim, Complete, CompleteFails,
                  Fail, ReplayDies, ReplayEnds, DeliveryInv, TypeOK
    <3>3. CASE ReplayStep(r)
      <4>1. replay[r].pc # "idle"
        BY <1>4, <3>3 DEF ReplayStep, PublishReplay, PublishUnheard, Claim, Complete, CompleteFails,
                          Fail, ReplayDies
      <4>2. ReplayEnds(r) => replay'[r].pc = "idle"
        BY DEF ReplayEnds, IdleReplay, DeliveryInv, TypeOK
      <4>3. ASSUME NEW m \in Transport, PublishReplay(r, m) PROVE replay'[r].id = replay[r].id
        BY <4>3 DEF PublishReplay, DeliveryInv, TypeOK
      <4>4. ASSUME NEW m \in Transport, PublishUnheard(r, m) PROVE replay'[r].id = replay[r].id
        BY <4>4 DEF PublishUnheard, DeliveryInv, TypeOK
      <4>5. ASSUME Claim(r) \/ Complete(r) \/ CompleteFails(r) PROVE replay'[r].id = replay[r].id
        BY <4>2, <4>5 DEF Claim, Complete, CompleteFails, DeliveryInv, TypeOK
      <4>6. ~Fail(r) /\ ~ReplayDies(r)
        BY <4>2 DEF Fail, ReplayDies
      <4> QED
        BY <1>4, <3>3, <4>1, <4>3, <4>4, <4>5, <4>6 DEF ReplayStep
    <3>4. replay' = replay \/ \E q \in Replay : ReplayStep(q)
      BY DEF Next, CreateScenario, PublishScenario, PublishPoison, Forward, Deliver, DeliverDead,
             HandlerStep, PushFails, Accept, SkipDuplicate, Work, Report, Quarantine
    <3> QED
      BY <3>1, <3>2, <3>3, <3>4
  <2> QED
    BY <1>2, <2>1
<1> QED
  BY <1>3, <1>4

-----------------------------------------------------------------------------
(* What the steps do in terms of MessageFate. *)

fates == <<Contents, Standings, Works, Verdicts, Origins>>

LEMMA SentFate ==
  ASSUME DeliveryInv, NEW m \in Transport, NEW e \in Event \cup {None}, NEW form \in Forms,
         NEW from \in Transport \cup {None}, Send(m, e, form, from)
  PROVE  /\ Fate!Opens(m, [event |-> e, form |-> form])
         /\ Origins' = [Origins EXCEPT ![m] = from]
         /\ Origins[m] = None
<1>1. message[m].place = "unsent" /\ message[m].from = None
  BY DEF Send, DeliveryInv, MessageShape
<1>2. /\ message'[m].place = "topic" /\ message'[m].from = from
      /\ [event |-> message'[m].event, form |-> message'[m].form] = [event |-> e, form |-> form]
      /\ \A n \in Transport : n # m => message'[n] = message[n]
  BY DEF Send, DeliveryInv, TypeOK
<1>3. Contents' = [Contents EXCEPT ![m] = [event |-> e, form |-> form]]
  BY <1>2 DEF Contents
<1>4. Standings[m] = "unsent" /\ Standings' = [Standings EXCEPT ![m] = "open"]
  BY <1>1, <1>2 DEF Standings
<1>5. Origins' = [Origins EXCEPT ![m] = from] /\ Origins[m] = None
  BY <1>1, <1>2 DEF Origins
<1> QED
  BY <1>3, <1>4, <1>5 DEF Fate!Opens

LEMMA PublishedFate ==
  ASSUME DeliveryInv, NEW m \in Transport, NEW e \in Event \cup {None}, NEW form \in Forms,
         Send(m, e, form, None), UNCHANGED <<progress, letter>>
  PROVE  Fate!FateNext
<1> DEFINE what == [event |-> e, form |-> form]
<1>1. Fate!Opens(m, what) /\ Origins' = [Origins EXCEPT ![m] = None] /\ Origins[m] = None
  BY NoneAssumption, SentFate
<1>2. Origins' = Origins
  BY <1>1 DEF Origins
<1>3. Works' = Works /\ Verdicts' = Verdicts
  BY DEF Works, Verdicts
<1>4. Fate!Publish(m, what)
  BY <1>1, <1>2, <1>3 DEF Fate!Publish
<1>5. what \in [event : Event \cup {None}, form : Fate!Forms]
  BY DEF Forms, Fate!Forms
<1> QED
  BY <1>4, <1>5 DEF Fate!FateNext

\* Content and origin follow the messages.
LEMMA SameFate ==
  ASSUME SameContent PROVE Contents' = Contents /\ Origins' = Origins
BY DEF SameContent, Contents, Origins

\* An answer may settle the message of the push.
LEMMA AnsweredFate ==
  ASSUME DeliveryInv, NEW p \in Push, push[p].pc # "idle", Answer(p)
  PROVE  /\ push[p].msg \in Transport /\ Standings[push[p].msg] # "unsent"
         /\ Contents' = Contents /\ Origins' = Origins
         /\ Fate!Settle(push[p].msg) \/ UNCHANGED Standings
<1> DEFINE m == push[p].msg
<1>1. m \in Transport /\ message[m].place # "unsent" /\ push[p].sub \in {"topic", "dead"}
  BY DEF DeliveryInv, PushShape, TypeOK
<1>2. Contents' = Contents /\ Origins' = Origins
  BY Answered, SameFate
<1>3. Standings[m] # "unsent"
  BY <1>1 DEF Standings
<1>4. CASE Ack(p)
  <2>1. \A n \in Transport : n # m => message'[n].place = message[n].place
    BY <1>4 DEF Ack, DeliveryInv, TypeOK
  <2>2. message'[m].place = IF message[m].place = push[p].sub THEN "acked" ELSE message[m].place
    BY <1>1, <1>4 DEF Ack, DeliveryInv, TypeOK, Messages
  <2>3. CASE message[m].place = push[p].sub
    <3>1. Standings[m] = "open" /\ Standings' = [Standings EXCEPT ![m] = "settled"]
      BY <1>1, <2>1, <2>2, <2>3 DEF Standings
    <3> QED
      BY <1>1, <1>2, <1>3, <3>1 DEF Fate!Settle
  <2>4. CASE message[m].place # push[p].sub
    <3>1. Standings' = Standings
      BY <2>1, <2>2, <2>4 DEF Standings
    <3> QED
      BY <1>1, <1>2, <1>3, <3>1
  <2> QED
    BY <2>3, <2>4
<1>5. CASE UNCHANGED message
  BY <1>1, <1>2, <1>3, <1>5 DEF Standings
<1> QED
  BY <1>4, <1>5 DEF Answer

\* A letter that gets another status.
LEMMA JudgedFate ==
  ASSUME DeliveryInv, NEW d \in Transport, NEW new,
         letter'[d].status = new, \A n \in Transport : n # d => letter'[n] = letter[n],
         UNCHANGED <<message, progress>>
  PROVE  Fate!Moves(d, letter[d].status, new)
<1>1. Verdicts[d] = letter[d].status /\ Verdicts' = [Verdicts EXCEPT ![d] = new]
  BY DEF Verdicts
<1>2. UNCHANGED <<Contents, Standings, Works, Origins>>
  BY DEF Contents, Standings, Works, Origins
<1> QED
  BY <1>1, <1>2 DEF Fate!Moves

-----------------------------------------------------------------------------
(* The steps. *)

LEMMA HandlerFate ==
  ASSUME DeliveryInv, NEW p \in Push, HandlerStep(p)
  PROVE  Fate!FateNext \/ UNCHANGED fates
<1> DEFINE m == push[p].msg
<1>1. push[p].pc # "idle"
  BY DEF HandlerStep, Accept, SkipDuplicate, Work, Report, Quarantine
<1>2. m \in Transport /\ message[m].place # "unsent"
  BY <1>1 DEF DeliveryInv, PushShape
<1>3. CASE Accept(p)
  <2>1. /\ message[m].form = "event" /\ progress[m] = "none" /\ UNCHANGED <<message, letter>>
        /\ progress' = [progress EXCEPT ![m] = "accepted"]
    BY <1>3 DEF Accept, DeliveryInv, PushShape
  <2>2. Works[m] = "none" /\ Works' = [Works EXCEPT ![m] = "begun"]
    BY <1>2, <2>1 DEF Works, DeliveryInv, TypeOK
  <2>3. Standings[m] # "unsent" /\ Contents[m].form = "event"
    BY <1>2, <2>1 DEF Standings, Contents
  <2>4. UNCHANGED <<Contents, Standings, Verdicts, Origins>>
    BY <2>1 DEF Contents, Standings, Verdicts, Origins
  <2>5. Fate!Begin(m)
    BY <2>2, <2>3, <2>4 DEF Fate!Begin
  <2> QED
    BY <1>2, <2>5 DEF Fate!FateNext
<1>4. CASE Work(p)
  <2>1. /\ progress[m] = "accepted" /\ UNCHANGED <<message, letter>>
        /\ progress' = [progress EXCEPT ![m] = "worked"]
    BY <1>4 DEF Work, DeliveryInv, PushShape
  <2>2. Works[m] = "begun" /\ Works' = [Works EXCEPT ![m] = "ended"]
    BY <1>2, <2>1 DEF Works, DeliveryInv, TypeOK
  <2>3. UNCHANGED <<Contents, Standings, Verdicts, Origins>>
    BY <2>1 DEF Contents, Standings, Verdicts, Origins
  <2>4. Fate!End(m)
    BY <2>2, <2>3 DEF Fate!End
  <2> QED
    BY <1>2, <2>4 DEF Fate!FateNext
<1>5. ASSUME Answer(p), Works' = Works, Works[m] # "none", UNCHANGED letter
      PROVE  Fate!FateNext \/ UNCHANGED fates
  <2>1. Verdicts' = Verdicts
    BY <1>5 DEF Verdicts
  <2>2. Fate!SettleBegun(m) \/ UNCHANGED fates
    BY <1>1, <1>5, <2>1, AnsweredFate DEF Fate!SettleBegun, fates
  <2> QED
    BY <1>2, <2>2 DEF Fate!FateNext
<1>6. CASE SkipDuplicate(p)
  <2>1. Answer(p) /\ progress[m] # "none" /\ UNCHANGED <<progress, letter>>
    BY <1>6 DEF SkipDuplicate
  <2>2. Works' = Works /\ Works[m] # "none"
    BY <1>2, <2>1 DEF Works
  <2> QED
    BY <1>5, <2>1, <2>2
<1>7. CASE Report(p)
  <2>1. /\ Answer(p) /\ UNCHANGED letter /\ progress' = [progress EXCEPT ![m] = "reported"]
        /\ progress[m] # "none"
    BY <1>7 DEF Report, DeliveryInv, PushShape
  <2>2. progress[m] # "accepted"
    BY <1>2, <1>7 DEF Report, DeliveryInv, PushShape
  <2>3. Works' = Works /\ Works[m] # "none"
    BY <1>2, <2>1, <2>2 DEF Works, DeliveryInv, TypeOK
  <2> QED
    BY <1>5, <2>1, <2>3
<1>8. CASE Quarantine(p)
  <2>1. CASE Recordable(p)
    <3>1. Store(m) /\ Answer(p) /\ UNCHANGED progress
      BY <1>8, <2>1 DEF Quarantine
    <3>2. Works' = Works
      BY <3>1 DEF Works
    <3>3. Verdicts' = [Verdicts EXCEPT ![m] = IF @ = "NONE" THEN "AVAILABLE" ELSE @]
      BY <1>2, <3>1 DEF Store, Verdicts, DeliveryInv, TypeOK
    <3>4. Fate!SettleRecorded(m)
      BY <1>1, <3>1, <3>2, <3>3, AnsweredFate DEF Fate!SettleRecorded, Fate!Record
    <3> QED
      BY <1>2, <3>4 DEF Fate!FateNext
  <2>2. CASE ~Recordable(p)
    <3>1. UNCHANGED <<message, progress, letter>>
      BY <1>8, <2>2 DEF Quarantine
    <3> QED
      BY <3>1 DEF fates, Contents, Standings, Works, Verdicts, Origins
  <2> QED
    BY <2>1, <2>2
<1> QED
  BY <1>3, <1>4, <1>6, <1>7, <1>8 DEF HandlerStep

LEMMA ReplayFate ==
  ASSUME DeliveryInv, Readable, NEW r \in Replay, ReplayStep(r)
  PROVE  Fate!FateNext \/ UNCHANGED fates
<1> DEFINE d == replay[r].id
<1>1. ASSUME UNCHANGED <<message, progress, letter>>
      PROVE  Fate!FateNext \/ UNCHANGED fates
  BY <1>1 DEF fates, Contents, Standings, Works, Verdicts, Origins
<1>2. CASE replay[r].pc = "idle"
  BY <1>1, <1>2 DEF ReplayStep, ReplayRead, PublishReplay, PublishUnheard, Claim, Complete,
                    CompleteFails, Fail, ReplayDies
<1>3. CASE replay[r].pc # "idle"
  <2>0. d \in Transport /\ letter[d] \in Letters /\ message[d].form = "event"
    BY <1>3 DEF DeliveryInv, TypeOK, ReplayShape, Readable
  <2>1. ASSUME NEW m \in Transport, replay[r].pc = "publish", UNCHANGED <<progress, letter>>,
               Send(m, message[d].event, "event", d)
        PROVE  Fate!FateNext
    <3>1. /\ letter[d].status = "REPLAYING" /\ \A n \in Transport : message[n].from # d
          /\ message[d].event \in Event \cup {None}
      BY <2>0, <2>1 DEF DeliveryInv, TypeOK, Messages, ReplayShape
    <3>2. /\ Fate!Opens(m, [event |-> message[d].event, form |-> "event"])
          /\ Origins' = [Origins EXCEPT ![m] = d]
      <4> DEFINE e == message[d].event
                 form == "event"
      <4>1. /\ e \in Event \cup {None} /\ form \in Forms /\ d \in Transport \cup {None}
            /\ Send(m, e, form, d)
        BY <2>0, <2>1, <3>1 DEF Forms
      <4> HIDE DEF e, form
      <4>2. /\ Fate!Opens(m, [event |-> e, form |-> form])
            /\ Origins' = [Origins EXCEPT ![m] = d]
        BY <4>1, SentFate
      <4> QED
        BY <4>2 DEF e, form
    <3>3. Contents[d] = [event |-> message[d].event, form |-> "event"]
      <4>1. message[d].form = "event"
        BY <2>0 DEF DeliveryInv, TypeOK, Messages
      <4> QED
        BY <2>0, <4>1 DEF Contents
    <3>4. Verdicts[d] = "REPLAYING" /\ \A n \in Transport : Origins[n] # d
      BY <2>0, <3>1 DEF Verdicts, Origins
    <3>5. Works' = Works /\ Verdicts' = Verdicts
      BY <2>1 DEF Works, Verdicts
    <3>6. Fate!Resend(d, m)
      BY <3>2, <3>3, <3>4, <3>5 DEF Fate!Resend
    <3> QED
      BY <2>0, <3>6 DEF Fate!FateNext
  <2>2. ASSUME NEW m \in Transport, PublishReplay(r, m) \/ PublishUnheard(r, m)
        PROVE  Fate!FateNext \/ UNCHANGED fates
    BY <1>1, <2>1, <2>2 DEF PublishReplay, PublishUnheard
  <2>3. CASE Claim(r) /\ letter[d].status = "AVAILABLE"
    <3>1. letter' = [letter EXCEPT ![d].status = "REPLAYING"] /\ UNCHANGED <<message, progress>>
      BY <2>3 DEF Claim
    <3>2. letter'[d].status = "REPLAYING" /\ \A n \in Transport : n # d => letter'[n] = letter[n]
      BY <2>0, <3>1 DEF DeliveryInv, TypeOK, Letters
    <3>3. Fate!Moves(d, "AVAILABLE", "REPLAYING")
      BY <2>0, <2>3, <3>1, <3>2, JudgedFate
    <3> QED
      BY <2>0, <3>3 DEF Fate!FateNext, Fate!Claim
  <2>4. CASE Complete(r) /\ letter[d].status = "REPLAYING"
    <3>1. /\ letter' = [letter EXCEPT ![d] = [status |-> "REPLAYED", sent |-> replay[r].sent]]
          /\ UNCHANGED <<message, progress>>
      BY <2>4 DEF Complete
    <3>2. letter'[d].status = "REPLAYED" /\ \A n \in Transport : n # d => letter'[n] = letter[n]
      BY <2>0, <3>1 DEF DeliveryInv, TypeOK
    <3>3. Fate!Moves(d, "REPLAYING", "REPLAYED")
      BY <2>0, <2>4, <3>1, <3>2, JudgedFate
    <3>4. \E m \in Transport : Origins[m] = d
      BY <2>4 DEF Complete, DeliveryInv, ReplayShape, Origins
    <3> QED
      BY <2>0, <3>3, <3>4 DEF Fate!FateNext, Fate!Confirm
  <2>5. CASE Fail(r) /\ letter[d].status = "REPLAYING"
    <3>1. letter' = [letter EXCEPT ![d].status = "REVIEW_REQUIRED"] /\ UNCHANGED <<message, progress>>
      BY <2>5 DEF Fail
    <3>2. letter'[d].status = "REVIEW_REQUIRED" /\ \A n \in Transport : n # d => letter'[n] = letter[n]
      BY <2>0, <3>1 DEF DeliveryInv, TypeOK, Letters
    <3>3. Fate!Moves(d, "REPLAYING", "REVIEW_REQUIRED")
      BY <2>0, <2>5, <3>1, <3>2, JudgedFate
    <3> QED
      BY <2>0, <3>3 DEF Fate!FateNext, Fate!Doubt
  <2>6. CASE \/ \E m \in Transport : ReplayRead(r, m)
             \/ CompleteFails(r) \/ ReplayDies(r)
             \/ Claim(r) /\ letter[d].status # "AVAILABLE"
             \/ (Complete(r) \/ Fail(r)) /\ letter[d].status # "REPLAYING"
    BY <1>1, <2>6 DEF ReplayRead, CompleteFails, ReplayDies, Claim, Complete, Fail
  <2> QED
    BY <2>2, <2>3, <2>4, <2>5, <2>6 DEF ReplayStep
<1> QED
  BY <1>2, <1>3

LEMMA InitFate == Init => Fate!FateInit /\ Readable
<1> SUFFICES ASSUME Init PROVE Fate!FateInit /\ Readable
  OBVIOUS
<1>1. \A m \in Transport :
        /\ [event |-> message[m].event, form |-> message[m].form] = Fate!Nothing
        /\ message[m].place = "unsent" /\ message[m].from = None
        /\ progress[m] = "none" /\ letter[m].status = "NONE"
  BY DEF Init, Unsent, NoLetter, Fate!Nothing
<1>2. Fate!FateInit
  BY <1>1 DEF Fate!FateInit, Contents, Standings, Works, Verdicts, Origins
<1>3. Readable
  BY DEF Init, IdleReplay, Readable
<1> QED
  BY <1>2, <1>3

LEMMA StepFate == DeliveryInv /\ Readable /\ [Next]_vars => [Fate!FateNext]_fates
<1> SUFFICES ASSUME DeliveryInv, Readable, [Next]_vars
             PROVE  Fate!FateNext \/ UNCHANGED fates
  OBVIOUS
<1>1. ASSUME UNCHANGED <<message, progress, letter>> PROVE UNCHANGED fates
  BY <1>1 DEF fates, Contents, Standings, Works, Verdicts, Origins
<1>2. ASSUME SameContent, UNCHANGED <<progress, letter>>,
             \A m \in Transport : message[m].place = "acked" <=> message'[m].place = "acked"
      PROVE  UNCHANGED fates
  <2>1. Standings' = Standings
    BY <1>2 DEF SameContent, Standings
  <2>2. Works' = Works /\ Verdicts' = Verdicts
    BY <1>2 DEF Works, Verdicts
  <2> QED
    BY <1>2, <2>1, <2>2, SameFate DEF fates
<1>3. CASE (\E e \in Event : CreateScenario(e)) \/ UNCHANGED vars
  BY <1>1, <1>3 DEF CreateScenario, vars
<1>4. ASSUME NEW m \in Transport, NEW e \in Event, PublishScenario(e, m) PROVE Fate!FateNext
  BY <1>4, PublishedFate DEF PublishScenario, Forms
<1>5. ASSUME NEW m \in Transport, NEW e \in Event \cup {None}, PublishPoison(e, m)
      PROVE  Fate!FateNext
  BY <1>5, PublishedFate DEF PublishPoison, Forms
<1>6. ASSUME NEW m \in Transport, Forward(m) PROVE UNCHANGED fates
  <2>1. /\ message[m].place = "topic" /\ UNCHANGED <<progress, letter>>
        /\ message' = [message EXCEPT ![m].place = "dead"] /\ "dead" \in Places
    BY <1>6 DEF Forward, Places
  <2>2. /\ SameContent /\ message'[m].place = "dead"
        /\ \A n \in Transport : n # m => message'[n] = message[n]
    BY <2>1, Moved DEF DeliveryInv
  <2> QED
    BY <1>2, <2>1, <2>2
<1>7. ASSUME NEW m \in Transport, NEW p \in Push, Deliver(p, m) \/ DeliverDead(p, m)
      PROVE  UNCHANGED fates
  <2>1. CASE Deliver(p, m)
    <3>1. SameContent /\ \A n \in Transport : message'[n].place = message[n].place
      BY <2>1, Counted DEF Deliver, DeliveryInv
    <3> QED
      BY <1>2, <2>1, <3>1 DEF Deliver
  <2>2. CASE DeliverDead(p, m)
    BY <1>1, <2>2 DEF DeliverDead
  <2> QED
    BY <1>7, <2>1, <2>2
<1>8. ASSUME NEW p \in Push, PushFails(p) PROVE UNCHANGED fates
  BY <1>1, <1>8 DEF PushFails
<1> QED
  BY <1>3, <1>4, <1>5, <1>6, <1>7, <1>8, HandlerFate, ReplayFate DEF Next

\* The delivery path implements MessageFate: every step publishes a message, begins or ends
\* its workflow, settles it, records, claims, publishes again or judges a dead letter, or
\* leaves every fate alone.
THEOREM RefinesFate == Spec => ImplementsFate
<1>1. Init => DeliveryInv /\ Fate!FateInit /\ Readable
  BY InitDelivery, InitFate
<1>2. DeliveryInv /\ Readable /\ [Next]_vars => DeliveryInv' /\ Readable'
  BY NextDelivery, StaysReadable
<1>3. DeliveryInv /\ Readable /\ [Next]_vars => [Fate!FateNext]_(Fate!fateVars)
  BY StepFate DEF Fate!fateVars, fates
<1> QED
  BY <1>1, <1>2, <1>3, PTL DEF Spec, ImplementsFate, Fate!FateSpec
===============================================================================

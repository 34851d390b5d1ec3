---------------------------- MODULE ActivityStream ----------------------------
(***************************************************************************)
(* The activity history as the operator console sees it.  Workers and the  *)
(* API append rows whose cursor comes from a sequence.  The API fans the   *)
(* rows out over server-sent events: a poller reads what is new and        *)
(* broadcasts it, a client that connects is first caught up and queues     *)
(* what is broadcast meanwhile.  The console repairs what it missed from   *)
(* snapshots before it opens the stream, and starts over when it breaks.   *)
(*                                                                         *)
(* Source: apps/api/src/services/activity-stream-service.ts,               *)
(* apps/api/src/routes/activity-routes.ts,                                 *)
(* packages/database/src/repositories/activity-event-repository.ts,        *)
(* apps/web/src/features/telemetry/ActivityStreamConsumer.ts.              *)
(*                                                                         *)
(* An event is its cursor; redaction and formatting are left out.          *)
(***************************************************************************)
EXTENDS Naturals, FiniteSets, Sequences, SequencesExt

CONSTANTS
  Console,         \* operator consoles, one ActivityStreamConsumer each
  MaxCursor,       \* bound on the rows that are inserted
  PageSize,        \* pageSize of the service
  Window,          \* limit of the snapshots that the console asks for
  MaxConnections,  \* SSE clients that the service accepts
  MaxFaults        \* bound on broken connections, failed requests and restarts

ASSUME BoundsAssumption ==
  /\ MaxCursor \in Nat /\ MaxFaults \in Nat
  /\ PageSize \in Nat \ {0} /\ Window \in Nat \ {0} /\ MaxConnections \in Nat \ {0}

VARIABLES
  row,       \* rows of activity_event_records by cursor
  observed,  \* observedCursor of the service
  poll,      \* pollPersistedEvents in progress, with its throughCursor
  client,    \* the service's StreamClient of each console
  zombies,   \* clients of connections that the service does not know to be broken
  wire,      \* what was written to each connection and not read yet
  console,   \* the consumers
  feed,      \* the cursors passed to onEvent, in order
  since,     \* the cursor after which the console is shown everything
  faults

vars == <<row, observed, poll, client, zombies, wire, console, feed, since, faults>>

Cursor == 1..MaxCursor

IdlePoll == [busy |-> FALSE, through |-> 0]
NoClient == [stage |-> "none", cursor |-> 0, through |-> 0, pending |-> {}]
NewConsole == [pc |-> "down", last |-> 0, through |-> 0]

Init ==
  /\ row = [k \in Cursor |-> "unused"]
  /\ observed = 0
  /\ poll = IdlePoll
  /\ client = [c \in Console |-> NoClient]
  /\ zombies = 0
  /\ wire = [c \in Console |-> <<>>]
  /\ console = [c \in Console |-> NewConsole]
  /\ feed = [c \in Console |-> <<>>]
  /\ since = [c \in Console |-> 0]
  /\ faults = 0

Fault == faults < MaxFaults /\ faults' = faults + 1

-----------------------------------------------------------------------------
(* The table. *)

\* A row is late when a later one was visible before it.
Committed == {k \in Cursor : row[k] \in {"committed", "late"}}
OnTime == {k \in Cursor : row[k] = "committed"}

Increasing(s) == \A i, j \in DOMAIN s : i < j => s[i] < s[j]
Ascending(S) == CHOOSE s \in [1..Cardinality(S) -> S] : Increasing(s)

\* recordActivityEvent takes the next value of the sequence ...
Insert(k) ==
  /\ row[k] = "unused" /\ \A j \in 1..(k - 1) : row[j] # "unused"
  /\ row' = [row EXCEPT ![k] = "open"]
  /\ UNCHANGED <<observed, poll, client, zombies, wire, console, feed, since, faults>>

\* ... and its transaction commits, in whatever order, or leaves a gap.
Commit(k) ==
  /\ row[k] = "open"
  /\ row' = [row EXCEPT ![k] = IF \E j \in Committed : j > k THEN "late" ELSE "committed"]
  /\ UNCHANGED <<observed, poll, client, zombies, wire, console, feed, since, faults>>

Abort(k) ==
  /\ row[k] = "open"
  /\ row' = [row EXCEPT ![k] = "aborted"]
  /\ UNCHANGED <<observed, poll, client, zombies, wire, console, feed, since, faults>>

LatestCursor == IF Committed = {} THEN 0 ELSE CHOOSE k \in Committed : \A j \in Committed : j <= k

FirstOf(n, s) == SubSeq(s, 1, IF Len(s) < n THEN Len(s) ELSE n)
LastOf(n, s) == SubSeq(s, IF Len(s) < n THEN 1 ELSE Len(s) - n + 1, Len(s))

EventsBetween(after, through, limit) ==
  FirstOf(limit, Ascending({k \in Committed : after < k /\ k <= through}))
LatestEvents(limit) == LastOf(limit, Ascending(Committed))

-----------------------------------------------------------------------------
(* The service. *)

Connected == {c \in Console : client[c].stage # "none"}
ClientCount == Cardinality(Connected) + zombies

\* sendActivity skips what the client is past; what it is given is in ascending order.
NewerOrSame(cursor, s) ==    \* mutant: off by one
  SubSeq(s, CHOOSE n \in 1..(Len(s) + 1) : \A i \in DOMAIN s : s[i] >= cursor <=> i >= n, Len(s))

Newer(cursor, s) ==
  SubSeq(s, CHOOSE n \in 1..(Len(s) + 1) : \A i \in DOMAIN s : s[i] > cursor <=> i >= n, Len(s))
LastOr(cursor, s) == IF s = <<>> THEN cursor ELSE s[Len(s)]

\* registerClient, after OpenStream: the bound of the catching up is read once ...
BeginCatchUp(c) ==
  /\ client[c].stage = "registered"
  /\ client' = [client EXCEPT ![c].stage = "catchingUp", ![c].through = LatestCursor]
  /\ UNCHANGED <<row, observed, poll, zombies, wire, console, feed, since, faults>>

\* ... the pages up to it are sent, and after the last of them what was broadcast meanwhile.
CatchUp(c) ==
  LET old == client[c]
      page == IF old.cursor < old.through
              THEN EventsBetween(old.cursor, old.through, PageSize) ELSE <<>>
      cursor == LastOr(old.cursor, page)
      last == page = <<>> \/ cursor >= old.through
      queued == IF last THEN Newer(cursor, Ascending(old.pending)) ELSE <<>>
  IN
  /\ old.stage = "catchingUp"
  /\ wire' = [wire EXCEPT ![c] = @ \o page \o queued]
  /\ client' = [client EXCEPT ![c].cursor = LastOr(cursor, queued),
                              ![c].stage = IF last THEN "live" ELSE @,
                              ![c].pending = IF last THEN {} ELSE @]
  /\ UNCHANGED <<row, observed, poll, zombies, console, feed, since, faults>>

\* broadcast of a page, event by event, to every client.
QueuedNothing(c, page) == {}    \* mutant: a client that catches up misses the broadcast

Queued(c, page) == {k \in ToSet(page) : k > client[c].cursor}
Sent(c, page) == IF client[c].stage = "live" THEN Newer(client[c].cursor, page) ELSE <<>>

Broadcast(page) ==
  /\ wire' = [c \in Console |-> wire[c] \o Sent(c, page)]
  /\ client' = [c \in Console |->
       CASE client[c].stage = "none" -> client[c]
         [] client[c].stage = "live" -> [client[c] EXCEPT !.cursor = LastOr(@, Sent(c, page))]
         [] OTHER -> [client[c] EXCEPT !.pending = @ \cup Queued(c, page)]]

BeginPollLate ==    \* mutant: off by one
  /\ ~poll.busy /\ ClientCount > 0
  /\ LatestCursor > observed + 1
  /\ poll' = [busy |-> TRUE, through |-> LatestCursor]
  /\ UNCHANGED <<row, observed, client, zombies, wire, console, feed, since, faults>>

\* pollPersistedEvents, which no second call overlaps and no client makes needless.
BeginPoll ==
  /\ ~poll.busy /\ ClientCount > 0
  /\ LatestCursor > observed
  /\ poll' = [busy |-> TRUE, through |-> LatestCursor]
  /\ UNCHANGED <<row, observed, client, zombies, wire, console, feed, since, faults>>

PollPage ==
  LET page == EventsBetween(observed, poll.through, PageSize) IN
  /\ poll.busy
  /\ observed' = LastOr(observed, page)
  /\ poll' = IF page = <<>> \/ observed' >= poll.through THEN IdlePoll ELSE poll
  /\ Broadcast(page)
  /\ UNCHANGED <<row, zombies, console, feed, since, faults>>

\* The catch clause disconnects everybody.
PollFails ==
  /\ poll.busy
  /\ Fault
  /\ poll' = IdlePoll
  /\ client' = [c \in Console |-> NoClient] /\ zombies' = 0
  /\ UNCHANGED <<row, observed, wire, console, feed, since>>

\* A write is refused (a full buffer, a broken socket) or the catching up fails.
Disconnect(c) ==
  /\ client[c].stage # "none"
  /\ Fault
  /\ client' = [client EXCEPT ![c] = NoClient]
  /\ \E n \in 0..Len(wire[c]) : wire' = [wire EXCEPT ![c] = SubSeq(@, 1, n)]
  /\ UNCHANGED <<row, observed, poll, zombies, console, feed, since>>

ReapTwice ==    \* mutant: a client that is gone is counted out again
  /\ zombies' = zombies - 1
  /\ UNCHANGED <<row, observed, poll, client, wire, console, feed, since, faults>>

\* A heartbeat finds a broken connection.
Reap ==
  /\ zombies > 0
  /\ zombies' = zombies - 1
  /\ UNCHANGED <<row, observed, poll, client, wire, console, feed, since, faults>>

\* closeAll and the end of the process, then the next one.
Restart ==
  /\ Fault
  /\ observed' = 0 /\ poll' = IdlePoll
  /\ client' = [c \in Console |-> NoClient] /\ zombies' = 0
  /\ UNCHANGED <<row, wire, console, feed, since>>

-----------------------------------------------------------------------------
(* ActivityStreamConsumer. *)

\* deliverSnapshot and the activity blocks of parseSseBlock: what is not newer is dropped.
Deliver(c, s) == feed' = [feed EXCEPT ![c] = @ \o Newer(console[c].last, s)]
Shown(c, s) == LastOr(console[c].last, Newer(console[c].last, s))

\* connect: the first snapshot names the cursor up to which to repair ...
BeginRepair(c) ==
  /\ console[c].pc = "down"
  /\ console' = [console EXCEPT ![c].pc = "repair", ![c].through = LatestCursor]
  /\ UNCHANGED <<row, observed, poll, client, zombies, wire, feed, since, faults>>

\* ... for a new console it is the newest window, whatever is older is not shown.
FirstSnapshot(c) ==
  LET page == LatestEvents(Window) IN
  /\ console[c].pc = "repair" /\ console[c].last = 0
  /\ Deliver(c, page)
  /\ since' = [since EXCEPT ![c] = IF page = <<>> THEN console[c].through ELSE page[1] - 1]
  /\ console' = [console EXCEPT ![c].pc = "repaired",
       ![c].last = IF Shown(c, page) < console[c].through THEN console[c].through
                   ELSE Shown(c, page)]
  /\ UNCHANGED <<row, observed, poll, client, zombies, wire, faults>>

\* The pages of a reconnection; one that brings nothing ends it at the cursor.
RepairPage(c) ==
  LET page == EventsBetween(console[c].last, LatestCursor, Window)
      last == IF page = <<>> THEN console[c].through ELSE Shown(c, page)
  IN
  /\ console[c].pc = "repair" /\ console[c].last > 0
  /\ Deliver(c, page)
  /\ console' = [console EXCEPT ![c].last = IF @ < last THEN last ELSE @,
       ![c].pc = IF last >= console[c].through THEN "repaired" ELSE @]
  /\ UNCHANGED <<row, observed, poll, client, zombies, wire, since, faults>>

\* The request is answered by registerClient.  What an earlier connection left is gone.
OpenStream(c) ==
  /\ console[c].pc = "repaired" /\ client[c].stage = "none"
  /\ ClientCount < MaxConnections
  /\ client' = [client EXCEPT ![c] = [NoClient EXCEPT !.stage = "registered",
                                                      !.cursor = console[c].last]]
  /\ wire' = [wire EXCEPT ![c] = <<>>]
  /\ console' = [console EXCEPT ![c].pc = "streaming"]
  /\ UNCHANGED <<row, observed, poll, zombies, feed, since, faults>>

\* 503; the console starts over.
Refused(c) ==
  /\ console[c].pc = "repaired"
  /\ ClientCount >= MaxConnections
  /\ console' = [console EXCEPT ![c].pc = "down"]
  /\ UNCHANGED <<row, observed, poll, client, zombies, wire, feed, since, faults>>

ReadBlock(c) ==
  /\ console[c].pc = "streaming" /\ wire[c] # <<>>
  /\ Deliver(c, <<wire[c][1]>>)
  /\ console' = [console EXCEPT ![c].last = Shown(c, <<wire[c][1]>>)]
  /\ wire' = [wire EXCEPT ![c] = Tail(@)]
  /\ UNCHANGED <<row, observed, poll, client, zombies, since, faults>>

StreamEnds(c) ==
  /\ console[c].pc = "streaming" /\ wire[c] = <<>> /\ client[c].stage = "none"
  /\ console' = [console EXCEPT ![c].pc = "down"]
  /\ UNCHANGED <<row, observed, poll, client, zombies, wire, feed, since, faults>>

\* A request fails, or the connection breaks and the service does not notice.
Breaks(c) ==
  /\ console[c].pc \in {"repair", "repaired", "streaming"}
  /\ Fault
  /\ console' = [console EXCEPT ![c].pc = "down"]
  /\ zombies' = IF client[c].stage = "none" THEN zombies ELSE zombies + 1
  /\ client' = [client EXCEPT ![c] = NoClient]
  /\ wire' = [wire EXCEPT ![c] = <<>>]
  /\ UNCHANGED <<row, observed, poll, feed, since>>

-----------------------------------------------------------------------------
ServiceStep(c) == BeginCatchUp(c) \/ CatchUp(c)
ConsoleStep(c) ==
  \/ BeginRepair(c) \/ FirstSnapshot(c) \/ RepairPage(c)
  \/ OpenStream(c) \/ Refused(c) \/ ReadBlock(c) \/ StreamEnds(c)

Next ==
  \/ \E k \in Cursor : Insert(k) \/ Commit(k) \/ Abort(k)
  \/ BeginPoll \/ PollPage \/ PollFails \/ Reap \/ Restart
  \/ \E c \in Console : ServiceStep(c) \/ ConsoleStep(c) \/ Disconnect(c) \/ Breaks(c)

Spec == Init /\ [][Next]_vars

\* Timers come round, reads answer, and a transaction ends.
Fairness ==
  /\ WF_vars(BeginPoll) /\ WF_vars(PollPage) /\ WF_vars(Reap)
  /\ \A c \in Console : WF_vars(ServiceStep(c)) /\ WF_vars(ConsoleStep(c))

FairSpec == Spec /\ Fairness

-----------------------------------------------------------------------------
(* Properties. *)

TypeOK ==
  /\ row \in [Cursor -> {"unused", "open", "committed", "late", "aborted"}]
  /\ observed \in 0..MaxCursor
  /\ poll \in [busy : BOOLEAN, through : 0..MaxCursor]
  /\ client \in [Console -> [stage : {"none", "registered", "catchingUp", "live"},
                             cursor : 0..MaxCursor, through : 0..MaxCursor,
                             pending : SUBSET Cursor]]
  /\ zombies \in 0..MaxFaults
  /\ wire \in [Console -> Seq(Cursor)]
  /\ console \in [Console -> [pc : {"down", "repair", "repaired", "streaming"},
                              last : 0..MaxCursor, through : 0..MaxCursor]]
  /\ feed \in [Console -> Seq(Cursor)]
  /\ since \in [Console -> 0..MaxCursor]
  /\ faults \in 0..MaxFaults

\* In order, nothing twice, nothing that is not there, and of the rows between two
\* cursors at least those that were on time.
Covers(s, low, high) ==
  /\ Increasing(s) /\ ToSet(s) \subseteq Committed
  /\ \A k \in ToSet(s) : low < k /\ k <= high
  /\ \A k \in OnTime : low < k /\ k <= high => k \in ToSet(s)

\* The console is shown the rows from its first snapshot to its cursor once and in order,
\* whatever the stream, the catching up and the repairs were doing meanwhile; only a row
\* that became visible after a later one may be missing.
FeedIsExact == \A c \in Console : Covers(feed[c], since[c], console[c].last)

\* What is on its way to a console continues what it has, up to the client's cursor.
WireContinuesFeed == \A c \in Console :
  client[c].stage \notin {"none", "registered"} =>
    /\ console[c].last <= client[c].cursor
    /\ Covers(wire[c], console[c].last, client[c].cursor)

\* A row that is on time is shown to every console sooner or later, unless it is older
\* than the console's first snapshot.
EveryRowIsShown == \A c \in Console, k \in Cursor :
  row[k] = "committed" ~> (k \in ToSet(feed[c]) \/ k <= since[c])
=============================================================================

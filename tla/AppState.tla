------------------------------ MODULE AppState ------------------------------
(***************************************************************************)
(* server/state.py, the store every collector thread writes and every HTTP *)
(* and WebSocket reader reads, together with the /ws handler of            *)
(* server/app.py that pushes it to browser tabs.                           *)
(*                                                                         *)
(* Atomicity is that of the code: a `with self.lock` block is one step; a  *)
(* call that does more than that (a time stamp before the block, a log     *)
(* line or an event after it) takes several, and other threads run in      *)
(* between.  An item is identified by its global sequence number, text and *)
(* measured values are left out.                                           *)
(***************************************************************************)
EXTENDS Integers, Sequences, FiniteSets

CONSTANTS
  Threads,         \* the threads that call the recording API
  Clients,         \* browser tabs, each served by one /ws handler
  Badges,          \* AppState.badges
  Fields,          \* fw_info, selftest, ports, fw_update
  BadgeState,      \* the states collectors report (never "unknown")
  Owner,           \* [Badges \cup Fields -> Threads]: its only writer
  ConsoleThreads,  \* callers of add_console_line
  StatusThreads,   \* callers of add_status
  MaxLen,          \* maxlen of the three deques
  SnapLen,         \* console_n, events_n, status_n of snapshot()
  NoBadge,         \* an event that reports no badge transition
  MaxClock         \* bound on the calls a run makes

Kinds == {"console", "events", "status"}
Logged == {"console", "events"}          \* the kinds that have a log file
Cells == Badges \cup Fields

ASSUME ConstAssumption ==
  /\ "unknown" \notin BadgeState
  /\ NoBadge \notin Badges
  /\ Owner \in [Cells -> Threads]
  /\ ConsoleThreads \subseteq Threads
  /\ StatusThreads \subseteq Threads
  /\ MaxLen \in [Kinds -> Nat \ {0}]
  /\ SnapLen \in [Kinds -> Nat]
  /\ \A k \in Kinds : SnapLen[k] <= MaxLen[k]

VARIABLES
  clock,   \* readings of time.time() so far; a reading returns their number
  seq,     \* AppState._seq
  store,   \* store[k]: the deque of kind k, oldest item first
  cell,    \* cell[x]: a badge or another field, with the time of its update
  file,    \* file[k]: the lines of console-*.log and events-*.jsonl
  job,     \* job[t]: the recording call thread t is inside of
  conn,    \* conn[c]: tab c has an open /ws
  cursor,  \* cursor[c]: the handler's cursor
  view,    \* view[c][k]: the items the tab was sent since its last snapshot
  seen,    \* seen[c]: the badges and fields the tab was last sent
  posted,  \* history: posted[k] is every item of kind k ever recorded
  joined   \* history: the cursor of the snapshot tab c started from

reads == <<conn, cursor, view, seen, joined>>
vars == <<clock, seq, store, cell, file, job, reads, posted>>

\* What an event says: a badge went from old to new, or something else.
Note == [badge |-> NoBadge, old |-> "unknown", new |-> "unknown"]
Report == [badge : Badges \cup {NoBadge},
           old : BadgeState \cup {"unknown"}, new : BadgeState \cup {"unknown"}]

\* knows is a history field: how recent each cell was when the call began.
Item == [seq : Nat, ts : Nat, what : Report, knows : [Cells -> Nat]]

Blank == [seq |-> 0, ts |-> 0, what |-> Note, knows |-> [x \in Cells |-> 0]]
Idle == [pc |-> "idle", kind |-> "events", item |-> Blank]

Init ==
  /\ clock = 0
  /\ seq = 0
  /\ store = [k \in Kinds |-> <<>>]
  /\ cell = [x \in Cells |-> [val |-> "unknown", ts |-> 0]]
  /\ file = [k \in Logged |-> <<>>]
  /\ job = [t \in Threads |-> Idle]
  /\ conn = [c \in Clients |-> FALSE]
  /\ cursor = [c \in Clients |-> 0]
  /\ view = [c \in Clients |-> [k \in Kinds |-> {}]]
  /\ seen = [c \in Clients |-> [x \in Cells |-> 0]]
  /\ posted = [k \in Kinds |-> <<>>]
  /\ joined = [c \in Clients |-> 0]

-----------------------------------------------------------------------------
(* The deques.                                                             *)

\* Faulty variant: a full deque drops the new item.
PushIfRoom(k, q, x) == IF Len(q) < MaxLen[k] THEN Append(q, x) ELSE q

\* deque(maxlen=...).append: a full deque drops its oldest item.
Push(k, q, x) == IF Len(q) < MaxLen[k] THEN Append(q, x) ELSE Append(Tail(q), x)

\* list(q)[-n:]
LastN(q, n) == {q[i] : i \in {j \in DOMAIN q : j > Len(q) - n}}

\* Faulty variant: starts one item too late.
AfterNext(q, n) == {q[i] : i \in {j \in DOMAIN q : q[j].seq > n + 1}}

\* [... for s, ... in q if s > cursor]
After(q, n) == {q[i] : i \in {j \in DOMAIN q : q[j].seq > n}}

\* self.<kind>.append((self._next_seq(), ...)), inside the lock
Post(k, x) ==
  LET y == [x EXCEPT !.seq = seq + 1]
  IN  /\ seq' = seq + 1
      /\ store' = [store EXCEPT ![k] = Push(k, @, y)]
      /\ posted' = [posted EXCEPT ![k] = Append(@, y)]

-----------------------------------------------------------------------------
(* Recording: add_console_line, add_event, add_status, set_badge, set_*.   *)

Free(t) == job[t].pc = "idle" /\ clock < MaxClock

\* `ts = time.time()`, the first statement of add_console_line and add_event.
Enter(t, k, what) ==
  /\ clock' = clock + 1
  /\ job' = [job EXCEPT ![t] =
       [pc |-> "append", kind |-> k,
        item |-> [seq |-> 0, ts |-> clock + 1, what |-> what,
                  knows |-> [x \in Cells |-> cell[x].ts]]]]
  /\ UNCHANGED <<seq, store, cell, file, reads, posted>>

AddConsoleLine(t) == t \in ConsoleThreads /\ Free(t) /\ Enter(t, "console", Note)

AddEvent(t) == Free(t) /\ Enter(t, "events", Note)

\* Faulty variant: an event is not logged.
RecordOnly(t) ==
  /\ job[t].pc = "append"
  /\ Post(job[t].kind, job[t].item)
  /\ job' = [job EXCEPT ![t] = IF @.kind = "events" THEN Idle
                              ELSE [@ EXCEPT !.pc = "write", !.item.seq = seq + 1]]
  /\ UNCHANGED <<clock, cell, file, reads>>

\* The locked block of add_console_line and add_event.
Record(t) ==
  /\ job[t].pc = "append"
  /\ Post(job[t].kind, job[t].item)
  /\ job' = [job EXCEPT ![t].pc = "write", ![t].item.seq = seq + 1]
  /\ UNCHANGED <<clock, cell, file, reads>>

\* The line is written to the log file after the lock was released.
Write(t) ==
  /\ job[t].pc = "write"
  /\ file' = [file EXCEPT ![job[t].kind] = Append(@, job[t].item)]
  /\ job' = [job EXCEPT ![t] = Idle]
  /\ UNCHANGED <<clock, seq, store, cell, reads, posted>>

\* add_status stamps and appends under the lock and writes no log.
AddStatus(t) ==
  /\ t \in StatusThreads
  /\ Free(t)
  /\ clock' = clock + 1
  /\ Post("status", [Blank EXCEPT !.ts = clock + 1])
  /\ UNCHANGED <<cell, file, job, reads>>

\* Faulty variant: old_state is read after the update.
SetBadgeReadLate(t, b, s) ==
  /\ Owner[b] = t
  /\ Free(t)
  /\ clock' = clock + 1
  /\ cell' = [cell EXCEPT ![b] = [val |-> s, ts |-> clock + 1]]
  /\ job' = [job EXCEPT ![t] =
                [pc |-> "report", kind |-> "events",
                 item |-> [Blank EXCEPT !.what = [badge |-> b, old |-> s, new |-> s]]]]
  /\ UNCHANGED <<seq, store, file, reads, posted>>

\* set_badge: the locked update; a change of a known state is reported by an
\* add_event that the thread calls after releasing the lock.
SetBadge(t, b, s) ==
  /\ Owner[b] = t
  /\ Free(t)
  /\ clock' = clock + 1
  /\ cell' = [cell EXCEPT ![b] = [val |-> s, ts |-> clock + 1]]
  /\ job' = IF cell[b].val \in {s, "unknown"} THEN job
            ELSE [job EXCEPT ![t] =
                   [pc |-> "report", kind |-> "events",
                    item |-> [Blank EXCEPT !.what =
                                [badge |-> b, old |-> cell[b].val, new |-> s]]]]
  /\ UNCHANGED <<seq, store, file, reads, posted>>

\* Faulty variant: the report is given up.
ReportDropped(t) ==
  /\ job[t].pc = "report"
  /\ job' = [job EXCEPT ![t] = Idle]
  /\ UNCHANGED <<clock, seq, store, cell, file, reads, posted>>

ReportBadge(t) == job[t].pc = "report" /\ Enter(t, "events", job[t].item.what)

\* set_fw_info, set_selftest, set_ports, set_fw_update
SetField(t, x) ==
  /\ Owner[x] = t
  /\ Free(t)
  /\ clock' = clock + 1
  /\ cell' = [cell EXCEPT ![x].ts = clock + 1]
  /\ UNCHANGED <<seq, store, file, job, reads, posted>>

-----------------------------------------------------------------------------
(* Reading: the /ws handler and the tab at its other end.  A connection    *)
(* delivers in order what is sent until it breaks, so the tab is updated   *)
(* when the handler sends; a tab keeps what it shows when its connection   *)
(* breaks and clears it on the next snapshot.                              *)

CellTimes == [x \in Cells |-> cell[x].ts]

\* Faulty variant: the first delta starts at 0, not at the snapshot's cursor.
ConnectFromZero(c) ==
  /\ ~conn[c]
  /\ conn' = [conn EXCEPT ![c] = TRUE]
  /\ cursor' = [cursor EXCEPT ![c] = 0]
  /\ joined' = [joined EXCEPT ![c] = seq]
  /\ view' = [view EXCEPT ![c] = [k \in Kinds |-> LastN(store[k], SnapLen[k])]]
  /\ seen' = [seen EXCEPT ![c] = CellTimes]
  /\ UNCHANGED <<clock, seq, store, cell, file, job, posted>>

Connect(c) ==
  /\ ~conn[c]
  /\ conn' = [conn EXCEPT ![c] = TRUE]
  /\ cursor' = [cursor EXCEPT ![c] = seq]
  /\ joined' = [joined EXCEPT ![c] = seq]
  /\ view' = [view EXCEPT ![c] = [k \in Kinds |-> LastN(store[k], SnapLen[k])]]
  /\ seen' = [seen EXCEPT ![c] = CellTimes]
  /\ UNCHANGED <<clock, seq, store, cell, file, job, posted>>

\* Faulty variant: the badges are not sent again.
DeltaItemsOnly(c) ==
  /\ conn[c]
  /\ cursor' = [cursor EXCEPT ![c] = seq]
  /\ view' = [view EXCEPT ![c] =
                [k \in Kinds |-> @[k] \cup After(store[k], cursor[c])]]
  /\ UNCHANGED <<clock, seq, store, cell, file, job, conn, seen, joined, posted>>

\* One turn of the 5 Hz loop: delta_since(cursor).
Delta(c) ==
  /\ conn[c]
  /\ cursor' = [cursor EXCEPT ![c] = seq]
  /\ view' = [view EXCEPT ![c] =
                [k \in Kinds |-> @[k] \cup After(store[k], cursor[c])]]
  /\ seen' = [seen EXCEPT ![c] = CellTimes]
  /\ UNCHANGED <<clock, seq, store, cell, file, job, conn, joined, posted>>

\* Faulty variant: the cursor becomes a sentinel.
DisconnectReset(c) ==
  /\ conn[c]
  /\ conn' = [conn EXCEPT ![c] = FALSE]
  /\ cursor' = [cursor EXCEPT ![c] = -1]
  /\ UNCHANGED <<clock, seq, store, cell, file, job, view, seen, joined, posted>>

Disconnect(c) ==
  /\ conn[c]
  /\ conn' = [conn EXCEPT ![c] = FALSE]
  /\ UNCHANGED <<clock, seq, store, cell, file, job, cursor, view, seen, joined,
                 posted>>

-----------------------------------------------------------------------------
Call(t) ==
  \/ AddConsoleLine(t)
  \/ AddEvent(t)
  \/ AddStatus(t)
  \/ \E b \in Badges, s \in BadgeState : SetBadge(t, b, s)
  \/ \E x \in Fields : SetField(t, x)

\* The rest of a call that has begun.
Finish(t) == ReportBadge(t) \/ Record(t) \/ Write(t)

Next ==
  \/ \E t \in Threads : Call(t) \/ Finish(t)
  \/ \E c \in Clients : Connect(c) \/ Delta(c) \/ Disconnect(c)

Spec == Init /\ [][Next]_vars

\* A thread inside a call is never blocked for good: the lock is only held
\* for a few statements.  The handler of an open tab runs every 0.2 s.
Fairness ==
  /\ \A t \in Threads : WF_vars(Finish(t))
  /\ \A c \in Clients : WF_vars(Delta(c))

FairSpec == Spec /\ Fairness

-----------------------------------------------------------------------------
(* What the code promises.                                                 *)

TypeOK ==
  /\ clock \in Nat
  /\ seq \in Nat
  /\ store \in [Kinds -> Seq(Item)]
  /\ cell \in [Cells -> [val : BadgeState \cup {"unknown"}, ts : Nat]]
  /\ file \in [Logged -> Seq(Item)]
  /\ job \in [Threads -> [pc : {"idle", "report", "append", "write"},
                          kind : Logged, item : Item]]
  /\ conn \in [Clients -> BOOLEAN]
  /\ cursor \in [Clients -> Nat]
  /\ view \in [Clients -> [Kinds -> SUBSET Item]]
  /\ seen \in [Clients -> [Cells -> Nat]]
  /\ posted \in [Kinds -> Seq(Item)]
  /\ joined \in [Clients -> Nat]

\* However recordings and pushes interleave, and however often a tab comes
\* back, it has been sent every item recorded since its snapshot, up to its
\* cursor, that is among the MaxLen newest of its kind.
Given(p, from, to, m, v) ==
  \A i \in DOMAIN p :
    (p[i].seq \in from + 1 .. to /\ i > Len(p) - m) => p[i] \in v

NothingSkipped ==
  \A c \in Clients, k \in Kinds :
    Given(posted[k], joined[c], cursor[c], MaxLen[k], view[c][k])

\* A tab never shows a line or an event from a time when some badge or field
\* was newer than the one in the tab's panel: the delta that brings an event
\* such as "console: open -> absent" also brings the badge.
ReportsFollowPanel ==
  \A c \in Clients, k \in Kinds : \A e \in view[c][k] : \A x \in Cells :
    e.knows[x] <= seen[c][x]

\* The reports of badge b in the timeline, as positions.
ReportsOf(b) ==
  {i \in DOMAIN posted["events"] : posted["events"][i].what.badge = b}

\* A report of b that has not reached the timeline yet.
Unreported(b) ==
  /\ job[Owner[b]].pc \in {"report", "append"}
  /\ job[Owner[b]].item.what.badge = b

\* Read from the timeline alone, each badge has an unbroken history: every
\* report starts from the state the one before ended in, and the last one
\* ends in the state the badge is in, as soon as its thread has reported it.
BadgeHistory ==
  \A b \in Badges : \A i \in ReportsOf(b) :
    LET e == posted["events"]
        later == {j \in ReportsOf(b) : j > i}
    IN  IF later = {} THEN Unreported(b) \/ e[i].what.new = cell[b].val
        ELSE \A j \in later : (\A n \in later : j <= n)
                                => e[j].what.old = e[i].what.new

\* The log files hold what the timeline and the console got, each item once
\* and nothing else, but for the items whose thread is about to write them.
LogMatchesTimeline ==
  \A k \in Logged :
    LET writing == {t \in Threads : job[t].pc = "write" /\ job[t].kind = k}
    IN  /\ Len(file[k]) + Cardinality(writing) = Len(posted[k])
        /\ \A i \in DOMAIN posted[k] :
             \/ \E j \in DOMAIN file[k] : file[k][j] = posted[k][i]
             \/ \E t \in writing : job[t].item = posted[k][i]

\* Each deque is the newest part of all that was recorded of its kind.
IsNewest(q, p, m) ==
  /\ Len(q) = IF Len(p) < m THEN Len(p) ELSE m
  /\ \A i \in 1 .. Len(q) : q[i] = p[i + (Len(p) - Len(q))]

StoreIsNewest == \A k \in Kinds : IsNewest(store[k], posted[k], MaxLen[k])

\* Recorded items are numbered in the order they were recorded in.
Rising(p, n) ==
  \A i \in DOMAIN p :
    p[i].seq \in 1 .. n /\ \A j \in DOMAIN p : i < j => p[i].seq < p[j].seq

Numbered == \A k \in Kinds : Rising(posted[k], seq)

\* A tab has not been sent anything beyond its cursor.
CursorsBound ==
  \A c \in Clients :
    /\ joined[c] <= cursor[c] /\ cursor[c] <= seq
    /\ \A k \in Kinds : \A e \in view[c][k] : e.seq <= cursor[c]

\* No item and no panel is ahead of a badge, and no badge ahead of the clock.
KnowsPast ==
  \A x \in Cells :
    /\ cell[x].ts <= clock
    /\ \A t \in Threads : job[t].item.knows[x] <= cell[x].ts
    /\ \A k \in Kinds : \A i \in DOMAIN store[k] : store[k][i].knows[x] <= cell[x].ts
    /\ \A c \in Clients : seen[c][x] <= cell[x].ts

\* What makes NothingSkipped and ReportsFollowPanel inductive: a cursor can
\* stand for the items below it because numbers grow with the deque, and the
\* deque loses only what the promise gives up.
FeedInv ==
  /\ StoreIsNewest
  /\ Numbered
  /\ CursorsBound
  /\ NothingSkipped
  /\ KnowsPast
  /\ ReportsFollowPanel

\* The tab appends what a delta brings to what it shows and never sorts, so a
\* delta may only bring items newer than all it was sent before.
OrderedDelivery ==
  [][\A c \in Clients, k \in Kinds : conn[c] /\ conn'[c] =>
       \A x \in view'[c][k] \ view[c][k], y \in view[c][k] : x.seq > y.seq]_vars

\* The store and its /ws handlers implement the feed of LiveFeed.tla.
Feed == INSTANCE LiveFeed WITH
  published <- [k \in Kinds |-> Len(posted[k])],
  upto <- [c \in Clients |-> [k \in Kinds |->
             Cardinality({i \in DOMAIN posted[k] : posted[k][i].seq <= cursor[c]})]],
  has <- [c \in Clients |-> [k \in Kinds |->
             {i \in DOMAIN posted[k] : posted[k][i] \in view[c][k]}]],
  on <- conn

FeedSpec == Feed!Spec

\* The n-th item of kind k exists and tab c was sent it.
Shown(c, k, n) == n <= Len(posted[k]) /\ posted[k][n] \in view[c][k]

\* An item recorded while a tab is connected is shown there, unless MaxLen
\* newer ones push it out of the deque first or the tab goes away.
EventuallyShown ==
  \A c \in Clients, k \in Kinds, n \in 1 .. MaxClock :
    (conn[c] /\ Len(posted[k]) >= n /\ posted[k][n].seq > joined[c])
      ~> (~conn[c] \/ Shown(c, k, n) \/ Len(posted[k]) - MaxLen[k] >= n)

\* A change of a badge from a known state ends up as a line of the event log,
\* though it is reported after the badge has changed and the lock is free.
EventuallyLogged ==
  \A b \in Badges, n \in 1 .. MaxClock :
    (cell[b].ts = n /\ job[Owner[b]].pc = "report" /\ Unreported(b))
      ~> \E j \in DOMAIN file["events"] : /\ file["events"][j].what.badge = b
                                        /\ file["events"][j].knows[b] = n
=============================================================================

----------------------- MODULE AppStateHistoryProofs -----------------------
(***************************************************************************)
(* What is left behind by AppState: proofs that the log files match the    *)
(* timeline, that the timeline tells the history of each badge, and that   *)
(* the store and its /ws handlers implement LiveFeed.                      *)
(***************************************************************************)
EXTENDS AppStateProofs, FiniteSetTheorems

-----------------------------------------------------------------------------
(* The log files.                                                          *)

\* The threads that are about to write a line of kind k.
Writing(k) == {t \in Threads : job[t].pc = "write" /\ job[t].kind = k}

\* Even of infinitely many threads only finitely many are inside a call.
LogInv == LogMatchesTimeline /\ \A k \in Logged : IsFiniteSet(Writing(k))

\* The parts of LogInv that follow one log file.
LogOf(k) ==
  /\ IsFiniteSet(Writing(k))
  /\ Len(file[k]) + Cardinality(Writing(k)) = Len(posted[k])
  /\ \A i \in DOMAIN posted[k] :
       \/ \E j \in DOMAIN file[k] : file[k][j] = posted[k][i]
       \/ \E t \in Writing(k) : job[t].item = posted[k][i]

LEMMA LogParts ==
  /\ LogInv <=> \A k \in Logged : LogOf(k)
  /\ LogInv' <=> \A k \in Logged : LogOf(k)'
BY Zenon DEF LogInv, LogMatchesTimeline, LogOf, Writing

\* A step that writes no line and appends to no logged deque.
LEMMA LogIdle ==
  ASSUME NEW k \in Logged, LogOf(k), file'[k] = file[k], posted'[k] = posted[k],
         \A t \in Threads : job'[t] = job[t]
                            \/ (job[t].pc # "write" /\ job'[t].pc # "write")
  PROVE  LogOf(k)'
<1>1. Writing(k)' = Writing(k) /\ \A t \in Writing(k) : job'[t] = job[t]
  BY DEF Writing
<1> QED
  BY <1>1 DEF LogOf

\* The append of an item, whose thread will write it.
LEMMA LogRecord ==
  ASSUME TypeOK, TypeOK', NEW t \in Threads, Record(t), NEW k \in Logged, LogOf(k)
  PROVE  LogOf(k)'
<1> DEFINE y == [job[t].item EXCEPT !.seq = seq + 1]
<1>1. /\ job[t].kind \in Logged /\ job[t].pc = "append" /\ file' = file
      /\ \A u \in Threads \ {t} : job'[u] = job[u]
      /\ job'[t].pc = "write" /\ job'[t].kind = job[t].kind /\ job'[t].item = y
  BY DEF Record, TypeOK
<1>2. /\ posted'[job[t].kind] = Append(posted[job[t].kind], y)
      /\ \A h \in Kinds \ {job[t].kind} : posted'[h] = posted[h]
  BY <1>1 DEF Record, Post, TypeOK, Logged, Kinds
<1> HIDE DEF y
<1>3. CASE k # job[t].kind
  <2>1. Writing(k)' = Writing(k) /\ \A u \in Writing(k) : job'[u] = job[u]
    BY <1>1, <1>3 DEF Writing
  <2>2. posted'[k] = posted[k]
    BY <1>2, <1>3 DEF Logged, Kinds
  <2> QED
    BY <1>1, <2>1, <2>2 DEF LogOf
<1>4. CASE k = job[t].kind
  <2>1. Writing(k)' = Writing(k) \cup {t} /\ t \notin Writing(k)
        /\ \A u \in Writing(k) : job'[u] = job[u]
    BY <1>1, <1>4 DEF Writing
  <2>2. /\ IsFiniteSet(Writing(k)')
        /\ Cardinality(Writing(k)') = Cardinality(Writing(k)) + 1
        /\ Cardinality(Writing(k)) \in Nat
    BY <2>1, FS_AddElement, FS_CardinalityType DEF LogOf
  <2>3. posted[k] \in Seq(Item) /\ posted'[k] \in Seq(Item) /\ file[k] \in Seq(Item)
    BY DEF TypeOK, Logged, Kinds
  <2>4. /\ Len(posted'[k]) = Len(posted[k]) + 1 /\ posted'[k][Len(posted[k]) + 1] = y
        /\ \A i \in 1 .. Len(posted[k]) : posted'[k][i] = posted[k][i]
    <3>1. posted'[k] = Append(posted[k], y)
      BY <1>2, <1>4
    <3> QED
      BY <2>3, <3>1
  <2>5. Len(file'[k]) + Cardinality(Writing(k)') = Len(posted'[k])
    <3>1. Len(file[k]) \in Nat /\ Len(posted[k]) \in Nat
      BY <2>3
    <3> QED
      BY <1>1, <2>2, <2>4, <3>1 DEF LogOf
  <2>6. ASSUME NEW i \in DOMAIN posted'[k]
        PROVE  \/ \E j \in DOMAIN file'[k] : file'[k][j] = posted'[k][i]
               \/ \E u \in Writing(k)' : job'[u].item = posted'[k][i]
    <3>1. CASE i = Len(posted[k]) + 1
      BY <1>1, <2>1, <2>4, <3>1
    <3>2. CASE i # Len(posted[k]) + 1
      <4>1. i \in DOMAIN posted[k] /\ posted'[k][i] = posted[k][i]
        BY <2>3, <2>4, <3>2
      <4>2. \/ \E j \in DOMAIN file[k] : file[k][j] = posted[k][i]
            \/ \E u \in Writing(k) : job[u].item = posted[k][i]
        BY <4>1 DEF LogOf
      <4>3. file'[k] = file[k] /\ \A u \in Writing(k) : u \in Writing(k)'
        BY <1>1, <2>1
      <4> QED
        BY <4>1, <4>2, <4>3, <2>1, Zenon
    <3> QED
      BY <3>1, <3>2
  <2> QED
    BY <2>2, <2>5, <2>6 DEF LogOf
<1> QED
  BY <1>3, <1>4

\* The write of the line.
LEMMA LogWrite ==
  ASSUME TypeOK, TypeOK', NEW t \in Threads, Write(t), NEW k \in Logged, LogOf(k)
  PROVE  LogOf(k)'
<1> DEFINE y == job[t].item
<1>1. /\ job[t].kind \in Logged /\ job[t].pc = "write" /\ posted' = posted
      /\ \A u \in Threads \ {t} : job'[u] = job[u]
      /\ job'[t].pc = "idle"
      /\ file'[job[t].kind] = Append(file[job[t].kind], y)
      /\ \A h \in Logged \ {job[t].kind} : file'[h] = file[h]
  BY DEF Write, Idle, TypeOK
<1>2. CASE k # job[t].kind
  <2>1. Writing(k)' = Writing(k) /\ \A u \in Writing(k) : job'[u] = job[u]
    BY <1>1, <1>2 DEF Writing
  <2> QED
    BY <1>1, <1>2, <2>1 DEF LogOf
<1>3. CASE k = job[t].kind
  <2>1. Writing(k)' = Writing(k) \ {t} /\ t \in Writing(k)
        /\ \A u \in Writing(k)' : job'[u] = job[u]
    BY <1>1, <1>3 DEF Writing
  <2>2. /\ IsFiniteSet(Writing(k)')
        /\ Cardinality(Writing(k)') = Cardinality(Writing(k)) - 1
        /\ Cardinality(Writing(k)) \in Nat
    BY <2>1, FS_RemoveElement, FS_CardinalityType DEF LogOf
  <2>3. /\ posted[k] \in Seq(Item) /\ file[k] \in Seq(Item) /\ y \in Item
        /\ file'[k] \in Seq(Item)
    BY DEF TypeOK, Logged, Kinds
  <2>4. /\ Len(file'[k]) = Len(file[k]) + 1 /\ file'[k][Len(file[k]) + 1] = y
        /\ \A j \in 1 .. Len(file[k]) : file'[k][j] = file[k][j]
        /\ Len(file[k]) \in Nat
    <3>1. file'[k] = Append(file[k], y)
      BY <1>1, <1>3
    <3> QED
      BY <2>3, <3>1
  <2>5. Len(file'[k]) + Cardinality(Writing(k)') = Len(posted'[k])
    <3>1. Len(posted'[k]) = Len(file[k]) + Cardinality(Writing(k))
      BY <1>1 DEF LogOf
    <3>2. \A m, n \in Nat : (m + 1) + (n - 1) = m + n
      OBVIOUS
    <3> QED
      BY <2>2, <2>4, <3>1, <3>2
  <2>6. ASSUME NEW i \in DOMAIN posted'[k]
        PROVE  \/ \E j \in DOMAIN file'[k] : file'[k][j] = posted'[k][i]
               \/ \E u \in Writing(k)' : job'[u].item = posted'[k][i]
    <3>1. i \in DOMAIN posted[k] /\ posted'[k][i] = posted[k][i]
      BY <1>1
    <3>2. CASE \E j \in DOMAIN file[k] : file[k][j] = posted[k][i]
      <4>1. PICK j \in DOMAIN file[k] : file[k][j] = posted[k][i]
        BY <3>2
      <4>2. j \in DOMAIN file'[k] /\ file'[k][j] = posted'[k][i]
        BY <2>3, <2>4, <3>1, <4>1
      <4> QED
        BY <4>2
    <3>3. CASE \E u \in Writing(k) : job[u].item = posted[k][i]
      <4>1. PICK u \in Writing(k) : job[u].item = posted[k][i]
        BY <3>3
      <4>2. CASE u = t
        <5>1. Len(file[k]) + 1 \in DOMAIN file'[k]
              /\ file'[k][Len(file[k]) + 1] = posted'[k][i]
          BY <2>3, <2>4, <3>1, <4>1, <4>2
        <5> QED
          BY <5>1
      <4>3. CASE u # t
        BY <1>1, <2>1, <3>1, <4>1, <4>3
      <4> QED
        BY <4>2, <4>3
    <3> QED
      BY <3>1, <3>2, <3>3 DEF LogOf
  <2> QED
    BY <2>2, <2>5, <2>6 DEF LogOf
<1> QED
  BY <1>2, <1>3

LEMMA LogInit == Init => LogInv
<1> SUFFICES ASSUME Init PROVE LogInv
  OBVIOUS
<1>1. ASSUME NEW k \in Logged PROVE LogOf(k)
  <2>1. file[k] = <<>> /\ posted[k] = <<>> /\ Writing(k) = {}
    BY DEF Init, Idle, Writing, Logged, Kinds
  <2>2. Len(<<>>) = 0 /\ 1 .. 0 = {}
    OBVIOUS
  <2> QED
    BY <2>1, <2>2, FS_EmptySet DEF LogOf
<1> QED
  BY <1>1, LogParts

LEMMA LogStep == TypeOK /\ TypeOK' /\ LogInv /\ [Next]_vars => LogInv'
<1> SUFFICES ASSUME TypeOK, TypeOK', LogInv, [Next]_vars, NEW k \in Logged, LogOf(k)
             PROVE  LogOf(k)'
  BY LogParts
<1>1. k \in Kinds /\ k # "status"
  BY DEF Logged, Kinds
<1>2. CASE UNCHANGED vars
  BY <1>2, LogIdle DEF vars
<1>3. ASSUME NEW c \in Clients, Connect(c) \/ Delta(c) \/ Disconnect(c) PROVE LogOf(k)'
  BY <1>3, LogIdle DEF Connect, Delta, Disconnect
<1>4. ASSUME NEW t \in Threads, NEW h \in Logged, NEW what, Enter(t, h, what),
             job[t].pc \in {"idle", "report"}
      PROVE  LogOf(k)'
  <2>1. /\ \A u \in Threads \ {t} : job'[u] = job[u]
        /\ job'[t].pc = "append" /\ UNCHANGED <<file, posted>>
    BY <1>4 DEF Enter, TypeOK
  <2> QED
    BY <1>4, <2>1, LogIdle
<1>5. ASSUME NEW t \in Threads, AddConsoleLine(t) \/ AddEvent(t) \/ ReportBadge(t)
      PROVE  LogOf(k)'
  BY <1>4, <1>5 DEF AddConsoleLine, AddEvent, ReportBadge, Free, Logged
<1>6. ASSUME NEW t \in Threads, AddStatus(t) PROVE LogOf(k)'
  <2>1. UNCHANGED <<file, job>> /\ posted'[k] = posted[k]
    BY <1>1, <1>6 DEF AddStatus, Post, TypeOK
  <2> QED
    BY <2>1, LogIdle
<1>7. ASSUME NEW t \in Threads, NEW b \in Badges, NEW s \in BadgeState, SetBadge(t, b, s)
      PROVE  LogOf(k)'
  <2>1. \A u \in Threads : job'[u] = job[u] \/ (u = t /\ job'[u].pc = "report")
    BY <1>7 DEF SetBadge, TypeOK
  <2>2. job[t].pc = "idle" /\ UNCHANGED <<file, posted>>
    BY <1>7 DEF SetBadge, Free
  <2> QED
    BY <2>1, <2>2, LogIdle
<1>8. ASSUME NEW t \in Threads, NEW x \in Fields, SetField(t, x) PROVE LogOf(k)'
  BY <1>8, LogIdle DEF SetField
<1> QED
  BY <1>2, <1>3, <1>5, <1>6, <1>7, <1>8, LogRecord, LogWrite DEF Next, Call, Finish

\* Each line and event gets to its log file once, and nothing else does, apart
\* from those that a thread has recorded and is about to write.
THEOREM LogTheorem == Spec => []LogMatchesTimeline
<1>1. LogInv => LogMatchesTimeline
  BY DEF LogInv
<1> QED
  BY <1>1, LogInit, LogStep, TypeCorrect, PTL DEF Spec

-----------------------------------------------------------------------------
(* The history of a badge.                                                 *)

\* The thread is inside a call that will put a badge into the timeline.
Reporting(t) == job[t].pc \in {"report", "append"} /\ job[t].item.what.badge \in Badges

\* Only the owner of a badge reports it, as an event.
OwnReports ==
  \A t \in Threads : Reporting(t) =>
    job[t].kind = "events" /\ t = Owner[job[t].item.what.badge]

\* The state of b that the timeline has not been told to have ended.
Told(b) == IF Unreported(b) THEN job[Owner[b]].item.what.old ELSE cell[b].val

\* Reports of b are linked to each other, and the last one to what comes next;
\* a badge nobody has set has no reports.
Linked(b) ==
  LET e == posted["events"]
      R == ReportsOf(b)
  IN  /\ \A i, j \in R : i < j /\ (\A m \in R : ~(i < m /\ m < j))
           => e[j].what.old = e[i].what.new
      /\ \A i \in R : (\A j \in R : j <= i) => e[i].what.new = Told(b)
      /\ cell[b].val = "unknown" => R = {} /\ ~Unreported(b)
      /\ Unreported(b) => job[Owner[b]].item.what.new = cell[b].val

HistoryInv == OwnReports /\ \A b \in Badges : Linked(b)

\* A step that touches neither the reports of b nor what b's owner has to say.
LEMMA LinkedStays ==
  ASSUME NEW b \in Badges, Linked(b), cell'[b].val = cell[b].val,
         ReportsOf(b)' = ReportsOf(b),
         \A i \in ReportsOf(b) : posted'["events"][i] = posted["events"][i],
         Unreported(b)' <=> Unreported(b),
         Unreported(b) => job'[Owner[b]].item.what = job[Owner[b]].item.what
  PROVE  Linked(b)'
<1>1. Told(b)' = Told(b)
  BY DEF Told
<1> QED
  BY <1>1 DEF Linked

\* A step that records nothing and leaves alone what threads have to say.
LEMMA QuietHistory ==
  ASSUME HistoryInv, posted'["events"] = posted["events"],
         \A b \in Badges : cell'[b].val = cell[b].val,
         \A t \in Threads : /\ Reporting(t)' <=> Reporting(t)
                            /\ Reporting(t) => /\ job'[t].kind = job[t].kind
                                               /\ job'[t].item.what = job[t].item.what
  PROVE  HistoryInv'
<1>1. OwnReports'
  BY DEF HistoryInv, OwnReports
<1>2. ASSUME NEW b \in Badges PROVE Linked(b)'
  <2>1. Owner[b] \in Threads
    BY ConstAssumption DEF Cells
  <2>2. ReportsOf(b)' = ReportsOf(b)
    BY DEF ReportsOf
  <2>3. Unreported(b) => Reporting(Owner[b])
    BY DEF Unreported, Reporting
  <2>4. Unreported(b)' => Reporting(Owner[b])'
    BY DEF Unreported, Reporting
  <2>5. Unreported(b)' <=> Unreported(b)
    BY <2>1, <2>3, <2>4 DEF Unreported, Reporting
  <2> QED
    BY <2>1, <2>2, <2>3, <2>5, LinkedStays DEF HistoryInv
<1> QED
  BY <1>1, <1>2 DEF HistoryInv

\* A call that begins, or goes on to report: it says what it had to say.
LEMMA EnterHistory ==
  ASSUME TypeOK, HistoryInv, NEW t \in Threads, NEW k \in Logged, NEW what,
         Enter(t, k, what),
         \/ job[t].pc = "idle" /\ what = Note
         \/ job[t].pc = "report" /\ what = job[t].item.what /\ k = "events"
  PROVE  HistoryInv'
<1>1. /\ \A u \in Threads \ {t} : job'[u] = job[u]
      /\ job'[t].pc = "append" /\ job'[t].kind = k /\ job'[t].item.what = what
      /\ posted' = posted /\ cell' = cell
  BY DEF Enter, TypeOK
<1>2. ASSUME NEW u \in Threads
      PROVE  /\ Reporting(u)' <=> Reporting(u)
             /\ Reporting(u) => /\ job'[u].kind = job[u].kind
                                /\ job'[u].item.what = job[u].item.what
  <2>1. CASE u # t
    BY <1>1, <2>1 DEF Reporting
  <2>2. CASE u = t /\ job[t].pc = "idle" /\ what = Note
    BY <1>1, <2>2, ConstAssumption DEF Reporting, Note
  <2>3. CASE u = t /\ job[t].pc = "report" /\ what = job[t].item.what /\ k = "events"
    BY <1>1, <2>3 DEF Reporting, HistoryInv, OwnReports
  <2> QED
    BY <2>1, <2>2, <2>3
<1> QED
  BY <1>1, <1>2, QuietHistory

\* A badge is set: a change of a known state is left to be reported.
LEMMA SetBadgeHistory ==
  ASSUME TypeOK, HistoryInv, NEW t \in Threads, NEW b \in Badges, NEW s \in BadgeState,
         SetBadge(t, b, s)
  PROVE  HistoryInv'
<1>1. /\ Owner[b] = t /\ job[t].pc = "idle" /\ posted' = posted
      /\ cell'[b].val = s /\ \A d \in Badges \ {b} : cell'[d] = cell[d]
      /\ s # "unknown"
  BY ConstAssumption DEF SetBadge, Free, TypeOK, Cells
<1>2. ~Reporting(t) /\ ~Unreported(b) /\ Told(b) = cell[b].val
  BY <1>1 DEF Reporting, Unreported, Told
<1>3. \A d \in Badges : ReportsOf(d)' = ReportsOf(d)
  BY <1>1 DEF ReportsOf
<1>4. CASE cell[b].val \in {s, "unknown"}
  <2>1. job' = job
    BY <1>4 DEF SetBadge
  <2>2. \A d \in Badges : Unreported(d)' <=> Unreported(d)
    BY <2>1 DEF Unreported
  <2>3. OwnReports'
    BY <2>1 DEF HistoryInv, OwnReports, Reporting
  <2>4. ASSUME NEW d \in Badges, d # b PROVE Linked(d)'
    BY <1>1, <1>3, <2>1, <2>2, <2>4, LinkedStays DEF HistoryInv
  <2>5. CASE cell[b].val = s
    BY <1>1, <1>3, <2>1, <2>2, <2>3, <2>4, <2>5, LinkedStays DEF HistoryInv
  <2>6. CASE cell[b].val = "unknown"
    <3>1. ReportsOf(b)' = {} /\ ~Unreported(b)'
      BY <1>2, <1>3, <2>2, <2>6 DEF HistoryInv, Linked
    <3>2. Linked(b)'
      BY <1>1, <3>1 DEF Linked
    <3> QED
      BY <2>3, <2>4, <3>2 DEF HistoryInv
  <2> QED
    BY <1>4, <2>5, <2>6
<1>5. CASE cell[b].val \notin {s, "unknown"}
  <2>1. /\ \A u \in Threads \ {t} : job'[u] = job[u]
        /\ job'[t].pc = "report" /\ job'[t].kind = "events"
        /\ job'[t].item.what = [badge |-> b, old |-> cell[b].val, new |-> s]
    BY <1>5 DEF SetBadge, TypeOK, Blank
  <2>2. OwnReports'
    <3>1. \A u \in Threads \ {t} : Reporting(u)' => Reporting(u)
      BY <2>1 DEF Reporting
    <3> QED
      BY <1>1, <2>1, <3>1 DEF HistoryInv, OwnReports
  <2>3. ASSUME NEW d \in Badges, d # b PROVE Linked(d)'
    <3>1. Owner[d] \in Threads
      BY ConstAssumption DEF Cells
    <3>2. CASE Owner[d] = t
      <4>1. ~Unreported(d) /\ ~Unreported(d)'
        BY <1>1, <2>1, <2>3, <3>2 DEF Unreported
      <4> QED
        BY <1>1, <1>3, <2>3, <4>1, LinkedStays DEF HistoryInv
    <3>3. CASE Owner[d] # t
      <4>1. job'[Owner[d]] = job[Owner[d]]
        BY <2>1, <3>1, <3>3
      <4>2. Unreported(d)' <=> Unreported(d)
        BY <4>1 DEF Unreported
      <4> QED
        BY <1>1, <1>3, <2>3, <4>1, <4>2, LinkedStays DEF HistoryInv
    <3> QED
      BY <3>2, <3>3
  <2>4. Linked(b)'
    <3>1. Unreported(b)'
      BY <1>1, <2>1 DEF Unreported
    <3>2. Told(b)' = Told(b)
      BY <1>1, <1>2, <2>1, <3>1 DEF Told
    <3>3. Linked(b)
      BY DEF HistoryInv
    <3> QED
      BY <1>1, <1>3, <2>1, <3>2, <3>3 DEF Linked
  <2> QED
    BY <2>2, <2>3, <2>4 DEF HistoryInv
<1> QED
  BY <1>4, <1>5

\* A report gets into the timeline, after the ones before it.
LEMMA LinkedNext ==
  ASSUME NEW b \in Badges, Linked(b), Unreported(b), ~Unreported(b)', cell' = cell,
         NEW n \in Nat, ReportsOf(b) \subseteq 1 .. n, ReportsOf(b)' = ReportsOf(b) \cup {n + 1},
         \A i \in 1 .. n : posted'["events"][i] = posted["events"][i],
         posted'["events"][n + 1].what = job[Owner[b]].item.what
  PROVE  Linked(b)'
<1> DEFINE e == posted["events"]
           R == ReportsOf(b)
<1>1. /\ Told(b) = job[Owner[b]].item.what.old /\ Told(b)' = cell[b].val
      /\ cell[b].val # "unknown" /\ job[Owner[b]].item.what.new = cell[b].val
  BY DEF Told, Linked
<1>2. ASSUME NEW i \in R', NEW j \in R', i < j, \A m \in R' : ~(i < m /\ m < j)
      PROVE  e'[j].what.old = e'[i].what.new
  <2>1. i \in R /\ i \in 1 .. n /\ i < n + 1
    BY <1>2
  <2>2. CASE j = n + 1
    <3>1. \A m \in R : m <= i
      BY <1>2, <2>1, <2>2
    <3>2. e[i].what.new = Told(b)
      BY <2>1, <3>1 DEF Linked
    <3> QED
      BY <1>1, <2>1, <2>2, <3>2
  <2>3. CASE j # n + 1
    <3>1. j \in R /\ j \in 1 .. n
      BY <2>3
    <3>2. \A m \in R : ~(i < m /\ m < j)
      BY <1>2
    <3>3. e[j].what.old = e[i].what.new
      BY <1>2, <2>1, <3>1, <3>2 DEF Linked
    <3> QED
      BY <2>1, <3>1, <3>3
  <2> QED
    BY <2>2, <2>3
<1>3. ASSUME NEW i \in R', \A j \in R' : j <= i PROVE e'[i].what.new = Told(b)'
  <2>1. i = n + 1
    BY <1>3
  <2> QED
    BY <1>1, <2>1
<1> QED
  BY <1>1, <1>2, <1>3 DEF Linked

LEMMA RecordHistory ==
  ASSUME TypeOK, HistoryInv, NEW t \in Threads, Record(t)
  PROVE  HistoryInv'
<1> DEFINE e == posted["events"]
           n == Len(e)
           y == [job[t].item EXCEPT !.seq = seq + 1]
<1>1. /\ \A u \in Threads \ {t} : job'[u] = job[u]
      /\ job[t].pc = "append" /\ job'[t].pc = "write" /\ cell' = cell
      /\ job[t].kind \in Logged /\ job[t].item \in Item
  BY DEF Record, TypeOK
<1>2. ~Reporting(t)' /\ \A u \in Threads \ {t} : Reporting(u)' <=> Reporting(u)
  BY <1>1 DEF Reporting
<1>3. OwnReports'
  BY <1>1, <1>2 DEF HistoryInv, OwnReports
<1>4. posted'[job[t].kind] = Append(posted[job[t].kind], y)
      /\ \A h \in Kinds \ {job[t].kind} : posted'[h] = posted[h]
  BY <1>1 DEF Record, Post, TypeOK, Logged, Kinds
<1>5. CASE job[t].kind # "events"
  <2>1. ~Reporting(t)
    BY <1>5 DEF HistoryInv, OwnReports
  <2>2. posted'["events"] = posted["events"]
    BY <1>4, <1>5 DEF Kinds
  <2>3. \A u \in Threads : Reporting(u)' <=> Reporting(u)
    BY <1>2, <2>1
  <2>4. \A u \in Threads : Reporting(u) => job'[u] = job[u]
    BY <1>1, <2>1
  <2> QED
    BY <1>1, <2>2, <2>3, <2>4, QuietHistory
<1>6. CASE job[t].kind = "events"
  <2>1. e \in Seq(Item) /\ n \in Nat /\ DOMAIN e = 1 .. n
    BY DEF TypeOK, Kinds
  <2>2. y.what = job[t].item.what
    BY <1>1 DEF Item
  <2>3. e' = Append(e, y)
    BY <1>4, <1>6
  <2> HIDE DEF y
  <2>4. /\ DOMAIN e' = 1 .. (n + 1) /\ e'[n + 1].what = job[t].item.what
        /\ \A i \in 1 .. n : e'[i] = e[i]
    BY <2>1, <2>2, <2>3
  <2>5. ASSUME NEW b \in Badges, job[t].item.what.badge # b PROVE Linked(b)'
    <3>1. ReportsOf(b) \subseteq 1 .. n
      BY <2>1 DEF ReportsOf
    <3>2. ReportsOf(b)' = ReportsOf(b)
      BY <2>1, <2>4, <2>5 DEF ReportsOf
    <3>3. Owner[b] \in Threads
      BY ConstAssumption DEF Cells
    <3>4. Unreported(b)' <=> Unreported(b)
      BY <1>1, <2>5, <3>3 DEF Unreported
    <3>5. Unreported(b) => Owner[b] # t
      BY <2>5 DEF Unreported
    <3> QED
      BY <1>1, <2>4, <3>1, <3>2, <3>3, <3>4, <3>5, LinkedStays DEF HistoryInv
  <2>6. ASSUME NEW b \in Badges, job[t].item.what.badge = b PROVE Linked(b)'
    <3>1. Owner[b] = t
      BY <1>1, <2>6 DEF Reporting, HistoryInv, OwnReports
    <3>2. Unreported(b) /\ ~Unreported(b)'
      BY <1>1, <2>6, <3>1 DEF Unreported
    <3>3. ReportsOf(b) \subseteq 1 .. n
      BY <2>1 DEF ReportsOf
    <3>4. ReportsOf(b)' = ReportsOf(b) \cup {n + 1}
      BY <2>1, <2>4, <2>6 DEF ReportsOf
    <3>5. Linked(b)
      BY DEF HistoryInv
    <3> QED
      BY <1>1, <2>1, <2>4, <3>1, <3>2, <3>3, <3>4, <3>5, LinkedNext
  <2> QED
    BY <1>3, <2>5, <2>6 DEF HistoryInv
<1> QED
  BY <1>5, <1>6

LEMMA HistoryInit == Init => HistoryInv
<1> SUFFICES ASSUME Init PROVE HistoryInv
  OBVIOUS
<1>1. \A t \in Threads : ~Reporting(t)
  BY DEF Init, Idle, Reporting
<1>2. ASSUME NEW b \in Badges PROVE Linked(b)
  <2>1. Owner[b] \in Threads
    BY ConstAssumption DEF Cells
  <2>2. ReportsOf(b) = {}
    BY DEF Init, ReportsOf, Kinds
  <2>3. ~Unreported(b)
    BY <2>1, <1>1 DEF Unreported, Reporting
  <2> QED
    BY <2>2, <2>3 DEF Linked
<1> QED
  BY <1>1, <1>2 DEF HistoryInv, OwnReports

LEMMA HistoryStep == TypeOK /\ HistoryInv /\ [Next]_vars => HistoryInv'
<1> SUFFICES ASSUME TypeOK, HistoryInv, [Next]_vars PROVE HistoryInv'
  OBVIOUS
<1>1. ASSUME UNCHANGED <<job, posted>>, \A b \in Badges : cell'[b].val = cell[b].val
      PROVE  HistoryInv'
  BY <1>1, QuietHistory DEF Reporting
<1>2. CASE UNCHANGED vars
  BY <1>1, <1>2 DEF vars
<1>3. ASSUME NEW c \in Clients, Connect(c) \/ Delta(c) \/ Disconnect(c) PROVE HistoryInv'
  BY <1>1, <1>3 DEF Connect, Delta, Disconnect
<1>4. ASSUME NEW t \in Threads, AddConsoleLine(t) \/ AddEvent(t) \/ ReportBadge(t)
      PROVE  HistoryInv'
  BY <1>4, EnterHistory DEF AddConsoleLine, AddEvent, ReportBadge, Free, Logged
<1>5. ASSUME NEW t \in Threads, AddStatus(t) PROVE HistoryInv'
  <2>1. UNCHANGED <<cell, job>> /\ posted'["events"] = posted["events"]
    BY <1>5 DEF AddStatus, Post, TypeOK, Kinds
  <2> QED
    BY <2>1, QuietHistory DEF Reporting
<1>6. ASSUME NEW t \in Threads, NEW x \in Fields, SetField(t, x) PROVE HistoryInv'
  <2>1. \A b \in Badges : cell'[b].val = cell[b].val
    BY <1>6 DEF SetField, TypeOK, Cells
  <2> QED
    BY <1>1, <1>6, <2>1 DEF SetField
<1>7. ASSUME NEW t \in Threads, Write(t) PROVE HistoryInv'
  <2>1. /\ \A u \in Threads \ {t} : job'[u] = job[u]
        /\ job[t].pc = "write" /\ job'[t].pc = "idle" /\ UNCHANGED <<cell, posted>>
    BY <1>7 DEF Write, TypeOK, Idle
  <2>2. ~Reporting(t) /\ ~Reporting(t)'
    BY <2>1 DEF Reporting
  <2>3. \A u \in Threads \ {t} : Reporting(u)' <=> Reporting(u)
    BY <2>1 DEF Reporting
  <2> QED
    BY <2>1, <2>2, <2>3, QuietHistory
<1> QED
  BY <1>2, <1>3, <1>4, <1>5, <1>6, <1>7, SetBadgeHistory, RecordHistory
     DEF Next, Call, Finish

\* Read from the timeline alone, every badge has an unbroken history that ends
\* in the state the badge is in, as soon as its thread has reported it.
THEOREM HistoryTheorem == Spec => []BadgeHistory
<1>1. TypeOK /\ HistoryInv => BadgeHistory
  <2> SUFFICES ASSUME TypeOK, HistoryInv, NEW b \in Badges, NEW i \in ReportsOf(b)
               PROVE  LET e == posted["events"]
                          later == {j \in ReportsOf(b) : j > i}
                      IN  IF later = {} THEN Unreported(b) \/ e[i].what.new = cell[b].val
                          ELSE \A j \in later : (\A n \in later : j <= n)
                                                  => e[j].what.old = e[i].what.new
    BY DEF BadgeHistory
  <2>1. ReportsOf(b) \subseteq Nat
    BY DEF ReportsOf, TypeOK, Kinds
  <2>2. Linked(b)
    BY DEF HistoryInv
  <2>3. ASSUME {j \in ReportsOf(b) : j > i} = {}, ~Unreported(b)
        PROVE  posted["events"][i].what.new = cell[b].val
    <3>1. \A j \in ReportsOf(b) : j <= i
      BY <2>1, <2>3
    <3> QED
      BY <2>2, <2>3, <3>1 DEF Linked, Told
  <2>4. ASSUME NEW j \in ReportsOf(b), j > i,
               \A n \in ReportsOf(b) : n > i => j <= n
        PROVE  posted["events"][j].what.old = posted["events"][i].what.new
    <3>1. i < j /\ \A m \in ReportsOf(b) : ~(i < m /\ m < j)
      BY <2>1, <2>4
    <3> QED
      BY <2>2, <3>1 DEF Linked
  <2> QED
    BY <2>3, <2>4
<1> QED
  BY <1>1, HistoryInit, HistoryStep, TypeCorrect, PTL DEF Spec

-----------------------------------------------------------------------------
(* The feed.                                                               *)

\* The positions of the items of kind k that the cursor of tab c stands for,
\* and of those that were sent to the tab.
Behind(c, k) == {i \in DOMAIN posted[k] : posted[k][i].seq <= cursor[c]}
Has(c, k) == {i \in DOMAIN posted[k] : posted[k][i] \in view[c][k]}

\* A cursor stands for the first items of each kind, as many as there are.
Prefixes ==
  \A c \in Clients, k \in Kinds :
    /\ Cardinality(Behind(c, k)) \in Nat
    /\ Behind(c, k) = 1 .. Cardinality(Behind(c, k))

\* The two positions that hold an item, in the deque and in all there was.
LEMMA StorePlace ==
  ASSUME TypeOK, StoreIsNewest, Numbered, NEW k \in Kinds
  PROVE  LET p == posted[k]
             q == store[k]
         IN  /\ Len(p) \in Nat /\ Len(q) \in Nat /\ Len(q) <= Len(p)
             /\ Len(q) = Len(p) \/ (Len(q) = MaxLen[k] /\ MaxLen[k] < Len(p))
             /\ Len(q) <= MaxLen[k] /\ MaxLen[k] \in Nat
             /\ DOMAIN p = 1 .. Len(p) /\ DOMAIN q = 1 .. Len(q)
             /\ \A i \in DOMAIN p, j \in DOMAIN q :
                  p[i] = q[j] <=> i = j + (Len(p) - Len(q))
<1> DEFINE p == posted[k]
           q == store[k]
<1>1. p \in Seq(Item) /\ q \in Seq(Item) /\ MaxLen[k] \in Nat \ {0}
  BY ConstAssumption DEF TypeOK
<1>2. IsNewest(q, p, MaxLen[k]) /\ Rising(p, seq)
  BY DEF StoreIsNewest, Numbered
<1> HIDE DEF p, q
<1>3. /\ Len(p) \in Nat /\ Len(q) \in Nat
      /\ DOMAIN p = 1 .. Len(p) /\ DOMAIN q = 1 .. Len(q)
  BY <1>1
<1>4. Len(q) = IF Len(p) < MaxLen[k] THEN Len(p) ELSE MaxLen[k]
  BY <1>2 DEF IsNewest
<1>5. /\ Len(q) <= Len(p) /\ Len(q) <= MaxLen[k]
      /\ Len(q) = Len(p) \/ (Len(q) = MaxLen[k] /\ MaxLen[k] < Len(p))
  BY <1>1, <1>3, <1>4
<1>6. ASSUME NEW i \in 1 .. Len(p), NEW j \in 1 .. Len(q)
      PROVE  p[i] = q[j] <=> i = j + (Len(p) - Len(q))
  <2> DEFINE m == j + (Len(p) - Len(q))
  <2>1. m \in 1 .. Len(p) /\ q[j] = p[m]
    BY <1>2, <1>3, <1>5 DEF IsNewest
  <2>2. p[i] \in Item /\ p[m] \in Item
    BY <1>1, <1>3, <2>1
  <2>3. p[i].seq \in Nat /\ p[m].seq \in Nat
    BY <2>2 DEF Item
  <2> HIDE DEF m
  <2>4. /\ i < m => p[i].seq < p[m].seq
        /\ m < i => p[m].seq < p[i].seq
    BY <1>2, <1>3, <2>1 DEF Rising
  <2>5. p[i] = p[m] => i = m
    BY <2>1, <2>3, <2>4
  <2> QED
    BY <2>1, <2>5 DEF m
<1> QED
  BY <1>1, <1>3, <1>5, <1>6 DEF p, q

\* A snapshot gives a tab the newest SnapLen[k] items.
LEMMA SnapshotGives ==
  ASSUME TypeOK, StoreIsNewest, Numbered, NEW k \in Kinds
  PROVE  {i \in DOMAIN posted[k] : posted[k][i] \in LastN(store[k], SnapLen[k])}
           = Feed!Newest(SnapLen[k], 0, Len(posted[k]))
<1> DEFINE p == posted[k]
           q == store[k]
           n == Len(p)
           l == Len(q)
           s == SnapLen[k]
<1>1. s \in Nat /\ s <= MaxLen[k]
  BY ConstAssumption
<1>2. /\ n \in Nat /\ l \in Nat /\ l <= n /\ MaxLen[k] \in Nat
      /\ l = n \/ (l = MaxLen[k] /\ MaxLen[k] < n)
      /\ DOMAIN p = 1 .. n /\ DOMAIN q = 1 .. l
      /\ \A i \in DOMAIN p, j \in DOMAIN q : p[i] = q[j] <=> i = j + (n - l)
  BY StorePlace
<1> HIDE DEF p, q, n, l, s
<1>3. ASSUME NEW i \in 1 .. n, p[i] \in LastN(q, s) PROVE i > n - s
  <2>1. PICK j \in DOMAIN q : j > l - s /\ p[i] = q[j]
    BY <1>3 DEF LastN, l
  <2>2. i = j + (n - l)
    BY <1>2, <2>1
  <2> QED
    BY <1>1, <1>2, <2>1, <2>2
<1>4. ASSUME NEW i \in 1 .. n, i > n - s PROVE p[i] \in LastN(q, s)
  <2>1. PICK j \in DOMAIN q : j > l - s /\ i = j + (n - l)
    <3>1. i - (n - l) \in 1 .. l /\ i - (n - l) > l - s /\ i = (i - (n - l)) + (n - l)
      BY <1>1, <1>2, <1>4
    <3> QED
      BY <1>2, <3>1
  <2>2. p[i] = q[j]
    BY <1>2, <2>1
  <2> QED
    BY <2>1, <2>2 DEF LastN, l
<1>5. {i \in 1 .. n : p[i] \in LastN(q, s)} = {i \in 1 .. n : i > n - s}
  BY <1>3, <1>4
<1> QED
  BY <1>2, <1>5 DEF Feed!Newest, p, q, n, s

\* A delta gives a tab the items beyond its cursor that are still retained.
LEMMA DeltaGives ==
  ASSUME TypeOK, StoreIsNewest, Numbered, Prefixes, NEW k \in Kinds, NEW c \in Clients
  PROVE  {i \in DOMAIN posted[k] : posted[k][i] \in After(store[k], cursor[c])}
           = Feed!Newest(MaxLen[k], Cardinality(Behind(c, k)), Len(posted[k]))
<1> DEFINE p == posted[k]
           q == store[k]
           n == Len(p)
           l == Len(q)
           m == Cardinality(Behind(c, k))
<1>1. m \in Nat /\ Behind(c, k) = 1 .. m
  BY DEF Prefixes
<1>2. /\ n \in Nat /\ l \in Nat /\ l <= n /\ MaxLen[k] \in Nat
      /\ l = n \/ (l = MaxLen[k] /\ MaxLen[k] < n)
      /\ l <= MaxLen[k]
      /\ DOMAIN p = 1 .. n /\ DOMAIN q = 1 .. l
      /\ \A i \in DOMAIN p, j \in DOMAIN q : p[i] = q[j] <=> i = j + (n - l)
  BY StorePlace
<1>3. \A i \in DOMAIN p : p[i] \in Item
  BY DEF TypeOK
<1>4. Behind(c, k) = {i \in DOMAIN p : p[i].seq <= cursor[c]}
  BY DEF Behind
<1> HIDE DEF p, q, n, l, m
<1>5. ASSUME NEW i \in 1 .. n PROVE p[i].seq > cursor[c] <=> i > m
  <2>1. p[i].seq \in Nat /\ cursor[c] \in Nat
    BY <1>2, <1>3 DEF Item, TypeOK
  <2>2. p[i].seq <= cursor[c] <=> i \in 1 .. m
    BY <1>1, <1>2, <1>4
  <2> QED
    BY <1>1, <2>1, <2>2
<1>6. ASSUME NEW i \in 1 .. n, p[i] \in After(q, cursor[c])
      PROVE  i > m /\ i > n - MaxLen[k]
  <2>1. PICK j \in DOMAIN q : q[j].seq > cursor[c] /\ p[i] = q[j]
    BY <1>6 DEF After
  <2>2. i = j + (n - l)
    BY <1>2, <2>1
  <2>3. i > m
    BY <1>5, <2>1
  <2> QED
    BY <1>2, <2>2, <2>3
<1>7. ASSUME NEW i \in 1 .. n, i > m, i > n - MaxLen[k]
      PROVE  p[i] \in After(q, cursor[c])
  <2>1. PICK j \in DOMAIN q : i = j + (n - l)
    <3>1. i - (n - l) \in 1 .. l /\ i = (i - (n - l)) + (n - l)
      BY <1>2, <1>7
    <3> QED
      BY <1>2, <3>1
  <2>2. p[i] = q[j] /\ p[i].seq > cursor[c]
    BY <1>2, <1>5, <1>7, <2>1
  <2> QED
    BY <2>1, <2>2 DEF After
<1>8. {i \in 1 .. n : p[i] \in After(q, cursor[c])}
        = {i \in m + 1 .. n : i > n - MaxLen[k]}
  BY <1>1, <1>2, <1>6, <1>7
<1> QED
  BY <1>2, <1>8 DEF Feed!Newest, p, q, n, m

\* A cursor at the end of all there is stands for everything.
LEMMA CaughtUp ==
  ASSUME TypeOK, Numbered, NEW k \in Kinds
  PROVE  LET all == {i \in DOMAIN posted[k] : posted[k][i].seq <= seq}
         IN  /\ Cardinality(all) = Len(posted[k]) /\ Cardinality(all) \in Nat
             /\ all = 1 .. Cardinality(all)
<1> DEFINE all == {i \in DOMAIN posted[k] : posted[k][i].seq <= seq}
<1>1. DOMAIN posted[k] = 1 .. Len(posted[k]) /\ Len(posted[k]) \in Nat
  BY DEF TypeOK
<1>2. all = 1 .. Len(posted[k])
  BY <1>1 DEF Numbered, Rising
<1>3. Cardinality(1 .. Len(posted[k])) = Len(posted[k])
  BY <1>1, FS_Interval
<1> QED
  BY <1>1, <1>2, <1>3

\* The refinement mapping: what published, upto and has of LiveFeed stand for.
Published == [k \in Kinds |-> Len(posted[k])]
UpTo == [c \in Clients |-> [k \in Kinds |-> Cardinality(Behind(c, k))]]
GivenTo == [c \in Clients |-> [k \in Kinds |-> Has(c, k)]]

LEMMA Mapping ==
  /\ UNCHANGED <<Published, UpTo, GivenTo, conn>> => UNCHANGED Feed!vars
  /\ \A k \in Kinds : Feed!Publish(k) <=>
       /\ Published' = [Published EXCEPT ![k] = @ + 1]
       /\ UNCHANGED <<UpTo, GivenTo, conn>>
  /\ \A c \in Clients : Feed!Join(c) <=>
       /\ ~conn[c]
       /\ conn' = [conn EXCEPT ![c] = TRUE]
       /\ UpTo' = [UpTo EXCEPT ![c] = Published]
       /\ GivenTo' = [GivenTo EXCEPT ![c] = [k \in Kinds |->
                         Feed!Newest(SnapLen[k], 0, Published[k])]]
       /\ UNCHANGED Published
  /\ \A c \in Clients : Feed!CatchUp(c) <=>
       /\ conn[c]
       /\ UpTo' = [UpTo EXCEPT ![c] = Published]
       /\ GivenTo' = [GivenTo EXCEPT ![c] = [k \in Kinds |->
                 @[k] \cup Feed!Newest(MaxLen[k], UpTo[c][k], Published[k])]]
       /\ UNCHANGED <<Published, conn>>
  /\ \A c \in Clients : Feed!Leave(c) <=>
       /\ conn[c]
       /\ conn' = [conn EXCEPT ![c] = FALSE]
       /\ UNCHANGED <<Published, UpTo, GivenTo>>
BY DEF Feed!vars, Feed!Publish, Feed!Join, Feed!CatchUp, Feed!Leave,
       Published, UpTo, GivenTo, Behind, Has

\* Recording an item publishes it: it is beyond every cursor and in no tab.
LEMMA PostPublishes ==
  ASSUME TypeOK, FeedInv, Prefixes, NEW k \in Kinds, NEW x \in Item, Post(k, x),
         UNCHANGED <<cursor, view, conn>>
  PROVE  Feed!Publish(k) /\ Prefixes'
<1> DEFINE y == [x EXCEPT !.seq = seq + 1]
           n == Len(posted[k])
<1>1. y \in Item /\ y.seq = seq + 1 /\ seq \in Nat
  <2>1. seq \in Nat /\ seq + 1 \in Nat
    BY DEF TypeOK
  <2> QED
    BY <2>1, StampedType
<1>2. /\ posted' = [posted EXCEPT ![k] = Append(posted[k], y)]
      /\ posted[k] \in Seq(Item) /\ posted \in [Kinds -> Seq(Item)]
  BY DEF Post, TypeOK
<1> HIDE DEF y
<1>3. /\ n \in Nat /\ Len(posted'[k]) = n + 1 /\ posted'[k][n + 1] = y
      /\ DOMAIN posted'[k] = DOMAIN posted[k] \cup {n + 1}
      /\ DOMAIN posted[k] = 1 .. n
      /\ \A i \in DOMAIN posted[k] : posted'[k][i] = posted[k][i]
  <2>1. posted'[k] = Append(posted[k], y)
    BY <1>2
  <2> QED
    BY <1>1, <1>2, <2>1
<1>4. \A h \in Kinds \ {k} : posted'[h] = posted[h]
  BY <1>2
<1>5. ASSUME NEW c \in Clients, NEW h \in Kinds
      PROVE  Behind(c, h)' = Behind(c, h) /\ Has(c, h)' = Has(c, h)
  <2>1. CASE h # k
    BY <1>4, <2>1 DEF Behind, Has
  <2>2. CASE h = k
    <3>1. cursor[c] \in Nat /\ cursor[c] <= seq
      BY DEF TypeOK, FeedInv, CursorsBound
    <3>2. ~(y.seq <= cursor[c])
      BY <1>1, <3>1
    <3>3. y \notin view[c][k]
      BY <3>2 DEF FeedInv, CursorsBound
    <3> QED
      BY <1>3, <2>2, <3>2, <3>3 DEF Behind, Has
  <2> QED
    BY <2>1, <2>2
<1>6. UpTo' = UpTo /\ GivenTo' = GivenTo /\ Prefixes'
  BY <1>5 DEF UpTo, GivenTo, Prefixes
<1>7. Published' = [Published EXCEPT ![k] = @ + 1]
  BY <1>3, <1>4 DEF Published
<1> QED
  BY <1>6, <1>7, Mapping

\* What does not record, send or connect is no step of the feed.
LEMMA NoFeedStep ==
  ASSUME Prefixes, UNCHANGED <<posted, cursor, view, conn>>
  PROVE  UNCHANGED Feed!vars /\ Prefixes'
<1>1. \A c \in Clients, k \in Kinds :
        Behind(c, k)' = Behind(c, k) /\ Has(c, k)' = Has(c, k)
  BY DEF Behind, Has
<1>2. UpTo' = UpTo /\ GivenTo' = GivenTo /\ Prefixes' /\ Published' = Published
  BY <1>1 DEF UpTo, GivenTo, Prefixes, Published
<1> QED
  BY <1>2, Mapping

\* A tab whose cursor moves to the end is brought up to what is published.
LEMMA CursorAtEnd ==
  ASSUME TypeOK, FeedInv, Prefixes, NEW c \in Clients,
         cursor' = [cursor EXCEPT ![c] = seq], posted' = posted
  PROVE  /\ UpTo' = [UpTo EXCEPT ![c] = Published] /\ Published' = Published
         /\ Prefixes'
<1>1. /\ cursor'[c] = seq /\ \A d \in Clients \ {c} : cursor'[d] = cursor[d]
  BY DEF TypeOK
<1>2. ASSUME NEW k \in Kinds
      PROVE  /\ Cardinality(Behind(c, k)') = Len(posted[k])
             /\ Cardinality(Behind(c, k)') \in Nat
             /\ Behind(c, k)' = 1 .. Cardinality(Behind(c, k)')
  <2>1. Behind(c, k)' = {i \in DOMAIN posted[k] : posted[k][i].seq <= seq}
    BY <1>1 DEF Behind
  <2> QED
    BY <2>1, CaughtUp DEF FeedInv
<1>3. \A d \in Clients \ {c}, k \in Kinds : Behind(d, k)' = Behind(d, k)
  BY <1>1 DEF Behind
<1>4. Prefixes'
  BY <1>2, <1>3 DEF Prefixes
<1>5. UpTo' = [UpTo EXCEPT ![c] = Published]
  BY <1>2, <1>3 DEF UpTo, Published
<1> QED
  BY <1>4, <1>5 DEF Published

LEMMA ConnectJoins ==
  ASSUME TypeOK, FeedInv, Prefixes, NEW c \in Clients, Connect(c)
  PROVE  Feed!Join(c) /\ Prefixes'
<1>1. /\ UpTo' = [UpTo EXCEPT ![c] = Published] /\ Published' = Published
      /\ Prefixes'
  BY CursorAtEnd DEF Connect
<1>2. /\ view'[c] = [k \in Kinds |-> LastN(store[k], SnapLen[k])]
      /\ \A d \in Clients \ {c} : view'[d] = view[d]
      /\ posted' = posted
  BY DEF Connect, TypeOK
<1>3. ASSUME NEW k \in Kinds
      PROVE  Has(c, k)' = Feed!Newest(SnapLen[k], 0, Published[k])
  <2>1. Has(c, k)' = {i \in DOMAIN posted[k] : posted[k][i] \in LastN(store[k], SnapLen[k])}
    BY <1>2 DEF Has
  <2>2. Published[k] = Len(posted[k])
    BY DEF Published
  <2> QED
    BY <2>1, <2>2, SnapshotGives DEF FeedInv
<1>4. \A d \in Clients \ {c}, k \in Kinds : Has(d, k)' = Has(d, k)
  BY <1>2 DEF Has
<1>5. GivenTo' = [GivenTo EXCEPT ![c] = [k \in Kinds |->
                     Feed!Newest(SnapLen[k], 0, Published[k])]]
  BY <1>3, <1>4 DEF GivenTo
<1>6. ~conn[c] /\ conn' = [conn EXCEPT ![c] = TRUE]
  BY DEF Connect
<1> QED
  BY <1>1, <1>5, <1>6, Mapping

LEMMA DeltaCatchesUp ==
  ASSUME TypeOK, FeedInv, Prefixes, NEW c \in Clients, Delta(c)
  PROVE  Feed!CatchUp(c) /\ Prefixes'
<1>1. /\ UpTo' = [UpTo EXCEPT ![c] = Published] /\ Published' = Published
      /\ Prefixes'
  BY CursorAtEnd DEF Delta
<1>2. /\ view'[c] = [k \in Kinds |-> view[c][k] \cup After(store[k], cursor[c])]
      /\ \A d \in Clients \ {c} : view'[d] = view[d]
      /\ posted' = posted
  BY DEF Delta, TypeOK
<1>3. ASSUME NEW k \in Kinds
      PROVE  Has(c, k)' = GivenTo[c][k]
                            \cup Feed!Newest(MaxLen[k], UpTo[c][k], Published[k])
  <2>1. Has(c, k)' = Has(c, k)
          \cup {i \in DOMAIN posted[k] : posted[k][i] \in After(store[k], cursor[c])}
    BY <1>2 DEF Has
  <2>2. /\ Published[k] = Len(posted[k]) /\ UpTo[c][k] = Cardinality(Behind(c, k))
        /\ GivenTo[c][k] = Has(c, k)
    BY DEF Published, UpTo, GivenTo
  <2> QED
    BY <2>1, <2>2, DeltaGives DEF FeedInv
<1>4. \A d \in Clients \ {c}, k \in Kinds : Has(d, k)' = Has(d, k)
  BY <1>2 DEF Has
<1>5. GivenTo' = [GivenTo EXCEPT ![c] = [k \in Kinds |->
                @[k] \cup Feed!Newest(MaxLen[k], UpTo[c][k], Published[k])]]
  BY <1>3, <1>4 DEF GivenTo
<1>6. conn[c] /\ conn' = conn
  BY DEF Delta
<1> QED
  BY <1>1, <1>5, <1>6, Mapping

LEMMA DisconnectLeaves ==
  ASSUME Prefixes, NEW c \in Clients, Disconnect(c)
  PROVE  Feed!Leave(c) /\ Prefixes'
<1>1. /\ conn[c] /\ conn' = [conn EXCEPT ![c] = FALSE]
      /\ UNCHANGED <<posted, cursor, view>>
  BY DEF Disconnect
<1>2. \A d \in Clients, k \in Kinds :
        Behind(d, k)' = Behind(d, k) /\ Has(d, k)' = Has(d, k)
  BY <1>1 DEF Behind, Has
<1>3. UpTo' = UpTo /\ GivenTo' = GivenTo /\ Prefixes' /\ Published' = Published
  BY <1>1, <1>2 DEF UpTo, GivenTo, Prefixes, Published
<1> QED
  BY <1>1, <1>3, Mapping

LEMMA FeedMapInit == Init => Feed!Init /\ Prefixes
<1> SUFFICES ASSUME Init PROVE Feed!Init /\ Prefixes
  OBVIOUS
<1>1. \A k \in Kinds : posted[k] = <<>>
  BY DEF Init
<1>2. Len(<<>>) = 0 /\ DOMAIN <<>> = {} /\ 1 .. 0 = {} /\ Cardinality({}) = 0
  BY FS_EmptySet
<1>3. \A c \in Clients, k \in Kinds : Behind(c, k) = {} /\ Has(c, k) = {}
  BY <1>1, <1>2 DEF Behind, Has
<1>4. Prefixes
  BY <1>2, <1>3 DEF Prefixes
<1>5. /\ Published = [k \in Kinds |-> 0]
      /\ UpTo = [c \in Clients |-> [k \in Kinds |-> 0]]
      /\ GivenTo = [c \in Clients |-> [k \in Kinds |-> {}]]
      /\ conn = [c \in Clients |-> FALSE]
  BY <1>1, <1>2, <1>3 DEF Published, UpTo, GivenTo, Init
<1> QED
  BY <1>4, <1>5 DEF Feed!Init, Published, UpTo, GivenTo, Behind, Has

LEMMA FeedMapStep ==
  TypeOK /\ FeedInv /\ Prefixes /\ [Next]_vars => [Feed!Next]_(Feed!vars) /\ Prefixes'
<1> SUFFICES ASSUME TypeOK, FeedInv, Prefixes, [Next]_vars
             PROVE  [Feed!Next]_(Feed!vars) /\ Prefixes'
  OBVIOUS
<1>1. CASE UNCHANGED vars
  BY <1>1, NoFeedStep DEF vars, reads
<1>2. ASSUME NEW t \in Threads,
             \/ AddConsoleLine(t) \/ AddEvent(t) \/ ReportBadge(t) \/ Write(t)
             \/ \E b \in Badges, s \in BadgeState : SetBadge(t, b, s)
             \/ \E x \in Fields : SetField(t, x)
      PROVE  UNCHANGED Feed!vars /\ Prefixes'
  BY <1>2, NoFeedStep DEF AddConsoleLine, AddEvent, ReportBadge, Enter, Write, SetBadge,
                          SetField, reads
<1>3. ASSUME NEW t \in Threads, AddStatus(t)
      PROVE  (\E k \in Kinds : Feed!Publish(k)) /\ Prefixes'
  <2>1. [Blank EXCEPT !.ts = clock + 1] \in Item
    <3>1. clock + 1 \in Nat
      BY DEF TypeOK
    <3> QED
      BY <3>1, ItemTypes DEF Item
  <2>2. Post("status", [Blank EXCEPT !.ts = clock + 1]) /\ UNCHANGED <<cursor, view, conn>>
    BY <1>3 DEF AddStatus, reads
  <2>3. "status" \in Kinds
    BY DEF Kinds
  <2> QED
    BY <2>1, <2>2, <2>3, PostPublishes
<1>4. ASSUME NEW t \in Threads, Record(t)
      PROVE  (\E k \in Kinds : Feed!Publish(k)) /\ Prefixes'
  <2>1. job[t].kind \in Kinds /\ job[t].item \in Item
    BY DEF TypeOK, Logged, Kinds
  <2>2. Post(job[t].kind, job[t].item) /\ UNCHANGED <<cursor, view, conn>>
    BY <1>4 DEF Record, reads
  <2> QED
    BY <2>1, <2>2, PostPublishes
<1>5. ASSUME NEW c \in Clients, Connect(c) \/ Delta(c) \/ Disconnect(c)
      PROVE  (Feed!Join(c) \/ Feed!CatchUp(c) \/ Feed!Leave(c)) /\ Prefixes'
  BY <1>5, ConnectJoins, DeltaCatchesUp, DisconnectLeaves
<1> QED
  BY <1>1, <1>2, <1>3, <1>4, <1>5 DEF Next, Call, Finish, Feed!Next

\* The store and its /ws handlers implement the feed: what a tab is given is
\* what the abstract feed gives it, whatever the deques and the numbers do.
THEOREM FeedImplemented == Spec => FeedSpec
<1>1. Init => Feed!Init /\ Prefixes
  BY FeedMapInit
<1>2. TypeOK /\ FeedInv /\ Prefixes /\ [Next]_vars
        => [Feed!Next]_(Feed!vars) /\ Prefixes'
  BY FeedMapStep
<1> QED
  BY <1>1, <1>2, TypeCorrect, FeedInvariant, PTL DEF Spec, FeedSpec, Feed!Spec
=============================================================================

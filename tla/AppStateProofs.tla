--------------------------- MODULE AppStateProofs ---------------------------
(***************************************************************************)
(* Proofs about AppState, for any threads, tabs, badges and deque lengths. *)
(***************************************************************************)
EXTENDS AppState, TLAPS

-----------------------------------------------------------------------------
(* The helpers the steps are made of.                                      *)

\* A deque of items stays one when an item is appended, and is longer than
\* before only while it is below its limit.
LEMMA PushType ==
  ASSUME NEW k \in Kinds, NEW q \in Seq(Item), NEW x \in Item
  PROVE  Push(k, q, x) \in Seq(Item)
<1>1. MaxLen[k] \in Nat \ {0}
  BY ConstAssumption
<1>2. CASE Len(q) < MaxLen[k]
  BY <1>2 DEF Push
<1>3. CASE ~(Len(q) < MaxLen[k])
  <2>1. q # <<>>
    BY <1>1, <1>3
  <2>2. Tail(q) \in Seq(Item)
    BY <2>1
  <2> QED
    BY <1>3, <2>2 DEF Push
<1> QED
  BY <1>2, <1>3

\* What an item and the notes it carries look like.
LEMMA ItemTypes ==
  /\ Note \in Report
  /\ Blank \in Item
  /\ Idle \in [pc : {"idle", "report", "append", "write"}, kind : Logged, item : Item]
<1>1. Note \in Report
  BY DEF Note, Report
<1>2. [x \in Cells |-> 0] \in [Cells -> Nat]
  OBVIOUS
<1>3. Blank \in Item
  BY <1>1, <1>2 DEF Blank, Item
<1> QED
  BY <1>1, <1>3 DEF Idle, Logged

\* A recorded item gets the next number and is an item.
LEMMA StampedType ==
  ASSUME NEW x \in Item, NEW n \in Nat
  PROVE  /\ [x EXCEPT !.seq = n] \in Item
         /\ [x EXCEPT !.seq = n].seq = n
         /\ [x EXCEPT !.seq = n].knows = x.knows
BY DEF Item

\* What Post does to the store and the history.
LEMMA PostType ==
  ASSUME TypeOK, NEW k \in Kinds, NEW x \in Item, Post(k, x)
  PROVE  /\ seq' \in Nat
         /\ store' \in [Kinds -> Seq(Item)]
         /\ posted' \in [Kinds -> Seq(Item)]
<1> DEFINE y == [x EXCEPT !.seq = seq + 1]
<1>0. seq + 1 \in Nat
  BY DEF TypeOK
<1>1. y \in Item
  BY <1>0, StampedType
<1>2. store[k] \in Seq(Item) /\ posted[k] \in Seq(Item)
  BY DEF TypeOK
<1>3. Push(k, store[k], y) \in Seq(Item)
  BY <1>1, <1>2, PushType
<1>4. Append(posted[k], y) \in Seq(Item)
  BY <1>1, <1>2
<1>5. /\ seq' = seq + 1
      /\ store' = [store EXCEPT ![k] = Push(k, store[k], y)]
      /\ posted' = [posted EXCEPT ![k] = Append(posted[k], y)]
  BY DEF Post
<1> HIDE DEF y
<1> QED
  BY <1>3, <1>4, <1>5 DEF TypeOK

\* Entering a call keeps the types.
LEMMA EnterType ==
  ASSUME TypeOK, NEW t \in Threads, NEW k \in Logged, NEW what \in Report,
         Enter(t, k, what)
  PROVE  TypeOK'
<1> DEFINE now == [x \in Cells |-> cell[x].ts]
           item == [seq |-> 0, ts |-> clock + 1, what |-> what, knows |-> now]
<1>1. now \in [Cells -> Nat]
  BY DEF TypeOK
<1>2. item \in Item
  BY <1>1 DEF Item, TypeOK
<1>3. [pc |-> "append", kind |-> k, item |-> item]
        \in [pc : {"idle", "report", "append", "write"}, kind : Logged, item : Item]
  BY <1>2
<1>4. job' = [job EXCEPT ![t] = [pc |-> "append", kind |-> k, item |-> item]]
  BY DEF Enter
<1> HIDE DEF item
<1>5. job' \in [Threads -> [pc : {"idle", "report", "append", "write"},
                            kind : Logged, item : Item]]
  BY <1>3, <1>4 DEF TypeOK
<1>6. clock' \in Nat /\ UNCHANGED <<seq, store, cell, file, reads, posted>>
  BY DEF Enter, TypeOK
<1> QED
  BY <1>5, <1>6 DEF TypeOK, reads

-----------------------------------------------------------------------------
(* Type correctness.                                                       *)

LEMMA TypeInit == Init => TypeOK
<1> SUFFICES ASSUME Init PROVE TypeOK
  OBVIOUS
<1>1. job \in [Threads -> [pc : {"idle", "report", "append", "write"},
                           kind : Logged, item : Item]]
  BY ItemTypes DEF Init
<1> QED
  BY <1>1 DEF Init, TypeOK

LEMMA TypeStep == TypeOK /\ [Next]_vars => TypeOK'
<1> SUFFICES ASSUME TypeOK, [Next]_vars PROVE TypeOK'
  OBVIOUS
<1>1. CASE UNCHANGED vars
  BY <1>1 DEF vars, reads, TypeOK
<1>2. ASSUME NEW t \in Threads, AddConsoleLine(t) PROVE TypeOK'
  BY <1>2, EnterType, ItemTypes DEF AddConsoleLine, Logged
<1>3. ASSUME NEW t \in Threads, AddEvent(t) PROVE TypeOK'
  BY <1>3, EnterType, ItemTypes DEF AddEvent, Logged
<1>4. ASSUME NEW t \in Threads, ReportBadge(t) PROVE TypeOK'
  <2>1. job[t].item.what \in Report
    BY DEF TypeOK, Item
  <2> QED
    BY <1>4, <2>1, EnterType DEF ReportBadge, Logged
<1>5. ASSUME NEW t \in Threads, AddStatus(t) PROVE TypeOK'
  <2>1. [Blank EXCEPT !.ts = clock + 1] \in Item
    <3>1. clock + 1 \in Nat
      BY DEF TypeOK
    <3> QED
      BY <3>1, ItemTypes DEF Item
  <2>2. /\ Post("status", [Blank EXCEPT !.ts = clock + 1])
        /\ clock' \in Nat
        /\ UNCHANGED <<cell, file, job, reads>>
    BY <1>5 DEF AddStatus, TypeOK
  <2>3. /\ seq' \in Nat
        /\ store' \in [Kinds -> Seq(Item)]
        /\ posted' \in [Kinds -> Seq(Item)]
    BY <2>1, <2>2, PostType DEF Kinds
  <2> QED
    BY <2>2, <2>3 DEF TypeOK, reads
<1>6. ASSUME NEW t \in Threads, NEW b \in Badges, NEW s \in BadgeState,
             SetBadge(t, b, s)
      PROVE  TypeOK'
  <2> DEFINE what == [badge |-> b, old |-> cell[b].val, new |-> s]
             item == [Blank EXCEPT !.what = what]
  <2>1. b \in Cells
    BY DEF Cells
  <2>2. what \in Report
    BY <2>1 DEF Report, TypeOK
  <2>3. item \in Item
    BY <2>2, ItemTypes DEF Item
  <2>0. [pc |-> "report", kind |-> "events", item |-> item]
          \in [pc : {"idle", "report", "append", "write"}, kind : Logged, item : Item]
    BY <2>3 DEF Logged
  <2>4. \/ job' = job
        \/ job' = [job EXCEPT ![t] = [pc |-> "report", kind |-> "events", item |-> item]]
    BY <1>6 DEF SetBadge
  <2> HIDE DEF item
  <2>5. job' \in [Threads -> [pc : {"idle", "report", "append", "write"},
                              kind : Logged, item : Item]]
    BY <2>0, <2>4 DEF TypeOK
  <2>6. cell' \in [Cells -> [val : BadgeState \cup {"unknown"}, ts : Nat]]
    BY <1>6, <2>1 DEF SetBadge, TypeOK
  <2>7. clock' \in Nat /\ UNCHANGED <<seq, store, file, reads, posted>>
    BY <1>6 DEF SetBadge, TypeOK
  <2> QED
    BY <2>5, <2>6, <2>7 DEF TypeOK, reads
<1>7. ASSUME NEW t \in Threads, NEW x \in Fields, SetField(t, x) PROVE TypeOK'
  <2>1. x \in Cells
    BY DEF Cells
  <2>2. cell' \in [Cells -> [val : BadgeState \cup {"unknown"}, ts : Nat]]
    <3>1. [cell[x] EXCEPT !.ts = clock + 1] \in [val : BadgeState \cup {"unknown"}, ts : Nat]
      <4>1. cell[x] \in [val : BadgeState \cup {"unknown"}, ts : Nat]
        BY <2>1 DEF TypeOK
      <4>2. clock + 1 \in Nat
        BY DEF TypeOK
      <4> QED
        BY <4>1, <4>2
    <3>2. cell' = [cell EXCEPT ![x] = [cell[x] EXCEPT !.ts = clock + 1]]
      BY <1>7 DEF SetField
    <3> QED
      BY <3>1, <3>2 DEF TypeOK
  <2>3. clock' \in Nat /\ UNCHANGED <<seq, store, file, job, reads, posted>>
    BY <1>7 DEF SetField, TypeOK
  <2> QED
    BY <2>2, <2>3 DEF TypeOK, reads
<1>8. ASSUME NEW t \in Threads, Record(t) PROVE TypeOK'
  <2>1. job[t].kind \in Kinds /\ job[t].item \in Item
    BY DEF TypeOK, Logged, Kinds
  <2>2. Post(job[t].kind, job[t].item) /\ UNCHANGED <<clock, cell, file, reads>>
    BY <1>8 DEF Record
  <2>3. /\ seq' \in Nat
        /\ store' \in [Kinds -> Seq(Item)]
        /\ posted' \in [Kinds -> Seq(Item)]
    BY <2>1, <2>2, PostType
  <2>0. seq + 1 \in Nat
    BY DEF TypeOK
  <2>4. [job[t].item EXCEPT !.seq = seq + 1] \in Item
    BY <2>1, <2>0, StampedType
  <2>5. job' = [job EXCEPT ![t].pc = "write", ![t].item.seq = seq + 1]
    BY <1>8 DEF Record
  <2>6. job' \in [Threads -> [pc : {"idle", "report", "append", "write"},
                              kind : Logged, item : Item]]
    BY <2>4, <2>5 DEF TypeOK
  <2> QED
    BY <2>2, <2>3, <2>6 DEF TypeOK, reads
<1>9. ASSUME NEW t \in Threads, Write(t) PROVE TypeOK'
  <2>1. job[t].kind \in Logged /\ job[t].item \in Item
    BY DEF TypeOK
  <2>2. file' \in [Logged -> Seq(Item)]
    BY <1>9, <2>1 DEF Write, TypeOK
  <2>3. job' \in [Threads -> [pc : {"idle", "report", "append", "write"},
                              kind : Logged, item : Item]]
    BY <1>9, ItemTypes DEF Write, TypeOK
  <2>4. UNCHANGED <<clock, seq, store, cell, reads, posted>>
    BY <1>9 DEF Write
  <2> QED
    BY <2>2, <2>3, <2>4 DEF TypeOK, reads
<1>10. ASSUME NEW c \in Clients, Connect(c) PROVE TypeOK'
  <2>1. \A k \in Kinds : LastN(store[k], SnapLen[k]) \in SUBSET Item
    BY DEF LastN, TypeOK
  <2>2. view' \in [Clients -> [Kinds -> SUBSET Item]]
    BY <1>10, <2>1 DEF Connect, TypeOK
  <2>3. CellTimes \in [Cells -> Nat]
    BY DEF CellTimes, TypeOK
  <2> QED
    BY <1>10, <2>2, <2>3 DEF Connect, TypeOK
<1>11. ASSUME NEW c \in Clients, Delta(c) PROVE TypeOK'
  <2>1. \A k \in Kinds : After(store[k], cursor[c]) \in SUBSET Item
    BY DEF After, TypeOK
  <2>2. view' \in [Clients -> [Kinds -> SUBSET Item]]
    BY <1>11, <2>1 DEF Delta, TypeOK
  <2>3. CellTimes \in [Cells -> Nat]
    BY DEF CellTimes, TypeOK
  <2> QED
    BY <1>11, <2>2, <2>3 DEF Delta, TypeOK
<1>12. ASSUME NEW c \in Clients, Disconnect(c) PROVE TypeOK'
  BY <1>12 DEF Disconnect, TypeOK
<1> QED
  BY <1>1, <1>2, <1>3, <1>4, <1>5, <1>6, <1>7, <1>8, <1>9, <1>10, <1>11, <1>12
     DEF Next, Call, Finish

\* Every variable keeps its type, whatever the interleaving: in particular a
\* deque, a log file and what a tab was sent only ever hold recorded items.
THEOREM TypeCorrect == Spec => []TypeOK
<1>1. Init => TypeOK
  BY TypeInit
<1>2. TypeOK /\ [Next]_vars => TypeOK'
  BY TypeStep
<1> QED
  BY <1>1, <1>2, PTL DEF Spec

-----------------------------------------------------------------------------
(* Facts about one deque q, all that was recorded of its kind p, and what  *)
(* a tab was sent of it, v.                                                *)

LEMMA AppendNewest ==
  ASSUME NEW p \in Seq(Item), NEW q \in Seq(Item), NEW y \in Item,
         NEW m \in Nat \ {0}, IsNewest(q, p, m)
  PROVE  IsNewest(IF Len(q) < m THEN Append(q, y) ELSE Append(Tail(q), y),
                  Append(p, y), m)
<1> DEFINE r == IF Len(q) < m THEN Append(q, y) ELSE Append(Tail(q), y)
           w == Append(p, y)
           n == Len(p)
<1>1. /\ Len(q) = IF n < m THEN n ELSE m
      /\ \A i \in 1 .. Len(q) : q[i] = p[i + (n - Len(q))]
  BY DEF IsNewest
<1>2. /\ w \in Seq(Item) /\ Len(w) = n + 1 /\ w[n + 1] = y
      /\ \A i \in 1 .. n : w[i] = p[i]
  OBVIOUS
<1>3. CASE Len(q) < m
  <2>1. Len(q) = n
    BY <1>1, <1>3
  <2>2. /\ r \in Seq(Item) /\ Len(r) = n + 1 /\ r[n + 1] = y
        /\ \A i \in 1 .. n : r[i] = q[i]
    BY <1>3, <2>1
  <2>3. ASSUME NEW i \in 1 .. n PROVE q[i] = p[i]
    <3>1. i + (n - Len(q)) = i
      BY <2>1
    <3> QED
      BY <3>1, <1>1, <2>1
  <2>4. Len(r) = IF Len(w) < m THEN Len(w) ELSE m
    BY <1>2, <1>3, <2>1, <2>2
  <2>5. ASSUME NEW i \in 1 .. Len(r) PROVE r[i] = w[i + (Len(w) - Len(r))]
    <3> HIDE DEF r, w
    <3>1. i + (Len(w) - Len(r)) = i
      BY <1>2, <2>2
    <3>2. r[i] = w[i]
      BY <1>2, <2>2, <2>3
    <3> QED
      BY <3>1, <3>2
  <2> QED
    BY <2>2, <2>4, <2>5 DEF IsNewest
<1>4. CASE ~(Len(q) < m)
  <2>1. Len(q) = m /\ n >= m /\ q # <<>>
    BY <1>1, <1>4
  <2>2. /\ Tail(q) \in Seq(Item) /\ Len(Tail(q)) = m - 1
        /\ \A i \in 1 .. m - 1 : Tail(q)[i] = q[i + 1]
    BY <2>1
  <2>3. r = Append(Tail(q), y)
    BY <1>4
  <2>4. /\ r \in Seq(Item) /\ Len(r) = m /\ r[m] = y
        /\ \A i \in 1 .. m - 1 : r[i] = Tail(q)[i]
    BY <2>2, <2>3
  <2>5. ASSUME NEW i \in 1 .. m PROVE r[i] = w[i + (n + 1 - m)]
    <3>1. CASE i = m
      BY <1>2, <2>4, <3>1
    <3>2. CASE i # m
      <4>1. i \in 1 .. m - 1 /\ i + 1 \in 1 .. Len(q)
        BY <2>1, <3>2
      <4>2. r[i] = q[i + 1]
        BY <4>1, <2>2, <2>4
      <4>3. q[i + 1] = p[(i + 1) + (n - m)]
        BY <4>1, <1>1, <2>1
      <4>4. (i + 1) + (n - m) = i + (n + 1 - m) /\ i + (n + 1 - m) \in 1 .. n
        BY <4>1, <2>1
      <4> QED
        BY <4>2, <4>3, <4>4, <1>2
    <3> QED
      BY <3>1, <3>2
  <2>6. Len(r) = IF Len(w) < m THEN Len(w) ELSE m
    BY <1>2, <2>1, <2>4
  <2>7. ASSUME NEW i \in 1 .. Len(r) PROVE r[i] = w[i + (Len(w) - Len(r))]
    <3> HIDE DEF r, w
    <3>1. i \in 1 .. m /\ i + (Len(w) - Len(r)) = i + (n + 1 - m)
      BY <1>2, <2>4
    <3> QED
      BY <3>1, <2>5
  <2> QED
    BY <2>4, <2>6, <2>7 DEF IsNewest
<1> QED
  BY <1>3, <1>4

LEMMA AppendRising ==
  ASSUME NEW p \in Seq(Item), NEW y \in Item, NEW n \in Nat, Rising(p, n)
  PROVE  /\ Rising(p, n + 1)
         /\ y.seq = n + 1 => Rising(Append(p, y), n + 1)
<1>1. /\ \A i \in 1 .. Len(p) : p[i].seq \in 1 .. n
      /\ \A i, j \in 1 .. Len(p) : i < j => p[i].seq < p[j].seq
  BY DEF Rising
<1>2. Rising(p, n + 1)
  BY <1>1 DEF Rising
<1>3. ASSUME y.seq = n + 1 PROVE Rising(Append(p, y), n + 1)
  <2> DEFINE w == Append(p, y)
  <2>1. /\ w \in Seq(Item) /\ Len(w) = Len(p) + 1 /\ w[Len(p) + 1] = y
        /\ \A i \in 1 .. Len(p) : w[i] = p[i]
    OBVIOUS
  <2> HIDE DEF w
  <2>2. \A i \in 1 .. Len(p) + 1 : w[i].seq \in 1 .. n + 1
    BY <1>1, <1>3, <2>1
  <2>3. \A i, j \in 1 .. Len(p) + 1 : i < j => w[i].seq < w[j].seq
    BY <1>1, <1>3, <2>1
  <2>4. Rising(w, n + 1)
    BY <2>1, <2>2, <2>3 DEF Rising
  <2> QED
    BY <2>4 DEF w
<1> QED
  BY <1>2, <1>3

\* An item recorded beyond the cursor promises the tab nothing yet, and
\* pushes older ones further from the newest.
LEMMA AppendGiven ==
  ASSUME NEW p \in Seq(Item), NEW y \in Item, NEW from \in Nat, NEW to \in Nat,
         NEW m \in Nat, NEW v, Given(p, from, to, m, v), y.seq > to
  PROVE  Given(Append(p, y), from, to, m, v)
<1> DEFINE w == Append(p, y)
<1>1. /\ w \in Seq(Item) /\ Len(w) = Len(p) + 1 /\ w[Len(p) + 1] = y
      /\ \A i \in 1 .. Len(p) : w[i] = p[i]
  OBVIOUS
<1> HIDE DEF w
<1>2. y.seq \in Nat
  BY DEF Item
<1>3. ASSUME NEW i \in 1 .. Len(p) + 1, w[i].seq \in from + 1 .. to,
             i > Len(p) + 1 - m
      PROVE  w[i] \in v
  <2>1. i # Len(p) + 1
    BY <1>1, <1>2, <1>3
  <2>2. i \in 1 .. Len(p) /\ w[i] = p[i] /\ i > Len(p) - m
    BY <2>1, <1>1, <1>3
  <2> QED
    BY <2>2, <1>3 DEF Given
<1>4. Given(w, from, to, m, v)
  BY <1>1, <1>3 DEF Given
<1> QED
  BY <1>4 DEF w

\* A delta from cursor `to` completes what the tab has up to n.
LEMMA DeltaGiven ==
  ASSUME NEW p \in Seq(Item), NEW q \in Seq(Item), NEW m \in Nat \ {0},
         NEW from \in Nat, NEW to \in Nat, NEW n \in Nat, NEW v,
         IsNewest(q, p, m), Given(p, from, to, m, v)
  PROVE  Given(p, from, n, m, v \cup After(q, to))
<1> SUFFICES ASSUME NEW i \in DOMAIN p, p[i].seq \in from + 1 .. n, i > Len(p) - m
             PROVE  p[i] \in v \cup After(q, to)
  BY DEF Given
<1>1. i \in 1 .. Len(p) /\ p[i].seq \in Nat
  <2>1. i \in 1 .. Len(p) /\ p[i] \in Item
    OBVIOUS
  <2> QED
    BY <2>1 DEF Item
<1>2. CASE p[i].seq <= to
  BY <1>1, <1>2 DEF Given
<1>3. CASE p[i].seq > to
  <2>0. Len(p) \in Nat /\ i \in Nat /\ 1 <= i /\ i <= Len(p) /\ i > Len(p) - m
    BY <1>1
  <2>1. /\ Len(q) = IF Len(p) < m THEN Len(p) ELSE m
        /\ \A j \in 1 .. Len(q) : q[j] = p[j + (Len(p) - Len(q))]
    BY DEF IsNewest
  <2>5. (Len(q) = Len(p) \/ Len(q) = m) /\ Len(q) <= Len(p)
    <3>1. CASE Len(p) < m
      BY <2>0, <2>1, <3>1
    <3>2. CASE ~(Len(p) < m)
      BY <2>0, <2>1, <3>2
    <3> QED
      BY <3>1, <3>2
  <2> DEFINE j == i - (Len(p) - Len(q))
  <2>2. j \in 1 .. Len(q) /\ j + (Len(p) - Len(q)) = i
    BY <2>0, <2>5
  <2>3. q[j] = p[i]
    BY <2>1, <2>2
  <2>4. j \in DOMAIN q /\ q[j].seq > to
    BY <1>3, <2>2, <2>3
  <2> HIDE DEF j
  <2> QED
    BY <2>3, <2>4 DEF After
<1> QED
  BY <1>1, <1>2, <1>3

-----------------------------------------------------------------------------
(* The feed.  A step records one item, or moves one tab, or neither.       *)

FeedParts == StoreIsNewest /\ Numbered /\ CursorsBound /\ NothingSkipped
feeding == <<seq, store, posted, cursor, view, joined>>

LEMMA PostFeeds ==
  ASSUME TypeOK, FeedParts, NEW k \in Kinds, NEW x \in Item, Post(k, x),
         UNCHANGED reads
  PROVE  FeedParts'
<1> DEFINE y == [x EXCEPT !.seq = seq + 1]
<1>1. seq + 1 \in Nat /\ seq \in Nat
  BY DEF TypeOK
<1>2. y \in Item /\ y.seq = seq + 1
  BY <1>1, StampedType
<1>3. /\ seq' = seq + 1
      /\ store'[k] = Push(k, store[k], y) /\ posted'[k] = Append(posted[k], y)
      /\ \A h \in Kinds \ {k} : store'[h] = store[h] /\ posted'[h] = posted[h]
  BY DEF Post, TypeOK
<1> HIDE DEF y
<1>4. \A h \in Kinds : store[h] \in Seq(Item) /\ posted[h] \in Seq(Item)
  BY DEF TypeOK
<1>5. \A h \in Kinds : MaxLen[h] \in Nat \ {0}
  BY ConstAssumption
<1>6. /\ \A c \in Clients : cursor[c] \in Nat /\ joined[c] \in Nat /\ cursor[c] <= seq
      /\ cursor' = cursor /\ joined' = joined /\ view' = view
  BY DEF TypeOK, reads, FeedParts, CursorsBound
<1>7. StoreIsNewest'
  <2> SUFFICES ASSUME NEW h \in Kinds PROVE IsNewest(store'[h], posted'[h], MaxLen[h])
    BY DEF StoreIsNewest
  <2>1. IsNewest(store[h], posted[h], MaxLen[h])
    BY DEF FeedParts, StoreIsNewest
  <2>2. CASE h # k
    BY <1>3, <2>1, <2>2
  <2>3. CASE h = k
    <3>1. store[k] \in Seq(Item) /\ posted[k] \in Seq(Item) /\ MaxLen[k] \in Nat \ {0}
      BY <1>4, <1>5
    <3>2. IsNewest(store[k], posted[k], MaxLen[k])
      BY <2>1, <2>3
    <3>3. IsNewest(Push(k, store[k], y), Append(posted[k], y), MaxLen[k])
      BY <3>1, <3>2, <1>2, AppendNewest DEF Push
    <3> QED
      BY <3>3, <1>3, <2>3
  <2> QED
    BY <2>2, <2>3
<1>8. Numbered'
  <2> SUFFICES ASSUME NEW h \in Kinds PROVE Rising(posted'[h], seq + 1)
    BY <1>3 DEF Numbered
  <2>1. Rising(posted[h], seq)
    BY DEF FeedParts, Numbered
  <2>2. /\ Rising(posted[h], seq + 1)
        /\ Rising(Append(posted[h], y), seq + 1)
    BY <2>1, <1>1, <1>2, <1>4, AppendRising
  <2> QED
    BY <2>2, <1>3
<1>9. CursorsBound'
  BY <1>1, <1>3, <1>6 DEF FeedParts, CursorsBound
<1>10. NothingSkipped'
  <2> SUFFICES ASSUME NEW c \in Clients, NEW h \in Kinds
               PROVE  Given(posted'[h], joined[c], cursor[c], MaxLen[h], view[c][h])
    BY <1>6 DEF NothingSkipped
  <2>1. Given(posted[h], joined[c], cursor[c], MaxLen[h], view[c][h])
    BY DEF FeedParts, NothingSkipped
  <2>2. y.seq > cursor[c] /\ cursor[c] \in Nat /\ joined[c] \in Nat /\ MaxLen[h] \in Nat
    BY <1>1, <1>2, <1>5, <1>6
  <2>3. Given(Append(posted[h], y), joined[c], cursor[c], MaxLen[h], view[c][h])
    BY <2>1, <2>2, <1>2, <1>4, AppendGiven
  <2> QED
    BY <2>1, <2>3, <1>3
<1> QED
  BY <1>7, <1>8, <1>9, <1>10 DEF FeedParts

\* What is in a deque is numbered up to the newest number.
LEMMA StoreNumbers ==
  ASSUME TypeOK, StoreIsNewest, Numbered, NEW k \in Kinds,
         NEW i \in 1 .. Len(store[k])
  PROVE  store[k][i].seq \in 1 .. seq
<1> DEFINE q == store[k]
           p == posted[k]
<1>1. q \in Seq(Item) /\ p \in Seq(Item) /\ MaxLen[k] \in Nat \ {0}
  BY ConstAssumption DEF TypeOK
<1>2. IsNewest(q, p, MaxLen[k]) /\ Rising(p, seq)
  BY DEF StoreIsNewest, Numbered
<1> HIDE DEF q, p
<1>3. q[i] = p[i + (Len(p) - Len(q))] /\ i + (Len(p) - Len(q)) \in 1 .. Len(p)
  BY <1>1, <1>2 DEF IsNewest, q
<1>4. \A j \in 1 .. Len(p) : p[j].seq \in 1 .. seq
  BY <1>1, <1>2 DEF Rising
<1> QED
  BY <1>3, <1>4 DEF q

LEMMA ConnectFeeds ==
  ASSUME TypeOK, FeedParts, NEW c \in Clients, Connect(c)
  PROVE  FeedParts'
<1>1. /\ cursor' = [cursor EXCEPT ![c] = seq] /\ joined' = [joined EXCEPT ![c] = seq]
      /\ view' = [view EXCEPT ![c] = [k \in Kinds |-> LastN(store[k], SnapLen[k])]]
      /\ seq' = seq /\ store' = store /\ posted' = posted
  BY DEF Connect
<1>2. StoreIsNewest' /\ Numbered'
  BY <1>1 DEF FeedParts, StoreIsNewest, Numbered
<1>3. CursorsBound'
  <2>1. \A k \in Kinds : \A e \in LastN(store[k], SnapLen[k]) : e.seq \in 1 .. seq
    <3>1. \A k \in Kinds : DOMAIN store[k] = 1 .. Len(store[k])
      BY DEF TypeOK
    <3> QED
      BY <3>1, StoreNumbers DEF LastN, FeedParts
  <2> QED
    BY <1>1, <2>1 DEF FeedParts, CursorsBound, TypeOK
<1>4. NothingSkipped'
  <2> SUFFICES ASSUME NEW d \in Clients, NEW k \in Kinds
               PROVE  Given(posted[k], joined'[d], cursor'[d], MaxLen[k], view'[d][k])
    BY <1>1 DEF NothingSkipped
  <2>1. CASE d # c
    BY <1>1, <2>1 DEF FeedParts, NothingSkipped, TypeOK
  <2>2. CASE d = c
    <3>1. joined'[d] = seq /\ cursor'[d] = seq /\ seq \in Nat
      BY <1>1, <2>2 DEF TypeOK
    <3>2. seq + 1 .. seq = {}
      BY <3>1
    <3> QED
      BY <3>1, <3>2 DEF Given
  <2> QED
    BY <2>1, <2>2
<1> QED
  BY <1>2, <1>3, <1>4 DEF FeedParts

LEMMA DeltaFeeds ==
  ASSUME TypeOK, FeedParts, NEW c \in Clients, Delta(c)
  PROVE  FeedParts'
<1>1. /\ cursor' = [cursor EXCEPT ![c] = seq] /\ joined' = joined
      /\ \A d \in Clients, k \in Kinds :
           view'[d][k] = IF d = c THEN view[c][k] \cup After(store[k], cursor[c])
                         ELSE view[d][k]
      /\ seq' = seq /\ store' = store /\ posted' = posted
  BY DEF Delta, TypeOK
<1>2. StoreIsNewest' /\ Numbered'
  BY <1>1 DEF FeedParts, StoreIsNewest, Numbered
<1>3. \A k \in Kinds : \A e \in After(store[k], cursor[c]) : e.seq \in 1 .. seq
  <2>1. \A k \in Kinds : DOMAIN store[k] = 1 .. Len(store[k])
    BY DEF TypeOK
  <2> QED
    BY <2>1, StoreNumbers DEF After, FeedParts
<1>4. \A k \in Kinds : \A e \in view[c][k] : e.seq \in Nat
  BY DEF TypeOK, Item
<1>5. CursorsBound'
  <2> SUFFICES ASSUME NEW d \in Clients
               PROVE  /\ joined[d] <= cursor'[d] /\ cursor'[d] <= seq
                      /\ \A k \in Kinds : \A e \in view'[d][k] : e.seq <= cursor'[d]
    BY <1>1 DEF CursorsBound
  <2>1. /\ joined[d] <= cursor[d] /\ cursor[d] <= seq
        /\ \A k \in Kinds : \A e \in view[d][k] : e.seq <= cursor[d]
        /\ joined[d] \in Nat /\ cursor[d] \in Nat /\ seq \in Nat
    BY DEF FeedParts, CursorsBound, TypeOK
  <2>2. CASE d # c
    BY <1>1, <2>1, <2>2 DEF TypeOK
  <2>3. CASE d = c
    <3>1. cursor'[d] = seq
      BY <1>1, <2>3 DEF TypeOK
    <3>2. ASSUME NEW k \in Kinds, NEW e \in view'[d][k] PROVE e.seq <= seq
      <4>1. e \in view[c][k] \/ e \in After(store[k], cursor[c])
        BY <1>1, <2>3
      <4>2. CASE e \in view[c][k]
        BY <4>2, <1>4, <2>1, <2>3
      <4>3. CASE e \in After(store[k], cursor[c])
        BY <4>3, <1>3, <2>1
      <4> QED
        BY <4>1, <4>2, <4>3
    <3> QED
      BY <3>1, <3>2, <2>1
  <2> QED
    BY <2>2, <2>3
<1>6. NothingSkipped'
  <2> SUFFICES ASSUME NEW d \in Clients, NEW k \in Kinds
               PROVE  Given(posted[k], joined[d], cursor'[d], MaxLen[k], view'[d][k])
    BY <1>1 DEF NothingSkipped
  <2>1. Given(posted[k], joined[d], cursor[d], MaxLen[k], view[d][k])
    BY DEF FeedParts, NothingSkipped
  <2>2. CASE d # c
    BY <1>1, <2>1, <2>2 DEF TypeOK
  <2>3. CASE d = c
    <3>1. /\ posted[k] \in Seq(Item) /\ store[k] \in Seq(Item)
          /\ MaxLen[k] \in Nat \ {0}
          /\ joined[d] \in Nat /\ cursor[d] \in Nat /\ seq \in Nat
      BY ConstAssumption DEF TypeOK
    <3>2. IsNewest(store[k], posted[k], MaxLen[k])
      BY DEF FeedParts, StoreIsNewest
    <3>3. Given(posted[k], joined[d], seq, MaxLen[k],
                view[d][k] \cup After(store[k], cursor[d]))
      BY <2>1, <3>1, <3>2, DeltaGiven
    <3>4. cursor'[d] = seq /\ view'[d][k] = view[d][k] \cup After(store[k], cursor[d])
      BY <1>1, <2>3 DEF TypeOK
    <3> QED
      BY <3>3, <3>4
  <2> QED
    BY <2>2, <2>3
<1> QED
  BY <1>2, <1>5, <1>6 DEF FeedParts

LEMMA FeedStep == TypeOK /\ FeedParts /\ [Next]_vars => FeedParts'
<1> SUFFICES ASSUME TypeOK, FeedParts, [Next]_vars PROVE FeedParts'
  OBVIOUS
<1>1. ASSUME UNCHANGED feeding PROVE FeedParts'
  BY <1>1 DEF feeding, FeedParts, StoreIsNewest, Numbered, CursorsBound, NothingSkipped
<1>2. CASE UNCHANGED vars
  BY <1>1, <1>2 DEF vars, reads, feeding
<1>3. ASSUME NEW t \in Threads, Call(t), ~AddStatus(t) PROVE UNCHANGED feeding
  BY <1>3 DEF Call, AddConsoleLine, AddEvent, Enter, SetBadge, SetField, reads, feeding
<1>4. ASSUME NEW t \in Threads, AddStatus(t) PROVE FeedParts'
  <2>1. clock + 1 \in Nat
    BY DEF TypeOK
  <2>2. [Blank EXCEPT !.ts = clock + 1] \in Item
    BY <2>1, ItemTypes DEF Item
  <2> QED
    BY <1>4, <2>2, PostFeeds DEF AddStatus, Kinds
<1>5. ASSUME NEW t \in Threads, ReportBadge(t) \/ Write(t) PROVE UNCHANGED feeding
  BY <1>5 DEF ReportBadge, Write, Enter, reads, feeding
<1>6. ASSUME NEW t \in Threads, Record(t) PROVE FeedParts'
  <2>1. job[t].kind \in Kinds /\ job[t].item \in Item
    BY DEF TypeOK, Logged, Kinds
  <2> QED
    BY <1>6, <2>1, PostFeeds DEF Record
<1>7. ASSUME NEW c \in Clients, Connect(c) \/ Delta(c) PROVE FeedParts'
  BY <1>7, ConnectFeeds, DeltaFeeds
<1>8. ASSUME NEW c \in Clients, Disconnect(c) PROVE UNCHANGED feeding
  BY <1>8 DEF Disconnect, feeding
<1> QED
  BY <1>1, <1>2, <1>3, <1>4, <1>5, <1>6, <1>7, <1>8 DEF Next, Finish

-----------------------------------------------------------------------------
(* The panel.  No item is ever ahead of a badge, so a message that brings  *)
(* items and badges together leaves none of its items ahead of its badges. *)

PanelParts == KnowsPast /\ ReportsFollowPanel
paneling == <<clock, cell, job, store, view, seen>>

LEMMA PostPanel ==
  ASSUME TypeOK, PanelParts, NEW k \in Kinds, NEW x \in Item, Post(k, x),
         \A z \in Cells : x.knows[z] <= cell[z].ts
  PROVE  \A h \in Kinds : \A i \in DOMAIN store'[h] : \A z \in Cells :
           store'[h][i].knows[z] <= cell[z].ts
<1> DEFINE y == [x EXCEPT !.seq = seq + 1]
           q == store[k]
<1>1. seq + 1 \in Nat
  BY DEF TypeOK
<1>2. y \in Item /\ y.knows = x.knows
  BY <1>1, StampedType
<1>3. /\ store'[k] = Push(k, q, y)
      /\ \A h \in Kinds \ {k} : store'[h] = store[h]
  BY DEF Post, TypeOK
<1> HIDE DEF y
<1>4. q \in Seq(Item) /\ MaxLen[k] \in Nat \ {0}
  BY ConstAssumption DEF TypeOK
<1>5. \A h \in Kinds : \A i \in DOMAIN store[h] : \A z \in Cells :
        store[h][i].knows[z] <= cell[z].ts
  BY DEF PanelParts, KnowsPast
<1> HIDE DEF q
<1>6. ASSUME NEW i \in DOMAIN Push(k, q, y)
      PROVE  Push(k, q, y)[i] = y \/ \E j \in DOMAIN q : Push(k, q, y)[i] = q[j]
  <2>1. CASE Len(q) < MaxLen[k]
    <3>1. Push(k, q, y) = Append(q, y)
      BY <2>1 DEF Push
    <3> QED
      BY <3>1, <1>2, <1>4
  <2>2. CASE ~(Len(q) < MaxLen[k])
    <3>1. Push(k, q, y) = Append(Tail(q), y) /\ q # <<>>
      BY <2>2, <1>4 DEF Push
    <3>2. /\ Tail(q) \in Seq(Item) /\ Len(Tail(q)) = Len(q) - 1
          /\ \A j \in 1 .. Len(q) - 1 : Tail(q)[j] = q[j + 1]
      BY <3>1, <1>4
    <3>3. i \in 1 .. Len(q)
      BY <3>1, <3>2, <1>2, <1>4
    <3>4. CASE i = Len(q)
      BY <3>1, <3>2, <3>4, <1>2
    <3>5. CASE i # Len(q)
      <4>1. i \in 1 .. Len(q) - 1 /\ i + 1 \in DOMAIN q
        BY <3>3, <3>5, <1>4
      <4>2. Push(k, q, y)[i] = q[i + 1]
        BY <4>1, <3>1, <3>2, <1>2
      <4> QED
        BY <4>1, <4>2
    <3> QED
      BY <3>4, <3>5
  <2> QED
    BY <2>1, <2>2
<1>7. SUFFICES ASSUME NEW h \in Kinds, NEW i \in DOMAIN store'[h], NEW z \in Cells
               PROVE  store'[h][i].knows[z] <= cell[z].ts
  OBVIOUS
<1>8. CASE h # k
  BY <1>3, <1>5, <1>8
<1>9. CASE h = k
  BY <1>2, <1>3, <1>5, <1>6, <1>9 DEF q
<1> QED
  BY <1>8, <1>9

\* A message with items of the deques and the badges of the same moment.
LEMMA SendPanel ==
  ASSUME TypeOK, PanelParts, NEW c \in Clients,
         seen' = [seen EXCEPT ![c] = CellTimes],
         \A d \in Clients \ {c} : view'[d] = view[d],
         \A k \in Kinds : \A e \in view'[c][k] :
           e \in view[c][k] \/ \E i \in DOMAIN store[k] : e = store[k][i],
         UNCHANGED <<clock, cell, job, store>>
  PROVE  PanelParts'
<1>1. \A x \in Cells : seen'[c][x] = cell[x].ts /\ cell[x].ts \in Nat
  BY DEF CellTimes, TypeOK
<1>2. \A d \in Clients \ {c} : seen'[d] = seen[d] /\ view'[d] = view[d]
  BY DEF TypeOK
<1>3. KnowsPast'
  <2>1. \A x \in Cells : \A d \in Clients : seen'[d][x] <= cell[x].ts
    BY <1>1, <1>2 DEF PanelParts, KnowsPast
  <2> QED
    BY <2>1 DEF PanelParts, KnowsPast
<1>4. ReportsFollowPanel'
  <2> SUFFICES ASSUME NEW d \in Clients, NEW k \in Kinds, NEW e \in view'[d][k],
                      NEW x \in Cells
               PROVE  e.knows[x] <= seen'[d][x]
    BY DEF ReportsFollowPanel
  <2>1. CASE d # c
    BY <1>2, <2>1 DEF PanelParts, ReportsFollowPanel
  <2>2. CASE d = c
    <3>1. e \in view'[c][k]
      BY <2>2
    <3>2. CASE e \in view[c][k]
      <4>1. e.knows[x] <= seen[c][x] /\ seen[c][x] <= cell[x].ts
        BY <3>2 DEF PanelParts, ReportsFollowPanel, KnowsPast
      <4>2. e.knows[x] \in Nat /\ seen[c][x] \in Nat /\ cell[x].ts \in Nat
        BY <3>2 DEF TypeOK, Item
      <4> QED
        BY <4>1, <4>2, <1>1, <2>2
    <3>3. CASE \E i \in DOMAIN store[k] : e = store[k][i]
      BY <3>3, <1>1, <2>2 DEF PanelParts, KnowsPast
    <3> QED
      BY <3>1, <3>2, <3>3
  <2> QED
    BY <2>1, <2>2
<1> QED
  BY <1>3, <1>4 DEF PanelParts

LEMMA EnterPanel ==
  ASSUME TypeOK, PanelParts, NEW t \in Threads, NEW k \in Logged, NEW what \in Report,
         Enter(t, k, what)
  PROVE  PanelParts'
<1>1. \A u \in Threads, x \in Cells : job'[u].item.knows[x] <= cell[x].ts
  <2>1. \A x \in Cells : job'[t].item.knows[x] = cell[x].ts /\ cell[x].ts \in Nat
    BY DEF Enter, TypeOK
  <2>2. \A u \in Threads \ {t} : job'[u] = job[u]
    BY DEF Enter, TypeOK
  <2> QED
    BY <2>1, <2>2 DEF PanelParts, KnowsPast
<1>2. \A x \in Cells : cell[x].ts <= clock'
  BY DEF Enter, TypeOK, PanelParts, KnowsPast
<1>3. UNCHANGED <<cell, store, view, seen>>
  BY DEF Enter, reads
<1> QED
  BY <1>1, <1>2, <1>3 DEF PanelParts, KnowsPast, ReportsFollowPanel

\* A badge or field moves to a time later than anything recorded.
LEMMA CellPanel ==
  ASSUME TypeOK, PanelParts, NEW b \in Cells, clock' = clock + 1,
         cell'[b].ts = clock + 1, \A x \in Cells \ {b} : cell'[x] = cell[x],
         \A u \in Threads : job'[u] = job[u]
                            \/ \A x \in Cells : job'[u].item.knows[x] = 0,
         UNCHANGED <<store, view, seen>>
  PROVE  PanelParts'
<1>1. \A x \in Cells : /\ cell[x].ts \in Nat /\ cell[x].ts <= cell'[x].ts
                       /\ cell'[x].ts \in Nat /\ cell'[x].ts <= clock'
  <2> SUFFICES ASSUME NEW x \in Cells
               PROVE  /\ cell[x].ts \in Nat /\ cell[x].ts <= cell'[x].ts
                      /\ cell'[x].ts \in Nat /\ cell'[x].ts <= clock'
    OBVIOUS
  <2>1. cell[x].ts \in Nat /\ clock \in Nat /\ cell[x].ts <= clock
    BY DEF TypeOK, PanelParts, KnowsPast
  <2>2. CASE x = b
    BY <2>1, <2>2
  <2>3. CASE x # b
    BY <2>1, <2>3
  <2> QED
    BY <2>2, <2>3
<1>2. ASSUME NEW u \in Threads, NEW x \in Cells PROVE job'[u].item.knows[x] <= cell'[x].ts
  <2>1. job[u].item.knows[x] <= cell[x].ts /\ job[u].item.knows[x] \in Nat
    BY DEF PanelParts, KnowsPast, TypeOK, Item
  <2> QED
    BY <2>1, <1>1
<1>3. ASSUME NEW k \in Kinds, NEW i \in DOMAIN store[k], NEW x \in Cells
      PROVE  store[k][i].knows[x] <= cell'[x].ts
  <2>1. store[k][i] \in Item
    BY DEF TypeOK
  <2>2. store[k][i].knows[x] <= cell[x].ts /\ store[k][i].knows[x] \in Nat
    BY <2>1 DEF PanelParts, KnowsPast, Item
  <2> QED
    BY <2>2, <1>1
<1>4. ASSUME NEW c \in Clients, NEW x \in Cells PROVE seen[c][x] <= cell'[x].ts
  <2>1. seen[c][x] <= cell[x].ts /\ seen[c][x] \in Nat
    BY DEF PanelParts, KnowsPast, TypeOK
  <2> QED
    BY <2>1, <1>1
<1>5. KnowsPast'
  BY <1>1, <1>2, <1>3, <1>4 DEF KnowsPast
<1> QED
  BY <1>5 DEF PanelParts, ReportsFollowPanel

LEMMA PanelStep == TypeOK /\ PanelParts /\ [Next]_vars => PanelParts'
<1> SUFFICES ASSUME TypeOK, PanelParts, [Next]_vars PROVE PanelParts'
  OBVIOUS
<1>1. ASSUME UNCHANGED <<clock, cell, job, view, seen>>,
             \A k \in Kinds : \A i \in DOMAIN store'[k] : \A x \in Cells :
               store'[k][i].knows[x] <= cell[x].ts
      PROVE  PanelParts'
  BY <1>1 DEF PanelParts, KnowsPast, ReportsFollowPanel
<1>2. ASSUME UNCHANGED paneling PROVE PanelParts'
  BY <1>2 DEF paneling, PanelParts, KnowsPast, ReportsFollowPanel
<1>3. \A x \in Cells : Blank.knows[x] = 0 /\ Idle.item.knows[x] = 0
  BY DEF Blank, Idle
<1>4. CASE UNCHANGED vars
  BY <1>2, <1>4 DEF vars, reads, paneling
<1>5. ASSUME NEW t \in Threads, AddConsoleLine(t) \/ AddEvent(t) PROVE PanelParts'
  BY <1>5, EnterPanel, ItemTypes DEF AddConsoleLine, AddEvent, Logged
<1>6. ASSUME NEW t \in Threads, ReportBadge(t) PROVE PanelParts'
  <2>1. job[t].item.what \in Report
    BY DEF TypeOK, Item
  <2> QED
    BY <1>6, <2>1, EnterPanel DEF ReportBadge, Logged
<1>7. ASSUME NEW t \in Threads, AddStatus(t) PROVE PanelParts'
  <2> DEFINE x == [Blank EXCEPT !.ts = clock + 1]
  <2>1. clock + 1 \in Nat /\ clock \in Nat
    BY DEF TypeOK
  <2>2. x \in Item /\ x.knows = Blank.knows
    BY <2>1, ItemTypes DEF Item
  <2>3. /\ Post("status", x) /\ clock' = clock + 1
        /\ UNCHANGED <<cell, job, view, seen>>
    BY <1>7 DEF AddStatus, reads
  <2>4. \A z \in Cells : cell[z].ts \in Nat /\ cell[z].ts <= clock
    BY DEF TypeOK, PanelParts, KnowsPast
  <2> HIDE DEF x
  <2>5. \A k \in Kinds : \A i \in DOMAIN store'[k] : \A z \in Cells :
          store'[k][i].knows[z] <= cell[z].ts
    <3>1. \A z \in Cells : x.knows[z] <= cell[z].ts
      BY <2>2, <2>4, <1>3
    <3> QED
      BY <2>2, <2>3, <3>1, PostPanel DEF Kinds
  <2>6. \A z \in Cells : cell[z].ts <= clock'
    BY <2>1, <2>3, <2>4
  <2> QED
    BY <2>3, <2>5, <2>6 DEF PanelParts, KnowsPast, ReportsFollowPanel
<1>8. ASSUME NEW t \in Threads, NEW b \in Badges, NEW s \in BadgeState,
             SetBadge(t, b, s)
      PROVE  PanelParts'
  <2> DEFINE what == [badge |-> b, old |-> cell[b].val, new |-> s]
             item == [Blank EXCEPT !.what = what]
  <2>1. b \in Cells
    BY DEF Cells
  <2>2. \A x \in Cells : item.knows[x] = 0
    BY DEF Blank
  <2>3. \/ job' = job
        \/ job' = [job EXCEPT ![t] = [pc |-> "report", kind |-> "events", item |-> item]]
    BY <1>8 DEF SetBadge
  <2> HIDE DEF item
  <2>4. \A u \in Threads : job'[u] = job[u]
                          \/ \A x \in Cells : job'[u].item.knows[x] = 0
    BY <2>2, <2>3 DEF TypeOK
  <2>5. /\ clock' = clock + 1 /\ cell'[b].ts = clock + 1
        /\ \A x \in Cells \ {b} : cell'[x] = cell[x]
        /\ UNCHANGED <<store, view, seen>>
    BY <1>8, <2>1 DEF SetBadge, reads, TypeOK
  <2> QED
    BY <2>1, <2>4, <2>5, CellPanel
<1>9. ASSUME NEW t \in Threads, NEW x \in Fields, SetField(t, x) PROVE PanelParts'
  <2>1. x \in Cells
    BY DEF Cells
  <2>2. /\ clock' = clock + 1 /\ cell'[x].ts = clock + 1
        /\ \A z \in Cells \ {x} : cell'[z] = cell[z]
        /\ UNCHANGED <<job, store, view, seen>>
    BY <1>9, <2>1 DEF SetField, reads, TypeOK
  <2> QED
    BY <2>1, <2>2, CellPanel
<1>10. ASSUME NEW t \in Threads, Record(t) PROVE PanelParts'
  <2>1. job[t].kind \in Kinds /\ job[t].item \in Item
    BY DEF TypeOK, Logged, Kinds
  <2>2. \A z \in Cells : job[t].item.knows[z] <= cell[z].ts
    BY DEF PanelParts, KnowsPast
  <2>3. Post(job[t].kind, job[t].item) /\ UNCHANGED <<clock, cell, view, seen>>
    BY <1>10 DEF Record, reads
  <2>4. \A k \in Kinds : \A i \in DOMAIN store'[k] : \A z \in Cells :
          store'[k][i].knows[z] <= cell[z].ts
    BY <2>1, <2>2, <2>3, PostPanel
  <2>5. \A u \in Threads : job'[u].item.knows = job[u].item.knows
    BY <1>10 DEF Record, TypeOK, Item
  <2> QED
    BY <2>3, <2>4, <2>5 DEF PanelParts, KnowsPast, ReportsFollowPanel
<1>11. ASSUME NEW t \in Threads, Write(t) PROVE PanelParts'
  <2>1. \A u \in Threads : job'[u] = job[u] \/ job'[u] = Idle
    BY <1>11 DEF Write, TypeOK
  <2>2. UNCHANGED <<clock, cell, store, view, seen>>
    BY <1>11 DEF Write, reads
  <2>3. ASSUME NEW u \in Threads, NEW x \in Cells
        PROVE  job'[u].item.knows[x] <= cell[x].ts
    <3>1. job[u].item.knows[x] <= cell[x].ts /\ cell[x].ts \in Nat
      BY DEF PanelParts, KnowsPast, TypeOK
    <3>2. CASE job'[u] = Idle
      BY <3>1, <3>2, <1>3
    <3> QED
      BY <3>1, <3>2, <2>1
  <2> QED
    BY <2>2, <2>3 DEF PanelParts, KnowsPast, ReportsFollowPanel
<1>12. ASSUME NEW c \in Clients, Connect(c) PROVE PanelParts'
  <2>1. \A k \in Kinds : \A e \in view'[c][k] : \E i \in DOMAIN store[k] : e = store[k][i]
    BY <1>12 DEF Connect, LastN, TypeOK
  <2>2. /\ \A d \in Clients \ {c} : view'[d] = view[d]
        /\ seen' = [seen EXCEPT ![c] = CellTimes]
        /\ UNCHANGED <<clock, cell, job, store>>
    BY <1>12 DEF Connect, TypeOK
  <2> QED
    BY <2>1, <2>2, SendPanel
<1>13. ASSUME NEW c \in Clients, Delta(c) PROVE PanelParts'
  <2>1. \A k \in Kinds : \A e \in view'[c][k] :
          e \in view[c][k] \/ \E i \in DOMAIN store[k] : e = store[k][i]
    BY <1>13 DEF Delta, After, TypeOK
  <2>2. /\ \A d \in Clients \ {c} : view'[d] = view[d]
        /\ seen' = [seen EXCEPT ![c] = CellTimes]
        /\ UNCHANGED <<clock, cell, job, store>>
    BY <1>13 DEF Delta, TypeOK
  <2> QED
    BY <2>1, <2>2, SendPanel
<1>14. ASSUME NEW c \in Clients, Disconnect(c) PROVE PanelParts'
  BY <1>2, <1>14 DEF Disconnect, paneling
<1> QED
  BY <1>2, <1>4, <1>5, <1>6, <1>7, <1>8, <1>9, <1>10, <1>11, <1>12, <1>13, <1>14
     DEF Next, Call, Finish

-----------------------------------------------------------------------------
(* The theorems.                                                           *)

LEMMA FeedInit == Init => FeedInv
<1> SUFFICES ASSUME Init PROVE FeedInv
  OBVIOUS
<1>1. \A k \in Kinds : store[k] = <<>> /\ posted[k] = <<>> /\ Len(<<>>) = 0
  BY DEF Init
<1>2. \A k \in Kinds : MaxLen[k] \in Nat \ {0}
  BY ConstAssumption
<1>3. ASSUME NEW k \in Kinds PROVE IsNewest(store[k], posted[k], MaxLen[k])
  <2>1. 1 .. 0 = {} /\ 0 < MaxLen[k]
    BY <1>2
  <2> QED
    BY <2>1, <1>1 DEF IsNewest
<1>4. Numbered /\ NothingSkipped
  BY <1>1 DEF Numbered, Rising, NothingSkipped, Given
<1>5. CursorsBound
  BY DEF Init, CursorsBound
<1>6. \A x \in Cells : Idle.item.knows[x] = 0
  BY DEF Idle, Blank
<1>7. KnowsPast
  BY <1>1, <1>6 DEF Init, KnowsPast
<1>8. ReportsFollowPanel
  BY DEF Init, ReportsFollowPanel
<1> QED
  BY <1>3, <1>4, <1>5, <1>7, <1>8 DEF FeedInv, StoreIsNewest

\* The invariant behind the theorems below holds in every reachable state.
THEOREM FeedInvariant == Spec => []FeedInv
<1>1. Init => FeedInv
  BY FeedInit
<1>2. TypeOK /\ FeedInv /\ [Next]_vars => FeedInv'
  BY FeedStep, PanelStep DEF FeedInv, FeedParts, PanelParts
<1> QED
  BY <1>1, <1>2, TypeCorrect, PTL DEF Spec

\* A tab that follows the deltas misses nothing but what fell out of a deque.
THEOREM NoItemSkipped == Spec => []NothingSkipped
<1>1. FeedInv => NothingSkipped
  BY DEF FeedInv
<1> QED
  BY <1>1, FeedInvariant, PTL

\* A tab never shows a report that is ahead of its badge panel.
THEOREM PanelFirst == Spec => []ReportsFollowPanel
<1>1. FeedInv => ReportsFollowPanel
  BY DEF FeedInv
<1> QED
  BY <1>1, FeedInvariant, PTL

\* A delta brings only items newer than all the tab was sent before.
THEOREM DeltasInOrder == Spec => OrderedDelivery
<1> DEFINE InOrder ==
      \A c \in Clients, k \in Kinds : conn[c] /\ conn'[c] =>
        \A x \in view'[c][k] \ view[c][k], y \in view[c][k] : x.seq > y.seq
<1>1. TypeOK /\ FeedInv /\ [Next]_vars => [InOrder]_vars
  <2> SUFFICES ASSUME TypeOK, FeedInv, [Next]_vars,
                      NEW c \in Clients, NEW k \in Kinds, conn[c], conn'[c],
                      NEW x \in view'[c][k] \ view[c][k], NEW y \in view[c][k]
               PROVE  x.seq > y.seq
    OBVIOUS
  <2>1. ASSUME NEW d \in Clients, Connect(d) PROVE view'[c] = view[c]
    BY <2>1 DEF Connect, TypeOK
  <2>2. ASSUME NEW d \in Clients, Delta(d), d # c PROVE view'[c] = view[c]
    BY <2>2 DEF Delta, TypeOK
  <2>3. ASSUME NEW d \in Clients, Disconnect(d) PROVE view'[c] = view[c]
    BY <2>3 DEF Disconnect
  <2>4. ASSUME NEW t \in Threads, Call(t) \/ Finish(t) PROVE view'[c] = view[c]
    BY <2>4 DEF Call, Finish, AddConsoleLine, AddEvent, AddStatus, SetBadge, SetField,
                ReportBadge, Enter, Record, Write, reads
  <2>5. CASE Delta(c)
    <3>1. x \in After(store[k], cursor[c])
      BY <2>5 DEF Delta, TypeOK
    <3>2. x.seq > cursor[c] /\ x \in Item
      BY <3>1 DEF After, TypeOK
    <3>3. y.seq <= cursor[c] /\ y \in Item
      BY DEF FeedInv, CursorsBound, TypeOK
    <3>4. x.seq \in Nat /\ y.seq \in Nat /\ cursor[c] \in Nat
      BY <3>2, <3>3 DEF Item, TypeOK
    <3> QED
      BY <3>2, <3>3, <3>4
  <2>6. CASE UNCHANGED vars
    BY <2>6 DEF vars, reads
  <2> QED
    BY <2>1, <2>2, <2>3, <2>4, <2>5, <2>6 DEF Next
<1> QED
  BY <1>1, TypeCorrect, FeedInvariant, PTL DEF Spec, OrderedDelivery
=============================================================================

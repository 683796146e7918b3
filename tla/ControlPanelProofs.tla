------------------------- MODULE ControlPanelProofs -------------------------
(***************************************************************************)
(* Proofs about ControlPanel, for any channels, shapes and number of       *)
(* handlers that wait at the same time.                                    *)
(***************************************************************************)
EXTENDS ControlPanel, SequenceTheorems, TLAPS

-----------------------------------------------------------------------------
(* The queue of requests.                                                  *)

\* The first d requests are gone from it, and those of more, one at most, have
\* come in behind.
Moved(d, more) ==
  /\ \A k \in DOMAIN sent : k > d => k - d \in DOMAIN sent' /\ sent'[k - d] = sent[k]
  /\ \A i \in DOMAIN sent' :
       \/ i + d \in DOMAIN sent /\ sent'[i] = sent[i + d]
       \/ i = Len(sent') /\ i + d > Len(sent) /\ sent'[i] \in more
  /\ \A r \in more : Len(sent') \in DOMAIN sent' /\ sent'[Len(sent')] = r
  /\ Len(sent') \in Nat /\ DOMAIN sent' = 1 .. Len(sent')

LEMMA SentFacts ==
  ASSUME sent \in Seq(Requests)
  PROVE  /\ Len(sent) \in Nat /\ DOMAIN sent = 1 .. Len(sent)
         /\ \A i \in DOMAIN sent : sent[i] \in Requests
         /\ sent # <<>> => 1 \in DOMAIN sent /\ Head(sent) = sent[1]
<1>1. Len(sent) \in Nat /\ DOMAIN sent = 1 .. Len(sent)
  BY LenProperties
<1>2. sent # <<>> => Len(sent) # 0 /\ Head(sent) = sent[1]
  BY EmptySeq, HeadTailProperties
<1> QED
  BY <1>1, <1>2, ElementOfSeq

LEMMA AppendMoves ==
  ASSUME sent \in Seq(Requests), NEW r \in Requests, sent' = Append(sent, r)
  PROVE  sent' \in Seq(Requests) /\ Moved(0, {r})
<1>1. /\ sent' \in Seq(Requests) /\ Len(sent') = Len(sent) + 1
      /\ \A i \in 1 .. Len(sent) : sent'[i] = sent[i]
      /\ sent'[Len(sent) + 1] = r
  BY AppendProperties
<1>2. Len(sent) \in Nat /\ DOMAIN sent = 1 .. Len(sent) /\ DOMAIN sent' = 1 .. Len(sent')
  BY <1>1, LenProperties
<1>3. ASSUME NEW k \in DOMAIN sent PROVE k - 0 \in DOMAIN sent' /\ sent'[k - 0] = sent[k]
  <2>1. k \in 1 .. Len(sent) /\ k - 0 = k /\ k \in DOMAIN sent'
    BY <1>1, <1>2
  <2> QED
    BY <1>1, <2>1
<1>4. ASSUME NEW i \in DOMAIN sent'
      PROVE  \/ i + 0 \in DOMAIN sent /\ sent'[i] = sent[i + 0]
             \/ i = Len(sent') /\ i + 0 > Len(sent) /\ sent'[i] \in {r}
  <2>1. i + 0 = i /\ (i \in 1 .. Len(sent) \/ i = Len(sent) + 1)
    BY <1>1, <1>2
  <2>2. Len(sent) + 1 > Len(sent)
    BY <1>2
  <2> QED
    BY <1>1, <1>2, <2>1, <2>2
<1>5. Len(sent') \in DOMAIN sent' /\ sent'[Len(sent')] = r /\ Len(sent') \in Nat
  BY <1>1, <1>2
<1> QED
  BY <1>1, <1>2, <1>3, <1>4, <1>5 DEF Moved

LEMMA TailMoves ==
  ASSUME sent \in Seq(Requests), sent # <<>>, sent' = Tail(sent)
  PROVE  sent' \in Seq(Requests) /\ Moved(1, {})
<1>1. /\ sent' \in Seq(Requests) /\ Len(sent') = Len(sent) - 1
      /\ \A i \in 1 .. Len(sent') : sent'[i] = sent[i + 1]
  BY HeadTailProperties
<1>2. Len(sent) \in Nat /\ DOMAIN sent = 1 .. Len(sent)
      /\ Len(sent') \in Nat /\ DOMAIN sent' = 1 .. Len(sent')
  BY <1>1, LenProperties
<1>3. ASSUME NEW k \in DOMAIN sent, k > 1
      PROVE  k - 1 \in DOMAIN sent' /\ sent'[k - 1] = sent[k]
  <2>1. k - 1 \in 1 .. Len(sent') /\ (k - 1) + 1 = k
    BY <1>1, <1>2, <1>3
  <2>2. sent'[k - 1] = sent[(k - 1) + 1]
    BY <1>1, <2>1
  <2> QED
    BY <1>2, <2>1, <2>2
<1>4. \A i \in DOMAIN sent' : i + 1 \in DOMAIN sent /\ sent'[i] = sent[i + 1]
  BY <1>1, <1>2
<1> QED
  BY <1>1, <1>2, <1>3, <1>4 DEF Moved

LEMMA TailAppendMoves ==
  ASSUME sent \in Seq(Requests), sent # <<>>, NEW r \in Requests,
         sent' = Append(Tail(sent), r)
  PROVE  sent' \in Seq(Requests) /\ Moved(1, {r})
<1>1. /\ Tail(sent) \in Seq(Requests) /\ Len(Tail(sent)) = Len(sent) - 1
      /\ \A i \in 1 .. Len(Tail(sent)) : Tail(sent)[i] = sent[i + 1]
  BY HeadTailProperties
<1>2. /\ sent' \in Seq(Requests) /\ Len(sent') = Len(Tail(sent)) + 1
      /\ \A i \in 1 .. Len(Tail(sent)) : sent'[i] = Tail(sent)[i]
      /\ sent'[Len(Tail(sent)) + 1] = r
  BY <1>1, AppendProperties
<1>3. Len(sent) \in Nat /\ DOMAIN sent = 1 .. Len(sent)
      /\ Len(Tail(sent)) \in Nat /\ Len(sent') = Len(sent)
      /\ DOMAIN sent' = 1 .. Len(sent')
  BY <1>1, <1>2, LenProperties
<1>4. ASSUME NEW k \in DOMAIN sent, k > 1
      PROVE  k - 1 \in DOMAIN sent' /\ sent'[k - 1] = sent[k]
  <2>1. k - 1 \in 1 .. Len(Tail(sent)) /\ (k - 1) + 1 = k /\ k - 1 \in 1 .. Len(sent')
    BY <1>1, <1>3, <1>4
  <2>2. sent'[k - 1] = sent[(k - 1) + 1]
    BY <1>1, <1>2, <2>1
  <2> QED
    BY <1>3, <2>1, <2>2
<1>5. ASSUME NEW i \in DOMAIN sent'
      PROVE  \/ i + 1 \in DOMAIN sent /\ sent'[i] = sent[i + 1]
             \/ i = Len(sent') /\ i + 1 > Len(sent) /\ sent'[i] \in {r}
  <2>1. CASE i \in 1 .. Len(Tail(sent))
    BY <1>1, <1>2, <1>3, <2>1
  <2>2. CASE i \notin 1 .. Len(Tail(sent))
    <3>1. i = Len(Tail(sent)) + 1 /\ i = Len(sent') /\ i + 1 > Len(sent)
      BY <1>1, <1>3, <2>2
    <3> QED
      BY <1>2, <3>1
  <2> QED
    BY <2>1, <2>2
<1>6. Len(sent') \in DOMAIN sent' /\ sent'[Len(sent')] = r
  <2>1. Len(sent') = Len(Tail(sent)) + 1 /\ Len(sent') \in 1 .. Len(sent')
    BY <1>2, <1>3
  <2> QED
    BY <1>2, <1>3, <2>1
<1> QED
  BY <1>2, <1>3, <1>4, <1>5, <1>6 DEF Moved

-----------------------------------------------------------------------------
(* Types.                                                                  *)

LEMMA StartRequestFields ==
  ASSUME NEW t
  PROVE  StartRequest(t) = [task |-> t, do |-> "start",
                            chs |-> IF task[t].start = Channels THEN Channels ELSE {sel},
                            asked |-> task[t].start, wave |-> None]
BY DEF StartRequest, Request

LEMMA RequestTypes ==
  ASSUME TypeOK
  PROVE  /\ \A t \in Tasks, c \in Channels : Waveform(t, c) \in Requests
         /\ \A t \in Tasks : StartRequest(t) \in Requests
         /\ \A do \in {"stop", "estop", "hv_on", "hv_off"}, chs \in SUBSET Channels :
              Request(None, do, chs, None) \in Requests
<1>1. ASSUME NEW t \in Tasks PROVE StartRequest(t) \in Requests
  <2>1. task[t].start \in SUBSET Channels /\ {sel} \in SUBSET Channels
    BY DEF TypeOK
  <2>2. StartRequest(t) = [task |-> t, do |-> "start",
                           chs |-> IF task[t].start = Channels THEN Channels ELSE {sel},
                           asked |-> task[t].start, wave |-> None]
    BY StartRequestFields
  <2> QED
    BY <2>1, <2>2 DEF Requests
<1> QED
  BY <1>1 DEF TypeOK, Requests, Request, Waveform

TaskStates == [Tasks -> [busy : BOOLEAN, todo : SUBSET Channels, start : SUBSET Channels]]

\* A setting that a handler sends is appended, and the handler waits.
LEMMA BeginMoves ==
  ASSUME TypeOK, NEW t \in Tasks, NEW chs \in SUBSET Channels, NEW start \in SUBSET Channels,
         Begin(t, chs, start)
  PROVE  /\ sent' \in Seq(Requests)
         /\ \E c \in chs : Moved(0, {Waveform(t, c)})
         /\ task[t] = Idle
         /\ task' = [task EXCEPT ![t] = [busy |-> TRUE, todo |-> chs, start |-> start]]
         /\ task' \in TaskStates
<1>1. PICK c \in chs : sent' = Append(sent, Waveform(t, c))
  BY DEF Begin
<1>2. Waveform(t, c) \in Requests /\ sent \in Seq(Requests)
  BY RequestTypes DEF TypeOK
<1>3. sent' \in Seq(Requests) /\ Moved(0, {Waveform(t, c)})
  BY <1>1, <1>2, AppendMoves
<1> QED
  BY <1>3 DEF Begin, TypeOK, TaskStates

\* The three ways in which a handler goes on.
Goes(t, more) ==
  LET todo == task[t].todo \ Head(sent).chs
  IN  \/ /\ \E c \in todo : more = {Waveform(t, c)}
         /\ task' = [task EXCEPT ![t].todo = todo]
      \/ /\ todo = {} /\ task[t].start # {}
         /\ more = {StartRequest(t)}
         /\ task' = [task EXCEPT ![t] = [Idle EXCEPT !.busy = TRUE]]
      \/ /\ todo = {} /\ task[t].start = {}
         /\ more = {}
         /\ task' = [task EXCEPT ![t] = Idle]

LEMMA ResumeMoves ==
  ASSUME TypeOK, sent # <<>>, Resume(Head(sent)), Head(sent).task \in Tasks
  PROVE  /\ sent' \in Seq(Requests)
         /\ \E more : Moved(1, more) /\ Goes(Head(sent).task, more)
         /\ task' \in TaskStates
<1> DEFINE t == Head(sent).task
           todo == task[t].todo \ Head(sent).chs
<1>0. sent \in Seq(Requests) /\ todo \in SUBSET Channels /\ task[t].start \in SUBSET Channels
  BY DEF TypeOK
<1>1. CASE /\ \E c \in todo : sent' = Append(Tail(sent), Waveform(t, c))
           /\ task' = [task EXCEPT ![t].todo = todo]
  <2>1. PICK c \in todo : sent' = Append(Tail(sent), Waveform(t, c))
    BY <1>1
  <2>2. sent' \in Seq(Requests) /\ Moved(1, {Waveform(t, c)})
    BY <1>0, <2>1, RequestTypes, TailAppendMoves
  <2>3. Goes(t, {Waveform(t, c)})
    BY <1>1 DEF Goes
  <2>4. task' \in TaskStates
    <3> HIDE DEF todo
    <3>1. task[t] \in [busy : BOOLEAN, todo : SUBSET Channels, start : SUBSET Channels]
      BY DEF TypeOK
    <3>2. [task[t] EXCEPT !.todo = todo]
            \in [busy : BOOLEAN, todo : SUBSET Channels, start : SUBSET Channels]
      BY <1>0, <3>1
    <3>3. task' = [task EXCEPT ![t] = [task[t] EXCEPT !.todo = todo]]
      BY <1>1
    <3> QED
      BY <3>2, <3>3 DEF TypeOK, TaskStates
  <2> QED
    BY <2>2, <2>3, <2>4
<1>2. CASE /\ todo = {} /\ task[t].start # {}
           /\ sent' = Append(Tail(sent), StartRequest(t))
           /\ task' = [task EXCEPT ![t] = [Idle EXCEPT !.busy = TRUE]]
  <2> DEFINE r == StartRequest(t)
  <2>1. r \in Requests
    BY <1>0, RequestTypes
  <2>2. sent' \in Seq(Requests) /\ Moved(1, {r})
    BY <1>0, <1>2, <2>1, TailAppendMoves
  <2>3. Goes(t, {r})
    BY <1>2 DEF Goes
  <2>4. task' \in TaskStates
    BY <1>2 DEF TypeOK, Idle, TaskStates
  <2> QED
    BY <2>2, <2>3, <2>4
<1>3. CASE /\ todo = {} /\ task[t].start = {}
           /\ sent' = Tail(sent)
           /\ task' = [task EXCEPT ![t] = Idle]
  <2>1. sent' \in Seq(Requests) /\ Moved(1, {})
    BY <1>0, <1>3, TailMoves
  <2>2. Goes(t, {})
    BY <1>3 DEF Goes
  <2>3. task' \in TaskStates
    BY <1>3 DEF TypeOK, Idle, TaskStates
  <2> QED
    BY <2>1, <2>2, <2>3
<1> QED
  BY <1>1, <1>2, <1>3 DEF Resume

LEMMA ClampType ==
  ASSUME NEW x \in 0 .. MaxFreq + 1
  PROVE  Clamp(x) \in 1 .. MaxFreq
<1>1. MaxFreq \in Nat /\ Default.freq \in 1 .. MaxFreq
  BY PanelAssumption DEF Waves
<1> QED
  BY <1>1 DEF Clamp

\* What both kinds of change set.
LEMMA ChangeType ==
  ASSUME TypeOK, NEW chs \in SUBSET Channels, settings' \in [Channels -> Waves], Change(chs)
  PROVE  TypeOK'
<1>1. UNCHANGED <<sel, task, sent, up, device, estop>>
  BY DEF Change
<1>2. /\ pending' \in SUBSET Channels /\ timer' \in BOOLEAN /\ owed' \in SUBSET Channels
  BY DEF Change, Schedule, TypeOK
<1>3. acts' \in 0 .. MaxActs
  BY PanelAssumption DEF Change, Act, TypeOK
<1>4. seen' \in [Channels -> SUBSET Waves]
  <2>1. CASE Starting
    <3>1. seen' = [c \in Channels |-> seen[c] \cup {settings'[c]}]
      BY <2>1 DEF Change
    <3>2. \A c \in Channels : seen[c] \cup {settings'[c]} \in SUBSET Waves
      BY DEF TypeOK
    <3> QED
      BY <3>1, <3>2
  <2>2. CASE ~Starting
    BY <2>2 DEF Change, TypeOK
  <2> QED
    BY <2>1, <2>2
<1> QED
  BY <1>1, <1>2, <1>3, <1>4 DEF TypeOK, device

LEMMA ChangeFreqSets ==
  ASSUME TypeOK, NEW x \in 0 .. MaxFreq + 1, ChangeFreq(x)
  PROVE  settings' \in [Channels -> Waves]
<1>1. \A c \in Channels : [settings[c] EXCEPT !.freq = Clamp(x)] \in Waves
  BY ClampType DEF TypeOK, Waves
<1> QED
  BY <1>1 DEF ChangeFreq

LEMMA ChangeShapeSets ==
  ASSUME TypeOK, NEW s \in Shapes, ChangeShape(s)
  PROVE  /\ settings' \in [Channels -> Waves]
         /\ \A d \in Channels : d # sel => settings'[d] = settings[d]
<1>1. [settings[sel] EXCEPT !.shape = s] \in Waves
  BY DEF TypeOK, Waves
<1>2. settings' = [settings EXCEPT ![sel] = [settings[sel] EXCEPT !.shape = s]]
  BY DEF ChangeShape
<1> QED
  BY <1>1, <1>2 DEF TypeOK

LEMMA ForgetType ==
  ASSUME TypeOK, Forget
  PROVE  seen' \in [Channels -> SUBSET Waves]
BY DEF TypeOK, Forget

LEMMA ExecuteType ==
  ASSUME TypeOK, NEW r \in Requests, Execute(r)
  PROVE  /\ dev' \in [Channels -> Waves \cup {None}] /\ out' \in SUBSET Channels
         /\ hv' \in BOOLEAN
<1>1. \A c \in Channels : (IF r.do = "waveform" /\ c \in r.chs THEN r.wave ELSE dev[c])
                             \in Waves \cup {None}
  BY DEF Requests, TypeOK
<1>2. dev' \in [Channels -> Waves \cup {None}]
  BY <1>1 DEF Execute
<1>3. r.chs \in SUBSET Channels
  BY DEF Requests
<1>4. out' \in SUBSET Channels
  BY <1>3 DEF Execute, TypeOK
<1>5. hv' \in BOOLEAN
  BY DEF Execute, TypeOK
<1> QED
  BY <1>2, <1>4, <1>5

LEMMA PanelInit == Init => TypeOK
<1> SUFFICES ASSUME Init PROVE TypeOK
  OBVIOUS
<1>1. sent \in Seq(Requests)
  BY EmptySeq DEF Init
<1>2. settings \in [Channels -> Waves] /\ sel \in Channels /\ acts \in 0 .. MaxActs
  BY PanelAssumption DEF Init
<1>3. task \in TaskStates
  BY DEF Init, Idle, TaskStates
<1>4. /\ dev \in [Channels -> Waves \cup {None}] /\ seen \in [Channels -> SUBSET Waves]
      /\ pending \in SUBSET Channels /\ out \in SUBSET Channels /\ owed \in SUBSET Channels
      /\ timer \in BOOLEAN /\ up \in BOOLEAN /\ hv \in BOOLEAN
      /\ estop \in {"none", "asked", "done"}
  BY DEF Init
<1> QED
  BY <1>1, <1>2, <1>3, <1>4 DEF TypeOK, TaskStates

LEMMA ServeMoves ==
  ASSUME TypeOK, Serve
  PROVE  /\ sent # <<>> /\ Head(sent) = sent[1] /\ 1 \in DOMAIN sent /\ sent[1] \in Requests
         /\ sent' \in Seq(Requests) /\ task' \in TaskStates
         /\ Execute(Head(sent)) /\ Forget
         /\ UNCHANGED <<settings, sel, pending, timer, up, owed, acts>>
         /\ \/ sent[1].task = None /\ Moved(1, {}) /\ task' = task
            \/ sent[1].task \in Tasks /\ \E more : Moved(1, more) /\ Goes(sent[1].task, more)
<1>1. sent # <<>> /\ Execute(Head(sent)) /\ Forget
      /\ UNCHANGED <<settings, sel, pending, timer, up, owed, acts>>
  BY DEF Serve
<1>2. sent \in Seq(Requests) /\ task \in TaskStates
  BY DEF TypeOK, TaskStates
<1>3. Head(sent) = sent[1] /\ 1 \in DOMAIN sent /\ sent[1] \in Requests
  BY <1>1, <1>2, SentFacts
<1>4. CASE sent[1].task = None
  <2>1. sent' = Tail(sent) /\ task' = task
    BY <1>3, <1>4 DEF Serve, Pop
  <2> QED
    BY <1>1, <1>2, <1>3, <1>4, <2>1, TailMoves
<1>5. CASE sent[1].task # None
  <2>1. Head(sent).task \in Tasks /\ Resume(Head(sent))
    BY <1>3, <1>5 DEF Serve, Requests
  <2> QED
    BY <1>1, <1>3, <2>1, ResumeMoves
<1> QED
  BY <1>4, <1>5

LEMMA RefuseMoves ==
  ASSUME TypeOK, Refuse
  PROVE  /\ 1 \in DOMAIN sent /\ sent[1] \in Requests
         /\ sent' \in Seq(Requests) /\ Moved(1, {}) /\ task' \in TaskStates
         /\ owed' \in SUBSET Channels /\ Forget
         /\ UNCHANGED <<settings, sel, pending, timer, up, device, estop, acts>>
         /\ \/ sent[1].task = None /\ task' = task /\ owed' = owed
            \/ /\ sent[1].task \in Tasks
               /\ task' = [task EXCEPT ![sent[1].task] = Idle]
               /\ owed' = owed \ task[sent[1].task].todo
<1>1. sent # <<>> /\ Forget /\ UNCHANGED <<settings, sel, pending, timer, up, device, estop, acts>>
  BY DEF Refuse
<1>2. sent \in Seq(Requests) /\ task \in TaskStates /\ owed \in SUBSET Channels
  BY DEF TypeOK, TaskStates
<1>3. Head(sent) = sent[1] /\ 1 \in DOMAIN sent /\ sent[1] \in Requests
  BY <1>1, <1>2, SentFacts
<1>4. sent' = Tail(sent)
  BY DEF Refuse, Pop, GiveUp
<1>5. sent' \in Seq(Requests) /\ Moved(1, {})
  BY <1>1, <1>2, <1>4, TailMoves
<1>6. CASE sent[1].task = None
  BY <1>1, <1>2, <1>3, <1>5, <1>6 DEF Refuse, Pop
<1>7. CASE sent[1].task # None
  <2>1. sent[1].task \in Tasks
    BY <1>3, <1>7 DEF Requests
  <2>2. /\ task' = [task EXCEPT ![sent[1].task] = Idle]
        /\ owed' = owed \ task[sent[1].task].todo
    BY <1>3, <1>7 DEF Refuse, GiveUp
  <2>3. task' \in TaskStates
    BY <1>2, <2>2 DEF TaskStates, Idle
  <2> QED
    BY <1>1, <1>2, <1>3, <1>5, <2>1, <2>2, <2>3
<1> QED
  BY <1>6, <1>7

LEMMA ReloadMoves ==
  ASSUME TypeOK, Reload
  PROVE  /\ sent' \in Seq(Requests) /\ DOMAIN sent' = DOMAIN sent
         /\ \A i \in DOMAIN sent :
              /\ sent'[i].task = None /\ sent'[i].do = sent[i].do
              /\ sent'[i].chs = sent[i].chs /\ sent'[i].asked = sent[i].asked
              /\ sent'[i].wave = sent[i].wave
         /\ task' = [t \in Tasks |-> Idle]
<1>1. Len(sent) \in Nat /\ DOMAIN sent = 1 .. Len(sent)
      /\ \A i \in DOMAIN sent : sent[i] \in Requests
  BY SentFacts DEF TypeOK
<1>2. sent' = [i \in 1 .. Len(sent) |-> [sent[i] EXCEPT !.task = None]]
  BY <1>1 DEF Reload
<1>3. \A i \in 1 .. Len(sent) : [sent[i] EXCEPT !.task = None] \in Requests
  BY <1>1 DEF Requests
<1>4. sent' \in Seq(Requests)
  BY <1>1, <1>2, <1>3
<1>5. ASSUME NEW i \in DOMAIN sent
      PROVE  /\ sent'[i].task = None /\ sent'[i].do = sent[i].do
             /\ sent'[i].chs = sent[i].chs /\ sent'[i].asked = sent[i].asked
              /\ sent'[i].wave = sent[i].wave
  <2>1. sent'[i] = [sent[i] EXCEPT !.task = None] /\ sent[i] \in Requests
    BY <1>1, <1>2
  <2> QED
    BY <2>1 DEF Requests
<1> QED
  BY <1>1, <1>2, <1>4, <1>5 DEF Reload

LEMMA PressMoves ==
  ASSUME TypeOK, NEW do \in {"stop", "estop", "hv_on", "hv_off"}, NEW chs \in SUBSET Channels,
         Press(do, chs)
  PROVE  /\ sent' \in Seq(Requests) /\ Moved(0, {Request(None, do, chs, None)})
         /\ acts' \in 0 .. MaxActs /\ UNCHANGED <<page, up, device, owed, seen>>
<1>1. Request(None, do, chs, None) \in Requests
  BY RequestTypes
<1>2. sent' = Append(sent, Request(None, do, chs, None)) /\ sent \in Seq(Requests)
  BY DEF Press, TypeOK
<1>3. acts' \in 0 .. MaxActs
  BY PanelAssumption DEF Press, Act, TypeOK
<1> QED
  BY <1>1, <1>2, <1>3, AppendMoves DEF Press

\* A channel tab at most.
Still ==
  /\ sel' \in Channels
  /\ UNCHANGED <<settings, pending, timer, task, sent, up, device, history, acts>>

\* What the user may do, one action at a time.
LEMMA PanelCases ==
  ASSUME TypeOK, [Next]_vars
  PROVE  \/ \E chs \in SUBSET Channels :
              /\ Change(chs) /\ settings' \in [Channels -> Waves]
              /\ \A c \in Channels \ chs : settings'[c] = settings[c]
         \/ \E t \in Tasks, chs \in SUBSET Channels : Start(t, chs)
         \/ \E do \in {"stop", "estop", "hv_on", "hv_off"}, chs \in SUBSET Channels :
              Press(do, chs) /\ estop' \in {estop, "asked", "none"}
         \/ Reload
         \/ \E t \in Tasks : Push(t)
         \/ Serve \/ Refuse \/ Link \/ Reboot
         \/ Still
<1>1. ASSUME NEW x \in 0 .. MaxFreq + 1, ChangeFreq(x)
      PROVE  \E chs \in SUBSET Channels :
               /\ Change(chs) /\ settings' \in [Channels -> Waves]
               /\ \A c \in Channels \ chs : settings'[c] = settings[c]
  <2>1. Change(Channels) /\ settings' \in [Channels -> Waves]
    BY <1>1, ChangeFreqSets DEF ChangeFreq
  <2> QED
    BY <2>1
<1>2. ASSUME NEW s \in Shapes, ChangeShape(s)
      PROVE  \E chs \in SUBSET Channels :
               /\ Change(chs) /\ settings' \in [Channels -> Waves]
               /\ \A d \in Channels \ chs : settings'[d] = settings[d]
  <2>1. Change({sel}) /\ settings' \in [Channels -> Waves] /\ {sel} \in SUBSET Channels
        /\ \A d \in Channels \ {sel} : settings'[d] = settings[d]
    BY <1>2, ChangeShapeSets DEF ChangeShape, TypeOK
  <2> QED
    BY <2>1
<1>3. ASSUME Stop
      PROVE  Press("stop", {sel}) /\ estop' = estop /\ {sel} \in SUBSET Channels
  BY <1>3 DEF Stop, TypeOK
<1>4. CASE AllStop \/ Estop \/ HvOff \/ HvOn
  BY <1>4 DEF AllStop, Estop, HvOff, HvOn
<1>5. ASSUME NEW t \in Tasks, AllStart(t) \/ Run(t)
      PROVE  \E chs \in SUBSET Channels : Start(t, chs)
  <2>1. {sel} \in SUBSET Channels
    BY DEF TypeOK
  <2> QED
    BY <1>5, <2>1 DEF AllStart, Run
<1>6. ASSUME (\E c \in Channels : SelectTab(c)) \/ UNCHANGED vars PROVE Still
  BY <1>6 DEF SelectTab, Still, vars, page, TypeOK
<1> QED
  BY <1>1, <1>2, <1>3, <1>4, <1>5, <1>6 DEF Next, User, Api

LEMMA PanelTypeStep == TypeOK /\ [Next]_vars => TypeOK'
<1> SUFFICES ASSUME TypeOK, [Next]_vars PROVE TypeOK'
  OBVIOUS
<1>1. ASSUME NEW t \in Tasks, NEW chs \in SUBSET Channels, Start(t, chs) PROVE TypeOK'
  <2>1. sent' \in Seq(Requests) /\ task' \in TaskStates
    BY <1>1, BeginMoves DEF Start
  <2>2. seen' \in [Channels -> SUBSET Waves]
    <3>1. \A c \in Channels : (IF Starting THEN seen[c] \cup {settings[c]} ELSE {settings[c]})
                                \in SUBSET Waves
      BY DEF TypeOK
    <3> QED
      BY <1>1, <3>1 DEF Start
  <2>3. acts' \in 0 .. MaxActs
    BY <1>1, PanelAssumption DEF Start, Act, TypeOK
  <2>4. owed' \in SUBSET Channels /\ estop' = "none"
    BY <1>1 DEF Start, TypeOK
  <2>5. UNCHANGED <<settings, sel, pending, timer, up, device>>
    BY <1>1 DEF Start
  <2> QED
    BY <2>1, <2>2, <2>3, <2>4, <2>5 DEF TypeOK, TaskStates, device
<1>2. ASSUME NEW do \in {"stop", "estop", "hv_on", "hv_off"}, NEW chs \in SUBSET Channels,
             Press(do, chs), estop' \in {estop, "asked", "none"}
      PROVE  TypeOK'
  BY <1>2, PressMoves DEF TypeOK, page, device
<1>3. CASE Reload
  <2>1. sent' \in Seq(Requests) /\ task' \in TaskStates
    <3>1. sent' \in Seq(Requests) /\ task' = [t \in Tasks |-> Idle]
      BY <1>3, ReloadMoves
    <3>2. Idle \in [busy : BOOLEAN, todo : SUBSET Channels, start : SUBSET Channels]
      BY DEF Idle
    <3> QED
      BY <3>1, <3>2 DEF TaskStates
  <2>2. /\ settings' \in [Channels -> Waves] /\ sel' \in Channels
        /\ seen' \in [Channels -> SUBSET Waves]
    BY <1>3, ForgetType, PanelAssumption DEF Reload
  <2>3. acts' \in 0 .. MaxActs
    BY <1>3, PanelAssumption DEF Reload, Act, TypeOK
  <2>4. pending' = {} /\ timer' = FALSE /\ owed' = {} /\ UNCHANGED <<up, device, estop>>
    BY <1>3 DEF Reload
  <2> QED
    BY <2>1, <2>2, <2>3, <2>4 DEF TypeOK, TaskStates, device
<1>4. ASSUME NEW t \in Tasks, Push(t) PROVE TypeOK'
  <2>1. sent' \in Seq(Requests) /\ task' \in TaskStates
    <3>1. pending \in SUBSET Channels /\ {} \in SUBSET Channels
      BY DEF TypeOK
    <3>2. Begin(t, pending, {})
      BY <1>4 DEF Push
    <3> QED
      BY <3>1, <3>2, BeginMoves
  <2>2. pending' = {} /\ timer' = FALSE /\ UNCHANGED <<settings, sel, up, device, history, acts>>
    BY <1>4 DEF Push
  <2> QED
    BY <2>1, <2>2 DEF TypeOK, TaskStates, device, history
<1>5. CASE Serve
  <2>1. /\ sent' \in Seq(Requests) /\ task' \in TaskStates
        /\ UNCHANGED <<settings, sel, pending, timer, up, owed, acts>>
    BY <1>5, ServeMoves
  <2>2. /\ dev' \in [Channels -> Waves \cup {None}] /\ out' \in SUBSET Channels
        /\ hv' \in BOOLEAN
    BY <1>5, ServeMoves, ExecuteType
  <2>3. seen' \in [Channels -> SUBSET Waves]
    BY <1>5, ServeMoves, ForgetType
  <2>4. estop' \in {"none", "asked", "done"}
    BY <1>5 DEF Serve, TypeOK
  <2> QED
    BY <2>1, <2>2, <2>3, <2>4 DEF TypeOK, TaskStates
<1>6. CASE Refuse
  <2>1. seen' \in [Channels -> SUBSET Waves]
    BY <1>6, RefuseMoves, ForgetType
  <2>2. /\ sent' \in Seq(Requests) /\ task' \in TaskStates /\ owed' \in SUBSET Channels
        /\ UNCHANGED <<settings, sel, pending, timer, up, device, estop, acts>>
    BY <1>6, RefuseMoves
  <2> QED
    BY <2>1, <2>2 DEF TypeOK, TaskStates, device
<1>7. CASE Link
  BY <1>7 DEF Link, TypeOK, page, device, history
<1>8. CASE Reboot
  BY <1>8 DEF Reboot, TypeOK, page
<1>9. CASE Still
  BY <1>9 DEF Still, TypeOK, device, history
<1> QED
  BY <1>1, <1>2, <1>3, <1>4, <1>5, <1>6, <1>7, <1>8, <1>9, ChangeType, PanelCases

-----------------------------------------------------------------------------
(* The handlers and their requests.                                        *)

\* Each handler waits for one request at most: a waveform of those it has still
\* to get accepted, or its start.
Orderly ==
  /\ \A i \in DOMAIN sent :
       sent[i].do = "waveform" =>
         \E c \in Channels : sent[i].chs = {c} /\ sent[i].wave \in Waves
  /\ \A i, j \in DOMAIN sent :
       sent[i].task = sent[j].task /\ sent[i].task # None => i = j
  /\ \A i \in DOMAIN sent : \A t \in Tasks :
       sent[i].task = t =>
         /\ task[t].busy
         /\ \/ sent[i].do = "waveform" /\ sent[i].chs \subseteq task[t].todo
            \/ sent[i].do = "start" /\ task[t].todo = {} /\ task[t].start = {}

PanelInv == TypeOK /\ Orderly

\* A request that may come in: of nobody, or the only one of its handler.
Welcome(d, r) ==
  /\ r.do = "waveform" => \E c \in Channels : r.chs = {c} /\ r.wave \in Waves
  /\ r.task # None => \A k \in DOMAIN sent : k > d => sent[k].task # r.task
  /\ \A t \in Tasks :
       r.task = t =>
         /\ task'[t].busy
         /\ \/ r.do = "waveform" /\ r.chs \subseteq task'[t].todo
            \/ r.do = "start" /\ task'[t].todo = {} /\ task'[t].start = {}

LEMMA OrderlyMoves ==
  ASSUME Orderly, NEW d \in {0, 1}, NEW more, Moved(d, more), Len(sent) \in Nat,
         \A r \in more : Welcome(d, r),
         \A t \in Tasks, k \in DOMAIN sent : k > d /\ sent[k].task = t => task'[t] = task[t]
  PROVE  Orderly'
<1>1. ASSUME NEW i \in DOMAIN sent', i + d \in DOMAIN sent, sent'[i] = sent[i + d]
      PROVE  i + d > d /\ i \in Nat
  BY DEF Moved
<1>2. ASSUME NEW i \in DOMAIN sent'
      PROVE  /\ sent'[i].do = "waveform" =>
                  \E c \in Channels : sent'[i].chs = {c} /\ sent'[i].wave \in Waves
             /\ \A t \in Tasks :
                  sent'[i].task = t =>
                    /\ task'[t].busy
                    /\ \/ sent'[i].do = "waveform" /\ sent'[i].chs \subseteq task'[t].todo
                       \/ sent'[i].do = "start" /\ task'[t].todo = {} /\ task'[t].start = {}
  <2>1. CASE i + d \in DOMAIN sent /\ sent'[i] = sent[i + d]
    <3>1. i + d > d
      BY <1>1, <2>1
    <3>2. PICK k \in DOMAIN sent : k > d /\ sent'[i] = sent[k]
      BY <2>1, <3>1
    <3>3. sent[k].do = "waveform" =>
            \E c \in Channels : sent[k].chs = {c} /\ sent[k].wave \in Waves
      BY DEF Orderly
    <3>4. ASSUME NEW t \in Tasks, sent[k].task = t
          PROVE  /\ task'[t].busy
                 /\ \/ sent[k].do = "waveform" /\ sent[k].chs \subseteq task'[t].todo
                    \/ sent[k].do = "start" /\ task'[t].todo = {} /\ task'[t].start = {}
      <4>1. task'[t] = task[t]
        BY <3>2, <3>4
      <4>2. /\ task[t].busy
            /\ \/ sent[k].do = "waveform" /\ sent[k].chs \subseteq task[t].todo
               \/ sent[k].do = "start" /\ task[t].todo = {} /\ task[t].start = {}
        BY <3>4 DEF Orderly
      <4> QED
        BY <4>1, <4>2
    <3> QED
      BY <3>2, <3>3, <3>4
  <2>2. CASE sent'[i] \in more
    BY <2>2 DEF Welcome
  <2> QED
    BY <2>1, <2>2 DEF Moved
<1>3. ASSUME NEW i \in DOMAIN sent', NEW j \in DOMAIN sent',
             sent'[i].task = sent'[j].task, sent'[i].task # None
      PROVE  i = j
  <2>1. ASSUME NEW m \in DOMAIN sent', NEW n \in DOMAIN sent',
               m + d \in DOMAIN sent, sent'[m] = sent[m + d],
               sent'[n] \in more, sent'[m].task # None
        PROVE  sent'[m].task # sent'[n].task
    BY <1>1, <2>1 DEF Welcome
  <2>2. CASE i + d \in DOMAIN sent /\ sent'[i] = sent[i + d]
    <3>1. j + d \in DOMAIN sent /\ sent'[j] = sent[j + d]
      BY <1>3, <2>1, <2>2 DEF Moved
    <3>2. i + d = j + d
      BY <1>3, <2>2, <3>1 DEF Orderly
    <3> QED
      BY <1>1, <2>2, <3>1, <3>2
  <2>3. CASE i = Len(sent') /\ sent'[i] \in more
    <3>1. j = Len(sent')
      BY <1>3, <2>1, <2>3 DEF Moved
    <3> QED
      BY <2>3, <3>1
  <2> QED
    BY <2>2, <2>3 DEF Moved
<1> QED
  BY <1>2, <1>3 DEF Orderly

\* The waveform that a handler sends when it begins, or next.
LEMMA WelcomeWaveform ==
  ASSUME TypeOK, NEW d, NEW t \in Tasks, NEW c \in Channels,
         \A k \in DOMAIN sent : k > d => sent[k].task # t,
         task'[t].busy, c \in task'[t].todo
  PROVE  Welcome(d, Waveform(t, c))
<1>1. /\ Waveform(t, c).do = "waveform" /\ Waveform(t, c).task = t
      /\ Waveform(t, c).chs = {c} /\ Waveform(t, c).wave = settings[c]
  BY DEF Waveform, Request
<1>2. settings[c] \in Waves
  BY DEF TypeOK
<1> QED
  BY <1>1, <1>2 DEF Welcome

LEMMA BeginOrderly ==
  ASSUME PanelInv, NEW t \in Tasks, NEW chs \in SUBSET Channels,
         NEW start \in SUBSET Channels, Begin(t, chs, start)
  PROVE  Orderly'
<1>1. /\ task[t] = Idle
      /\ task' = [task EXCEPT ![t] = [busy |-> TRUE, todo |-> chs, start |-> start]]
      /\ \E c \in chs : Moved(0, {Waveform(t, c)})
  BY BeginMoves DEF PanelInv
<1>2. PICK c \in chs : Moved(0, {Waveform(t, c)})
  BY <1>1
<1>3. task'[t].busy /\ task'[t].todo = chs
      /\ \A s \in Tasks : s # t => task'[s] = task[s]
  BY <1>1 DEF PanelInv, TypeOK
<1>4. \A k \in DOMAIN sent : sent[k].task # t
  BY <1>1 DEF PanelInv, Orderly, Idle
<1>5. Welcome(0, Waveform(t, c))
  BY <1>3, <1>4, WelcomeWaveform DEF PanelInv
<1>6. Len(sent) \in Nat
  BY SentFacts DEF PanelInv, TypeOK
<1>7. \A s \in Tasks, k \in DOMAIN sent : k > 0 /\ sent[k].task = s => task'[s] = task[s]
  BY <1>3, <1>4
<1> QED
  BY <1>2, <1>5, <1>6, <1>7, OrderlyMoves DEF PanelInv

\* The handler t of the first request has no other.
LEMMA NoOther ==
  ASSUME PanelInv, 1 \in DOMAIN sent, NEW t \in Tasks, sent[1].task = t
  PROVE  \A k \in DOMAIN sent : k > 1 => sent[k].task # t
<1>1. t # None
  BY PanelAssumption
<1>2. \A k \in DOMAIN sent : sent[k].task = t => k = 1
  BY <1>1 DEF PanelInv, Orderly
<1> QED
  BY <1>2

LEMMA GoesOrderly ==
  ASSUME PanelInv, 1 \in DOMAIN sent, Head(sent) = sent[1], NEW t \in Tasks, sent[1].task = t,
         NEW more, Moved(1, more), Goes(t, more)
  PROVE  Orderly'
<1>1. \A k \in DOMAIN sent : k > 1 => sent[k].task # t
  BY NoOther
<1>2. \A s \in Tasks : s # t => task'[s] = task[s]
  BY DEF Goes, PanelInv, TypeOK
<1>3. task[t].busy /\ task[t].todo \in SUBSET Channels
  BY DEF PanelInv, Orderly, TypeOK
<1>4. ASSUME NEW r \in more PROVE Welcome(1, r)
  <2>1. CASE /\ \E c \in task[t].todo \ Head(sent).chs : more = {Waveform(t, c)}
             /\ task' = [task EXCEPT ![t].todo = task[t].todo \ Head(sent).chs]
    <3>1. PICK c \in task[t].todo \ Head(sent).chs : more = {Waveform(t, c)}
      BY <2>1
    <3>2. task'[t].busy /\ c \in task'[t].todo /\ c \in Channels
      BY <1>3, <2>1 DEF PanelInv, TypeOK
    <3>3. Welcome(1, Waveform(t, c))
      BY <1>1, <3>2, WelcomeWaveform DEF PanelInv
    <3> QED
      BY <3>1, <3>3
  <2>2. CASE /\ more = {StartRequest(t)}
             /\ task' = [task EXCEPT ![t] = [Idle EXCEPT !.busy = TRUE]]
    <3>1. r.task = t /\ r.do = "start"
      BY <1>4, <2>2, StartRequestFields
    <3>2. task'[t].busy /\ task'[t].todo = {} /\ task'[t].start = {}
      BY <2>2 DEF Idle, PanelInv, TypeOK
    <3> QED
      BY <1>1, <3>1, <3>2 DEF Welcome
  <2>3. CASE more = {}
    BY <1>4, <2>3
  <2> QED
    BY <2>1, <2>2, <2>3 DEF Goes
<1>5. Len(sent) \in Nat
  BY SentFacts DEF PanelInv, TypeOK
<1>6. \A s \in Tasks, k \in DOMAIN sent : k > 1 /\ sent[k].task = s => task'[s] = task[s]
  BY <1>1, <1>2
<1> QED
  BY <1>4, <1>5, <1>6, OrderlyMoves DEF PanelInv

LEMMA OrderlyStep == PanelInv /\ [Next]_vars => Orderly'
<1> SUFFICES ASSUME PanelInv, [Next]_vars PROVE Orderly'
  OBVIOUS
<1>0. Len(sent) \in Nat
  BY SentFacts DEF PanelInv, TypeOK
<1>1. CASE UNCHANGED <<task, sent>>
  BY <1>1 DEF PanelInv, Orderly
<1>2. ASSUME NEW t \in Tasks, NEW chs \in SUBSET Channels, Start(t, chs) PROVE Orderly'
  BY <1>2, BeginOrderly DEF Start
<1>3. ASSUME NEW t \in Tasks, Push(t) PROVE Orderly'
  <2>1. Begin(t, pending, {}) /\ pending \in SUBSET Channels /\ {} \in SUBSET Channels
    BY <1>3 DEF Push, PanelInv, TypeOK
  <2> QED
    BY <2>1, BeginOrderly
<1>4. ASSUME NEW do \in {"stop", "estop", "hv_on", "hv_off"}, NEW chs \in SUBSET Channels,
             Press(do, chs)
      PROVE  Orderly'
  <2> DEFINE r == Request(None, do, chs, None)
  <2>1. Moved(0, {r}) /\ task' = task
    BY <1>4, PressMoves DEF page, PanelInv
  <2>2. Welcome(0, r)
    BY PanelAssumption DEF Welcome, Request
  <2>3. \A x \in {r} : Welcome(0, x)
    BY <2>2
  <2> QED
    BY <1>0, <2>1, <2>3, OrderlyMoves DEF PanelInv
<1>5. CASE Reload
  <2>1. /\ DOMAIN sent' = DOMAIN sent
        /\ \A i \in DOMAIN sent :
             /\ sent'[i].task = None /\ sent'[i].do = sent[i].do
             /\ sent'[i].chs = sent[i].chs /\ sent'[i].asked = sent[i].asked
              /\ sent'[i].wave = sent[i].wave
    BY <1>5, ReloadMoves DEF PanelInv
  <2>2. None \notin Tasks
    BY PanelAssumption
  <2> QED
    BY <2>1, <2>2 DEF PanelInv, Orderly
<1>6. CASE Serve
  <2>1. /\ 1 \in DOMAIN sent /\ Head(sent) = sent[1]
        /\ \/ sent[1].task = None /\ Moved(1, {}) /\ task' = task
           \/ sent[1].task \in Tasks /\ \E more : Moved(1, more) /\ Goes(sent[1].task, more)
    BY <1>6, ServeMoves DEF PanelInv
  <2>2. CASE Moved(1, {}) /\ task' = task
    BY <1>0, <2>2, OrderlyMoves DEF PanelInv
  <2> QED
    BY <2>1, <2>2, GoesOrderly
<1>7. CASE Refuse
  <2>1. /\ 1 \in DOMAIN sent /\ Moved(1, {})
        /\ \/ task' = task
           \/ sent[1].task \in Tasks /\ task' = [task EXCEPT ![sent[1].task] = Idle]
    BY <1>7, RefuseMoves DEF PanelInv
  <2>2. \A s \in Tasks, k \in DOMAIN sent : k > 1 /\ sent[k].task = s => task'[s] = task[s]
    BY <2>1, NoOther DEF PanelInv, TypeOK
  <2> QED
    BY <1>0, <2>1, <2>2, OrderlyMoves DEF PanelInv
<1>8. CASE Link \/ Reboot \/ Still
  BY <1>1, <1>8 DEF Link, Reboot, Still, page
<1>9. ASSUME NEW chs \in SUBSET Channels, Change(chs) PROVE Orderly'
  BY <1>1, <1>9 DEF Change
<1> QED
  BY <1>2, <1>3, <1>4, <1>5, <1>6, <1>7, <1>8, <1>9, PanelCases DEF PanelInv

LEMMA PanelInvariant == Spec => []PanelInv
<1>1. Init => PanelInv
  <2> SUFFICES ASSUME Init PROVE Orderly
    BY PanelInit DEF PanelInv
  <2>1. DOMAIN sent = {}
    BY DEF Init
  <2> QED
    BY <2>1 DEF Orderly
<1>2. PanelInv /\ [Next]_vars => PanelInv'
  BY PanelTypeStep, OrderlyStep DEF PanelInv
<1> QED
  BY <1>1, <1>2, PTL DEF Spec

-----------------------------------------------------------------------------
(* The panel prevails.                                                     *)

\* The setting of c is in the device or will be, unless it is refused; then the
\* handler that waits for the answer knows.
Settled(c) ==
  \/ dev[c] = settings[c] /\ \A i \in DOMAIN sent : ~Sets(i, c)
  \/ \E i \in DOMAIN sent :
       /\ Sets(i, c) /\ sent[i].wave = settings[c] /\ sent[i].task # None
       /\ \A j \in DOMAIN sent : Sets(j, c) => j <= i

OwedInv == \A c \in owed : Settled(c) \/ ToSend(c)

\* The waveform that comes in has the setting of the panel.
LEMMA SettledNew ==
  ASSUME TypeOK, NEW d \in {0, 1}, NEW t \in Tasks, NEW c \in Channels,
         Moved(d, {Waveform(t, c)}), settings' = settings
  PROVE  Settled(c)'
<1>1. /\ Waveform(t, c).do = "waveform" /\ Waveform(t, c).task = t
      /\ Waveform(t, c).chs = {c} /\ Waveform(t, c).wave = settings[c]
  BY DEF Waveform, Request
<1>2. PICK n \in Nat :
        n \in DOMAIN sent' /\ sent'[n] = Waveform(t, c) /\ DOMAIN sent' = 1 .. n
  BY DEF Moved
<1>3. Sets(n, c)' /\ sent'[n].wave = settings'[c] /\ sent'[n].task # None
  BY <1>1, <1>2, PanelAssumption DEF Sets
<1>4. \A j \in DOMAIN sent' : j <= n
  BY <1>2
<1> QED
  BY <1>2, <1>3, <1>4 DEF Settled

\* A setting stays where it is on its way, when no other waveform for c comes in.
LEMMA SettledKept ==
  ASSUME NEW d \in {0, 1}, NEW more, Moved(d, more), NEW c \in Channels, Settled(c),
         Len(sent) \in Nat, DOMAIN sent = 1 .. Len(sent),
         settings'[c] = settings[c],
         \A r \in more : ~(r.do = "waveform" /\ r.chs = {c}),
         IF d = 1 /\ 1 \in DOMAIN sent /\ Sets(1, c)
           THEN sent[1].task # None => dev'[c] = sent[1].wave
           ELSE dev'[c] = dev[c]
  PROVE  Settled(c)'
<1>1. ASSUME NEW j \in DOMAIN sent', Sets(j, c)'
      PROVE  j + d \in DOMAIN sent /\ j + d > d /\ Sets(j + d, c) /\ j \in Nat
  <2>1. sent'[j].do = "waveform" /\ sent'[j].chs = {c}
    BY <1>1 DEF Sets
  <2>2. j + d \in DOMAIN sent /\ sent'[j] = sent[j + d]
    BY <2>1 DEF Moved
  <2>3. j \in Nat \ {0}
    BY DEF Moved
  <2> QED
    BY <2>1, <2>2, <2>3 DEF Sets
<1>2. CASE dev[c] = settings[c] /\ \A i \in DOMAIN sent : ~Sets(i, c)
  <2>1. dev'[c] = dev[c]
    BY <1>2
  <2>2. \A j \in DOMAIN sent' : ~Sets(j, c)'
    BY <1>1, <1>2
  <2> QED
    BY <1>2, <2>1, <2>2 DEF Settled
<1>3. ASSUME NEW i \in DOMAIN sent,
             Sets(i, c), sent[i].wave = settings[c], sent[i].task # None,
             \A j \in DOMAIN sent : Sets(j, c) => j <= i
      PROVE  Settled(c)'
  <2>1. CASE i > d
    <3>1. i - d \in DOMAIN sent' /\ sent'[i - d] = sent[i]
      BY <2>1 DEF Moved
    <3>2. Sets(i - d, c)' /\ sent'[i - d].wave = settings'[c] /\ sent'[i - d].task # None
      BY <1>3, <3>1 DEF Sets
    <3>3. ASSUME NEW j \in DOMAIN sent', Sets(j, c)' PROVE j <= i - d
      <4>1. j + d <= i /\ j \in Nat /\ i \in Nat
        BY <1>1, <1>3, <3>3
      <4> QED
        BY <4>1
    <3> QED
      BY <3>1, <3>2, <3>3 DEF Settled
  <2>2. CASE ~(i > d)
    <3>1. d = 1 /\ i = 1 /\ 1 \in DOMAIN sent
      BY <2>2
    <3>2. dev'[c] = settings'[c]
      BY <1>3, <3>1
    <3>3. ASSUME NEW j \in DOMAIN sent', Sets(j, c)' PROVE FALSE
      <4>1. j + d <= i /\ j + d > d
        BY <1>1, <1>3, <3>3
      <4>2. j \in Nat
        BY <1>1, <3>3
      <4> QED
        BY <3>1, <4>1, <4>2
    <3> QED
      BY <3>2, <3>3 DEF Settled
  <2> QED
    BY <2>1, <2>2
<1> QED
  BY <1>2, <1>3 DEF Settled

\* What is still to be sent stays so, when nothing comes in of that handler.
LEMMA ToSendKept ==
  ASSUME NEW d \in {0, 1}, NEW more, Moved(d, more), NEW s \in Tasks, NEW c \in Channels,
         c \in task'[s].todo,
         \A i \in DOMAIN sent : ~(sent[i].task = s /\ Sets(i, c)),
         \A r \in more : ~(r.task = s /\ r.do = "waveform" /\ r.chs = {c})
  PROVE  ToSend(c)'
<1>1. ASSUME NEW i \in DOMAIN sent' PROVE ~(sent'[i].task = s /\ Sets(i, c)')
  <2>1. CASE i + d \in DOMAIN sent /\ sent'[i] = sent[i + d]
    BY <2>1 DEF Sets
  <2>2. CASE sent'[i] \in more
    BY <2>2 DEF Sets
  <2> QED
    BY <2>1, <2>2 DEF Moved
<1> QED
  BY <1>1 DEF ToSend

\* A handler begins with the channels chs, which may no longer be pending.
LEMMA BeginPrevails ==
  ASSUME PanelInv, OwedInv, NEW t \in Tasks, NEW chs \in SUBSET Channels,
         NEW start \in SUBSET Channels, Begin(t, chs, start),
         settings' = settings, dev' = dev,
         pending \subseteq pending' \cup chs, owed' \subseteq owed \cup chs
  PROVE  OwedInv'
<1>1. /\ task[t] = Idle
      /\ task' = [task EXCEPT ![t] = [busy |-> TRUE, todo |-> chs, start |-> start]]
      /\ \E c \in chs : Moved(0, {Waveform(t, c)})
  BY BeginMoves DEF PanelInv
<1>2. PICK e \in chs : Moved(0, {Waveform(t, e)})
  BY <1>1
<1>3. /\ task'[t].todo = chs
      /\ \A s \in Tasks : s # t => task'[s] = task[s]
  BY <1>1 DEF PanelInv, TypeOK
<1>4. \A k \in DOMAIN sent : sent[k].task # t
  BY <1>1 DEF PanelInv, Orderly, Idle
<1>5. Len(sent) \in Nat /\ DOMAIN sent = 1 .. Len(sent)
  BY SentFacts DEF PanelInv, TypeOK
<1>6. /\ Waveform(t, e).task = t /\ Waveform(t, e).chs = {e}
  BY DEF Waveform, Request
<1>7. ASSUME NEW c \in owed' PROVE Settled(c)' \/ ToSend(c)'
  <2>1. c \in Channels /\ e \in Channels
    BY DEF PanelInv, TypeOK
  <2>2. CASE c = e
    BY <1>2, <2>1, <2>2, SettledNew DEF PanelInv
  <2>3. CASE c # e /\ c \in chs
    <3>1. \A i \in DOMAIN sent : ~(sent[i].task = t /\ Sets(i, c))
      BY <1>4
    <3>2. \A r \in {Waveform(t, e)} : ~(r.task = t /\ r.do = "waveform" /\ r.chs = {c})
      BY <1>6, <2>3
    <3> QED
      BY <1>2, <1>3, <2>1, <2>3, <3>1, <3>2, ToSendKept
  <2>4. CASE c \notin chs
    <3>1. \A r \in {Waveform(t, e)} : ~(r.do = "waveform" /\ r.chs = {c})
      BY <1>6, <2>4
    <3>2. Settled(c) \/ ToSend(c)
      BY <2>4 DEF OwedInv
    <3>3. CASE Settled(c)
      BY <1>2, <1>5, <2>1, <3>1, <3>3, SettledKept
    <3>4. CASE c \in pending
      BY <2>4, <3>4 DEF ToSend
    <3>5. ASSUME NEW s \in Tasks, c \in task[s].todo,
                 \A i \in DOMAIN sent : ~(sent[i].task = s /\ Sets(i, c))
          PROVE  ToSend(c)'
      <4>1. s # t
        BY <1>1, <3>5 DEF Idle
      <4>2. c \in task'[s].todo
        BY <1>3, <3>5, <4>1
      <4>3. \A r \in {Waveform(t, e)} : ~(r.task = s /\ r.do = "waveform" /\ r.chs = {c})
        BY <3>1
      <4> QED
        BY <1>2, <2>1, <3>5, <4>2, <4>3, ToSendKept
    <3> QED
      BY <3>2, <3>3, <3>4, <3>5 DEF ToSend
  <2> QED
    BY <2>2, <2>3, <2>4
<1> QED
  BY <1>7 DEF OwedInv

\* Nothing of what concerns c changes but requests that are not for its waveform.
LEMMA PressPrevails ==
  ASSUME PanelInv, OwedInv, NEW more, Moved(0, more),
         \A r \in more : r.do # "waveform",
         UNCHANGED <<page, dev, owed>>
  PROVE  OwedInv'
<1>1. Len(sent) \in Nat /\ DOMAIN sent = 1 .. Len(sent)
  BY SentFacts DEF PanelInv, TypeOK
<1>2. ASSUME NEW c \in owed' PROVE Settled(c)' \/ ToSend(c)'
  <2>1. c \in Channels /\ c \in owed /\ settings' = settings /\ dev' = dev
        /\ task' = task /\ pending' = pending
    BY DEF PanelInv, TypeOK, page
  <2>2. CASE Settled(c)
    BY <1>1, <2>1, <2>2, SettledKept
  <2>3. CASE c \in pending
    BY <2>1, <2>3 DEF ToSend
  <2>4. ASSUME NEW s \in Tasks, c \in task[s].todo,
               \A i \in DOMAIN sent : ~(sent[i].task = s /\ Sets(i, c))
        PROVE  ToSend(c)'
    BY <2>1, <2>4, ToSendKept
  <2> QED
    BY <2>1, <2>2, <2>3, <2>4 DEF OwedInv, ToSend
<1> QED
  BY <1>2 DEF OwedInv

\* The first request sets nothing but its own waveform.
LEMMA ExecuteSets ==
  ASSUME PanelInv, 1 \in DOMAIN sent, Execute(sent[1]), NEW c \in Channels
  PROVE  IF Sets(1, c) THEN dev'[c] = sent[1].wave ELSE dev'[c] = dev[c]
<1>1. sent[1].do = "waveform" => \E e \in Channels : sent[1].chs = {e}
  BY DEF PanelInv, Orderly
<1>2. sent[1].do = "waveform" /\ c \in sent[1].chs <=> Sets(1, c)
  BY <1>1 DEF Sets
<1>3. dev'[c] = IF sent[1].do = "waveform" /\ c \in sent[1].chs THEN sent[1].wave ELSE dev[c]
  BY DEF Execute
<1> QED
  BY <1>2, <1>3

\* A handler goes on, and its channels that are left are taken care of.
LEMMA GoesToSend ==
  ASSUME PanelInv, 1 \in DOMAIN sent, Head(sent) = sent[1], NEW t \in Tasks, sent[1].task = t,
         NEW more, Moved(1, more), Goes(t, more), NEW c \in task[t].todo, ~Sets(1, c),
         settings' = settings
  PROVE  Settled(c)' \/ ToSend(c)'
<1>1. sent[1].do = "waveform" /\ sent[1].chs \subseteq task[t].todo
      /\ (\E e \in Channels : sent[1].chs = {e}) /\ c \in Channels
  BY DEF PanelInv, Orderly, TypeOK
<1>2. c \notin sent[1].chs
  BY <1>1 DEF Sets
<1>3. PICK e \in task[t].todo \ sent[1].chs :
        /\ more = {Waveform(t, e)}
        /\ task' = [task EXCEPT ![t].todo = task[t].todo \ sent[1].chs]
  BY <1>2 DEF Goes
<1>4. c \in task'[t].todo /\ e \in Channels
  BY <1>2, <1>3 DEF PanelInv, TypeOK
<1>5. CASE c = e
  BY <1>3, <1>4, <1>5, SettledNew DEF PanelInv
<1>6. CASE c # e
  <2>1. \A i \in DOMAIN sent : ~(sent[i].task = t /\ Sets(i, c))
    <3>1. \A k \in DOMAIN sent : k > 1 => sent[k].task # t
      BY NoOther
    <3>2. \A k \in DOMAIN sent : k > 1 \/ k = 1
      BY SentFacts DEF PanelInv, TypeOK
    <3> QED
      BY <3>1, <3>2
  <2>2. \A r \in more : ~(r.task = t /\ r.do = "waveform" /\ r.chs = {c})
    BY <1>3, <1>6 DEF Waveform, Request
  <2> QED
    BY <1>1, <1>4, <2>1, <2>2, ToSendKept
<1> QED
  BY <1>5, <1>6

\* A request is served, and its handler goes on, if any waits.
LEMMA ServePrevails ==
  ASSUME PanelInv, OwedInv, Serve
  PROVE  OwedInv'
<1>1. /\ 1 \in DOMAIN sent /\ Head(sent) = sent[1] /\ Execute(sent[1])
      /\ settings' = settings /\ pending' = pending /\ owed' = owed
      /\ \/ sent[1].task = None /\ Moved(1, {}) /\ task' = task
         \/ sent[1].task \in Tasks /\ \E more : Moved(1, more) /\ Goes(sent[1].task, more)
  BY ServeMoves DEF PanelInv
<1>2. Len(sent) \in Nat /\ DOMAIN sent = 1 .. Len(sent)
  BY SentFacts DEF PanelInv, TypeOK
<1>3. ASSUME NEW more, Moved(1, more), NEW c \in owed',
             \A r \in more : ~(r.do = "waveform" /\ r.chs = {c}), Settled(c)
      PROVE  Settled(c)'
  <2>1. c \in Channels
    BY <1>1 DEF PanelInv, TypeOK
  <2>2. IF Sets(1, c) THEN dev'[c] = sent[1].wave ELSE dev'[c] = dev[c]
    BY <1>1, <2>1, ExecuteSets
  <2> QED
    BY <1>1, <1>2, <1>3, <2>1, <2>2, SettledKept
<1>4. CASE sent[1].task = None /\ Moved(1, {}) /\ task' = task
  <2>1. ASSUME NEW c \in owed' PROVE Settled(c)' \/ ToSend(c)'
    <3>1. c \in Channels /\ (Settled(c) \/ ToSend(c))
      BY <1>1 DEF PanelInv, TypeOK, OwedInv
    <3>2. CASE Settled(c)
      BY <1>3, <1>4, <3>2
    <3>3. CASE c \in pending
      BY <1>1, <3>3 DEF ToSend
    <3>4. ASSUME NEW s \in Tasks, c \in task[s].todo,
                 \A i \in DOMAIN sent : ~(sent[i].task = s /\ Sets(i, c))
          PROVE  ToSend(c)'
      BY <1>4, <3>1, <3>4, ToSendKept
    <3> QED
      BY <3>1, <3>2, <3>3, <3>4 DEF ToSend
  <2> QED
    BY <2>1 DEF OwedInv
<1>5. ASSUME NEW t \in Tasks, sent[1].task = t, NEW more, Moved(1, more), Goes(t, more)
      PROVE  OwedInv'
  <2>1. /\ \A s \in Tasks : s # t => task'[s] = task[s]
        /\ \/ \E e \in Channels : more = {Waveform(t, e)}
           \/ \A r \in more : r.do = "start"
    BY <1>1, <1>5, StartRequestFields DEF Goes, PanelInv, TypeOK
  <2>2. \A r \in more : r.task = t
    BY <1>5, StartRequestFields DEF Goes, Waveform, Request
  <2>3. ASSUME NEW c \in owed' PROVE Settled(c)' \/ ToSend(c)'
    <3>1. c \in Channels /\ (Settled(c) \/ ToSend(c))
      BY <1>1 DEF PanelInv, TypeOK, OwedInv
    <3>2. CASE more = {Waveform(t, c)}
      BY <1>1, <1>5, <3>1, <3>2, SettledNew DEF PanelInv
    <3>3. CASE more # {Waveform(t, c)}
      <4>1. \A r \in more : ~(r.do = "waveform" /\ r.chs = {c})
        <5>1. ASSUME NEW e \in Channels, more = {Waveform(t, e)} PROVE e # c
          BY <3>3, <5>1
        <5> QED
          BY <2>1, <5>1 DEF Waveform, Request
      <4>2. CASE Settled(c)
        BY <1>3, <1>5, <4>1, <4>2
      <4>3. CASE c \in pending
        BY <1>1, <4>3 DEF ToSend
      <4>4. ASSUME NEW s \in Tasks, c \in task[s].todo,
                   \A i \in DOMAIN sent : ~(sent[i].task = s /\ Sets(i, c))
            PROVE  Settled(c)' \/ ToSend(c)'
        <5>1. CASE s = t
          BY <1>1, <1>5, <4>4, <5>1, GoesToSend
        <5>2. CASE s # t
          <6>1. c \in task'[s].todo
            BY <2>1, <4>4, <5>2
          <6>2. \A r \in more : ~(r.task = s /\ r.do = "waveform" /\ r.chs = {c})
            BY <4>1
          <6> QED
            BY <1>5, <3>1, <4>4, <6>1, <6>2, ToSendKept
        <5> QED
          BY <5>1, <5>2
      <4> QED
        BY <3>1, <4>2, <4>3, <4>4 DEF ToSend
    <3> QED
      BY <3>2, <3>3
  <2> QED
    BY <2>3 DEF OwedInv
<1> QED
  BY <1>1, <1>4, <1>5

\* A request is refused: its handler, if any waits, gives up what it had to do.
LEMMA RefusePrevails ==
  ASSUME PanelInv, OwedInv, Refuse
  PROVE  OwedInv'
<1>1. /\ 1 \in DOMAIN sent /\ sent[1] \in Requests /\ Moved(1, {})
      /\ settings' = settings /\ pending' = pending /\ dev' = dev
      /\ \/ sent[1].task = None /\ task' = task /\ owed' = owed
         \/ /\ sent[1].task \in Tasks
            /\ task' = [task EXCEPT ![sent[1].task] = Idle]
            /\ owed' = owed \ task[sent[1].task].todo
  BY RefuseMoves DEF PanelInv, device
<1>2. Len(sent) \in Nat /\ DOMAIN sent = 1 .. Len(sent)
  BY SentFacts DEF PanelInv, TypeOK
<1>3. ASSUME NEW c \in owed' PROVE Settled(c)' \/ ToSend(c)'
  <2>1. c \in Channels /\ (Settled(c) \/ ToSend(c))
    BY <1>1 DEF PanelInv, TypeOK, OwedInv
  <2>2. CASE Settled(c)
    <3>1. sent[1].task # None => ~Sets(1, c)
      BY <1>1 DEF PanelInv, Orderly, Sets
    <3>2. IF Sets(1, c) THEN sent[1].task # None => dev'[c] = sent[1].wave
                        ELSE dev'[c] = dev[c]
      BY <1>1, <3>1
    <3> QED
      BY <1>1, <1>2, <2>1, <2>2, <3>2, SettledKept
  <2>3. CASE c \in pending
    BY <1>1, <2>3 DEF ToSend
  <2>4. ASSUME NEW s \in Tasks, c \in task[s].todo,
               \A i \in DOMAIN sent : ~(sent[i].task = s /\ Sets(i, c))
        PROVE  ToSend(c)'
    <3>1. task'[s] = task[s]
      BY <1>1, <2>4 DEF PanelInv, TypeOK
    <3> QED
      BY <1>1, <2>1, <2>4, <3>1, ToSendKept
  <2> QED
    BY <2>1, <2>2, <2>3, <2>4 DEF ToSend
<1> QED
  BY <1>3 DEF OwedInv

LEMMA OwedStep == PanelInv /\ OwedInv /\ [Next]_vars => OwedInv'
<1> SUFFICES ASSUME PanelInv, OwedInv, [Next]_vars PROVE OwedInv'
  OBVIOUS
<1>1. ASSUME NEW chs \in SUBSET Channels, Change(chs),
             \A c \in Channels \ chs : settings'[c] = settings[c]
      PROVE  OwedInv'
  <2>1. /\ UNCHANGED <<task, sent, dev>>
        /\ pending' = pending \cup chs /\ owed' = owed \cup chs
    BY <1>1 DEF Change, Schedule, device
  <2>2. ASSUME NEW c \in owed' PROVE Settled(c)' \/ ToSend(c)'
    <3>1. CASE c \in chs
      BY <2>1, <3>1 DEF ToSend
    <3>2. CASE c \notin chs
      <4>1. settings'[c] = settings[c] /\ (Settled(c) \/ ToSend(c))
        BY <1>1, <2>1, <3>2 DEF PanelInv, TypeOK, OwedInv
      <4>2. Settled(c) => Settled(c)'
        BY <2>1, <4>1 DEF Settled, Sets
      <4>3. ToSend(c) => ToSend(c)'
        BY <2>1 DEF ToSend, Sets
      <4> QED
        BY <4>1, <4>2, <4>3
    <3> QED
      BY <3>1, <3>2
  <2> QED
    BY <2>2 DEF OwedInv
<1>2. ASSUME NEW t \in Tasks, NEW chs \in SUBSET Channels, Start(t, chs) PROVE OwedInv'
  <2>1. /\ Begin(t, chs, chs) /\ owed' = owed \cup chs
        /\ settings' = settings /\ pending' = pending /\ dev' = dev
    BY <1>2 DEF Start, device
  <2> QED
    BY <2>1, BeginPrevails
<1>3. ASSUME NEW t \in Tasks, Push(t) PROVE OwedInv'
  <2>1. /\ Begin(t, pending, {}) /\ pending \in SUBSET Channels /\ {} \in SUBSET Channels
        /\ settings' = settings /\ owed' = owed /\ dev' = dev
    BY <1>3 DEF Push, PanelInv, TypeOK, device, history
  <2> QED
    BY <2>1, BeginPrevails
<1>4. ASSUME NEW do \in {"stop", "estop", "hv_on", "hv_off"}, NEW chs \in SUBSET Channels,
             Press(do, chs)
      PROVE  OwedInv'
  <2> DEFINE r == Request(None, do, chs, None)
  <2>1. Moved(0, {r}) /\ UNCHANGED <<page, dev, owed>>
    BY <1>4, PressMoves DEF PanelInv, device
  <2>2. r.do # "waveform"
    BY DEF Request
  <2>3. \A x \in {r} : x.do # "waveform"
    BY <2>2
  <2> HIDE DEF r
  <2> QED
    BY <2>1, <2>3, PressPrevails
<1>5. CASE Reload \/ Reboot
  BY <1>5 DEF Reload, Reboot, OwedInv
<1>6. CASE Link \/ Still
  <2>1. UNCHANGED <<settings, pending, task, sent, dev, owed>>
    BY <1>6 DEF Link, Still, page, device, history
  <2>2. \A c : (Settled(c) => Settled(c)') /\ (ToSend(c) => ToSend(c)')
    BY <2>1 DEF Settled, ToSend, Sets
  <2> QED
    BY <2>1, <2>2 DEF OwedInv
<1> QED
  BY <1>1, <1>2, <1>3, <1>4, <1>5, <1>6, ServePrevails, RefusePrevails, PanelCases DEF PanelInv

-----------------------------------------------------------------------------
(* A start finds what the panel has shown.                                 *)

\* While a handler has a start in mind, what the panel shows counts as shown.
Shown ==
  (\E t \in Tasks : task[t].start # {}) => \A c \in Channels : settings[c] \in seen[c]

Clean(c) == dev[c] \in seen[c] \cup {None}
SeenAt(j, c) == Sets(j, c) => sent[j].wave \in seen[c]

\* What c's waveform is, or may become: at once, from request i on, and when
\* request i is served.
Done(c) == Clean(c) /\ \A j \in DOMAIN sent : SeenAt(j, c)
Behind(i, c) == \A j \in DOMAIN sent : i <= j => SeenAt(j, c)
Before(i, c) == Clean(c) /\ \A j \in DOMAIN sent : j < i => SeenAt(j, c)

\* A channel to be started is done with, or its waveform is on its way, or the
\* start itself is.
Prepared(t) ==
  /\ \A c \in task[t].start \ task[t].todo : Done(c)
  /\ \A c \in task[t].start : \A i \in DOMAIN sent :
       sent[i].task = t /\ Sets(i, c) => Behind(i, c)

StartInv ==
  /\ \A t \in Tasks : Prepared(t)
  /\ \A i \in DOMAIN sent :
       sent[i].do = "start" => \A c \in sent[i].asked : Before(i, c)

LEMMA ShownStep == PanelInv /\ Shown /\ [Next]_vars => Shown'
<1> SUFFICES ASSUME PanelInv, Shown, [Next]_vars PROVE Shown'
  OBVIOUS
<1>1. ASSUME NEW chs \in SUBSET Channels, Change(chs) PROVE Shown'
  <2>1. task' = task
    BY <1>1 DEF Change
  <2>2. ASSUME NEW t \in Tasks, task[t].start # {}, NEW c \in Channels
        PROVE  settings'[c] \in seen'[c]
    <3>1. seen' = [e \in Channels |-> seen[e] \cup {settings'[e]}]
      BY <1>1, <2>2 DEF Change, Starting
    <3> QED
      BY <3>1
  <2> QED
    BY <2>1, <2>2 DEF Shown
<1>2. ASSUME NEW t \in Tasks, NEW chs \in SUBSET Channels, Start(t, chs) PROVE Shown'
  <2>1. /\ settings' = settings
        /\ seen' = [c \in Channels |-> IF Starting THEN seen[c] \cup {settings[c]}
                                       ELSE {settings[c]}]
    BY <1>2 DEF Start
  <2> QED
    BY <2>1 DEF Shown
<1>3. ASSUME NEW t \in Tasks, Push(t) PROVE Shown'
  <2>1. Begin(t, pending, {}) /\ settings' = settings /\ seen' = seen
    BY <1>3 DEF Push, history
  <2>2. task' = [task EXCEPT ![t] = [busy |-> TRUE, todo |-> pending, start |-> {}]]
    BY <2>1 DEF Begin
  <2>3. \A s \in Tasks : task'[s].start # {} => task[s].start # {}
    BY <2>2 DEF PanelInv, TypeOK
  <2> QED
    BY <2>1, <2>3 DEF Shown
<1>4. CASE Reload
  BY <1>4 DEF Reload, Shown, Idle
<1>5. CASE UNCHANGED <<settings, task, seen>>
  BY <1>5 DEF Shown
<1>6. ASSUME settings' = settings, Forget,
             \A s \in Tasks : task'[s].start # {} => task[s].start # {}
      PROVE  Shown'
  <2>1. ASSUME NEW s \in Tasks, task'[s].start # {} PROVE seen' = seen
    BY <1>6, <2>1 DEF Forget, Starting
  <2> QED
    BY <1>6, <2>1 DEF Shown
<1>7. CASE Serve
  <2>1. /\ settings' = settings /\ Forget
        /\ \/ task' = task
           \/ sent[1].task \in Tasks /\ \E more : Goes(sent[1].task, more)
    BY <1>7, ServeMoves DEF PanelInv
  <2>2. \A s \in Tasks : task'[s].start # {} => task[s].start # {}
    BY <2>1 DEF Goes, Idle, PanelInv, TypeOK
  <2> QED
    BY <1>6, <2>1, <2>2
<1>8. CASE Refuse
  <2>1. /\ settings' = settings /\ Forget
        /\ \/ task' = task
           \/ sent[1].task \in Tasks /\ task' = [task EXCEPT ![sent[1].task] = Idle]
    BY <1>8, RefuseMoves DEF PanelInv
  <2>2. \A s \in Tasks : task'[s].start # {} => task[s].start # {}
    BY <2>1 DEF Idle, PanelInv, TypeOK
  <2> QED
    BY <1>6, <2>1, <2>2
<1>9. ASSUME NEW do, NEW chs, Press(do, chs) PROVE Shown'
  BY <1>5, <1>9 DEF Press, page
<1>10. CASE Link \/ Reboot \/ Still
  BY <1>5, <1>10 DEF Link, Reboot, Still, page, history
<1> QED
  BY <1>1, <1>2, <1>3, <1>4, <1>7, <1>8, <1>9, <1>10, PanelCases DEF PanelInv

\* Without a start there is nothing to find.
LEMMA NoStart ==
  ASSUME ~Starting'
  PROVE  StartInv'
<1>1. /\ \A t \in Tasks : task'[t].start = {}
      /\ \A i \in DOMAIN sent' : sent'[i].do # "start"
  BY DEF Starting
<1> QED
  BY <1>1 DEF StartInv, Prepared

\* What a step does to c: its waveform is that of the first request now, or as
\* before, and what was shown still is.
Gentle(d, c) ==
  /\ seen[c] \subseteq seen'[c]
  /\ \/ dev'[c] \in {dev[c], None}
     \/ d = 1 /\ 1 \in DOMAIN sent /\ Sets(1, c) /\ dev'[c] = sent[1].wave

\* Waveforms that come in have been shown.
Fresh(more, c) ==
  \A r \in more : r.do = "waveform" /\ r.chs = {c} => r.wave \in seen'[c]

LEMMA SeenOld ==
  ASSUME NEW d, NEW c, Gentle(d, c), NEW j \in DOMAIN sent',
         j + d \in DOMAIN sent, sent'[j] = sent[j + d], SeenAt(j + d, c)
  PROVE  SeenAt(j, c)'
BY DEF SeenAt, Sets, Gentle

LEMMA SeenNew ==
  ASSUME NEW more, NEW c, Fresh(more, c), NEW j \in DOMAIN sent', sent'[j] \in more
  PROVE  SeenAt(j, c)'
BY DEF SeenAt, Sets, Fresh

LEMMA DoneKept ==
  ASSUME NEW d \in {0, 1}, NEW more, Moved(d, more), NEW c, Gentle(d, c), Fresh(more, c),
         Done(c)
  PROVE  Done(c)'
<1>1. Clean(c)'
  <2>1. Clean(c) /\ (1 \in DOMAIN sent => SeenAt(1, c))
    BY DEF Done
  <2> QED
    BY <2>1 DEF Clean, SeenAt, Gentle
<1>2. ASSUME NEW j \in DOMAIN sent' PROVE SeenAt(j, c)'
  <2>1. CASE j + d \in DOMAIN sent /\ sent'[j] = sent[j + d]
    BY <2>1, SeenOld DEF Done
  <2>2. CASE sent'[j] \in more
    BY <2>2, SeenNew
  <2> QED
    BY <2>1, <2>2 DEF Moved
<1> QED
  BY <1>1, <1>2 DEF Done

\* The waveform that was waited for is served.
LEMMA BehindDone ==
  ASSUME NEW more, Moved(1, more), NEW c, Gentle(1, c), Fresh(more, c),
         1 \in DOMAIN sent, Sets(1, c), dev'[c] = sent[1].wave, Behind(1, c)
  PROVE  Done(c)'
<1>1. Clean(c)'
  BY DEF Behind, SeenAt, Clean, Gentle
<1>2. ASSUME NEW j \in DOMAIN sent' PROVE SeenAt(j, c)'
  <2>1. CASE j + 1 \in DOMAIN sent /\ sent'[j] = sent[j + 1]
    <3>1. 1 <= j + 1
      BY DEF Moved
    <3> QED
      BY <2>1, <3>1, SeenOld DEF Behind
  <2>2. CASE sent'[j] \in more
    BY <2>2, SeenNew
  <2> QED
    BY <2>1, <2>2 DEF Moved
<1> QED
  BY <1>1, <1>2 DEF Done

LEMMA BehindKept ==
  ASSUME NEW d \in {0, 1}, NEW more, Moved(d, more), NEW c, Gentle(d, c), Fresh(more, c),
         NEW i \in DOMAIN sent', Behind(i + d, c)
  PROVE  Behind(i, c)'
<1>1. ASSUME NEW j \in DOMAIN sent', i <= j PROVE SeenAt(j, c)'
  <2>1. CASE j + d \in DOMAIN sent /\ sent'[j] = sent[j + d]
    <3>1. i + d <= j + d
      BY <1>1 DEF Moved
    <3> QED
      BY <2>1, <3>1, SeenOld DEF Behind
  <2>2. CASE sent'[j] \in more
    BY <2>2, SeenNew
  <2> QED
    BY <2>1, <2>2 DEF Moved
<1> QED
  BY <1>1 DEF Behind

LEMMA BeforeKept ==
  ASSUME NEW d \in {0, 1}, NEW more, Moved(d, more), NEW c, Gentle(d, c),
         Len(sent) \in Nat, DOMAIN sent = 1 .. Len(sent),
         NEW i \in DOMAIN sent', i + d \in DOMAIN sent, Before(i + d, c)
  PROVE  Before(i, c)'
<1>0. i \in Nat \ {0}
  BY DEF Moved
<1>1. Clean(c)'
  <2>1. Clean(c) /\ (d = 1 /\ 1 \in DOMAIN sent => SeenAt(1, c))
    BY <1>0 DEF Before
  <2> QED
    BY <2>1 DEF Clean, SeenAt, Gentle
<1>2. ASSUME NEW j \in DOMAIN sent', j < i PROVE SeenAt(j, c)'
  <2>1. j \in Nat /\ j + d < i + d /\ ~(j + d > Len(sent))
    BY <1>0, <1>2 DEF Moved
  <2>2. j + d \in DOMAIN sent /\ sent'[j] = sent[j + d]
    BY <2>1 DEF Moved
  <2> QED
    BY <2>1, <2>2, SeenOld DEF Before
<1> QED
  BY <1>1, <1>2 DEF Before

\* A waveform that comes in is the last one.
LEMMA NewBehind ==
  ASSUME NEW d, NEW more, Moved(d, more), NEW c, Fresh(more, c),
         NEW i \in DOMAIN sent', i = Len(sent'), sent'[i] \in more
  PROVE  Behind(i, c)'
<1>1. ASSUME NEW j \in DOMAIN sent', i <= j PROVE j = i
  BY <1>1 DEF Moved
<1>2. SeenAt(i, c)'
  BY SeenNew
<1> QED
  BY <1>1, <1>2 DEF Behind

\* A handler that the step is not about.
LEMMA PreparedKept ==
  ASSUME NEW d \in {0, 1}, NEW more, Moved(d, more), NEW t \in Tasks, Prepared(t),
         task'[t] = task[t],
         \A c \in task[t].start : Gentle(d, c) /\ Fresh(more, c),
         \A r \in more : r.task # t
  PROVE  Prepared(t)'
<1>1. \A c \in task'[t].start \ task'[t].todo : Done(c)'
  BY DoneKept DEF Prepared
<1>2. ASSUME NEW c \in task'[t].start, NEW i \in DOMAIN sent', sent'[i].task = t, Sets(i, c)'
      PROVE  Behind(i, c)'
  <2>1. i + d \in DOMAIN sent /\ sent'[i] = sent[i + d]
    BY <1>2 DEF Moved
  <2>2. sent[i + d].task = t /\ Sets(i + d, c)
    BY <1>2, <2>1 DEF Sets
  <2>3. Behind(i + d, c)
    BY <2>1, <2>2 DEF Prepared
  <2> QED
    BY <2>3, BehindKept
<1> QED
  BY <1>1, <1>2 DEF Prepared

\* The starts that are on their way, when no other comes in.
LEMMA BeforesKept ==
  ASSUME PanelInv, StartInv, NEW d \in {0, 1}, NEW more, Moved(d, more),
         Starting => \A c \in Channels : Gentle(d, c),
         NEW i \in DOMAIN sent', sent'[i].do = "start", sent'[i] \notin more,
         NEW c \in sent'[i].asked
  PROVE  Before(i, c)'
<1>1. Len(sent) \in Nat /\ DOMAIN sent = 1 .. Len(sent)
      /\ \A k \in DOMAIN sent : sent[k] \in Requests
  BY SentFacts DEF PanelInv, TypeOK
<1>2. i + d \in DOMAIN sent /\ sent'[i] = sent[i + d]
  BY DEF Moved
<1>3. Starting /\ c \in Channels /\ Before(i + d, c)
  BY <1>1, <1>2 DEF Starting, StartInv, Requests
<1> QED
  BY <1>1, <1>2, <1>3, BeforeKept

\* A handler begins; what it is to start, it sends the waveforms of.
LEMMA BeginStarts ==
  ASSUME PanelInv, StartInv, NEW t \in Tasks, NEW chs \in SUBSET Channels,
         NEW start \in SUBSET chs, Begin(t, chs, start), settings' = settings, dev' = dev,
         \A c \in Channels : Starting => seen[c] \subseteq seen'[c],
         Shown'
  PROVE  StartInv'
<1>1. /\ task[t] = Idle
      /\ task' = [task EXCEPT ![t] = [busy |-> TRUE, todo |-> chs, start |-> start]]
      /\ \E c \in chs : Moved(0, {Waveform(t, c)})
  BY BeginMoves DEF PanelInv
<1>2. PICK e \in chs : Moved(0, {Waveform(t, e)})
  BY <1>1
<1>3. /\ task'[t].todo = chs /\ task'[t].start = start
      /\ \A s \in Tasks : s # t => task'[s] = task[s]
  BY <1>1 DEF PanelInv, TypeOK
<1>4. \A k \in DOMAIN sent : sent[k].task # t
  BY <1>1 DEF PanelInv, Orderly, Idle
<1>5. /\ Waveform(t, e).task = t /\ Waveform(t, e).do = "waveform"
      /\ Waveform(t, e).chs = {e} /\ Waveform(t, e).wave = settings[e]
  BY DEF Waveform, Request
<1>6. Starting => \A c \in Channels : Gentle(0, c)
  BY DEF Gentle
<1>7. ASSUME NEW s \in Tasks, task'[s].start # {}, NEW c \in Channels
      PROVE  Fresh({Waveform(t, e)}, c)
  <2>1. settings[c] \in seen'[c]
    BY <1>7 DEF Shown
  <2>2. {e} = {c} => e = c
    OBVIOUS
  <2> QED
    BY <1>5, <2>1, <2>2 DEF Fresh
<1>8. ASSUME NEW s \in Tasks, s # t PROVE Prepared(s)'
  <2>1. task'[s] = task[s] /\ task[s].start \in SUBSET Channels
    BY <1>3, <1>8 DEF PanelInv, TypeOK
  <2>2. CASE task[s].start = {}
    BY <2>1, <2>2 DEF Prepared
  <2>3. CASE task[s].start # {}
    <3> DEFINE more == {Waveform(t, e)}
    <3>1. \A c \in task[s].start : Gentle(0, c) /\ Fresh(more, c)
      BY <1>6, <1>7, <2>1, <2>3 DEF Starting
    <3>2. \A r \in more : r.task # s
      BY <1>5, <1>8
    <3>3. Moved(0, more) /\ Prepared(s) /\ task'[s] = task[s]
      BY <1>2, <2>1 DEF StartInv
    <3> HIDE DEF more
    <3> QED
      BY <3>1, <3>2, <3>3, PreparedKept
  <2> QED
    BY <2>2, <2>3
<1>9. Prepared(t)'
  <2>1. ASSUME NEW c \in start, NEW i \in DOMAIN sent', sent'[i].task = t, Sets(i, c)'
        PROVE  Behind(i, c)'
    <3>1. i = Len(sent') /\ sent'[i] \in {Waveform(t, e)}
      BY <1>2, <1>4, <2>1 DEF Moved
    <3>2. c \in Channels /\ task'[t].start # {}
      BY <1>3, <2>1
    <3>3. Fresh({Waveform(t, e)}, c)
      BY <1>7, <3>2
    <3> QED
      BY <1>2, <3>1, <3>3, NewBehind
  <2> QED
    BY <1>3, <2>1 DEF Prepared
<1>10. ASSUME NEW i \in DOMAIN sent', sent'[i].do = "start", NEW c \in sent'[i].asked
       PROVE  Before(i, c)'
  <2>1. sent'[i] \notin {Waveform(t, e)}
    BY <1>5, <1>10
  <2> QED
    BY <1>2, <1>6, <1>10, <2>1, BeforesKept
<1> QED
  BY <1>8, <1>9, <1>10 DEF StartInv

\* Nothing that concerns a start happens but a gentle move.
LEMMA GentleStarts ==
  ASSUME PanelInv, StartInv, NEW d \in {0, 1}, NEW more, Moved(d, more),
         \A r \in more : r.do \notin {"waveform", "start"} /\ r.task \notin Tasks,
         \A c \in Channels : Gentle(d, c),
         \A t \in Tasks : task'[t] = task[t] \/ task'[t] = Idle
  PROVE  StartInv'
<1>1. ASSUME NEW t \in Tasks PROVE Prepared(t)'
  <2>1. CASE task'[t] = Idle
    BY <2>1 DEF Prepared, Idle
  <2>2. CASE task'[t] = task[t]
    <3>1. task[t].start \in SUBSET Channels
      BY DEF PanelInv, TypeOK
    <3>2. \A c \in task[t].start : Gentle(d, c) /\ Fresh(more, c)
      BY <3>1 DEF Fresh
    <3> QED
      BY <2>2, <3>2, PreparedKept DEF StartInv
  <2> QED
    BY <2>1, <2>2
<1>2. ASSUME NEW i \in DOMAIN sent', sent'[i].do = "start", NEW c \in sent'[i].asked
      PROVE  Before(i, c)'
  BY <1>2, BeforesKept
<1> QED
  BY <1>1, <1>2 DEF StartInv

\* Requests stay where they are.
LEMMA StayMoves ==
  ASSUME sent \in Seq(Requests), sent' = sent
  PROVE  Moved(0, {})
<1>1. Len(sent) \in Nat /\ DOMAIN sent = 1 .. Len(sent)
  BY SentFacts
<1>2. \A i \in DOMAIN sent : i + 0 = i /\ i - 0 = i
  BY <1>1
<1> QED
  BY <1>1, <1>2 DEF Moved

\* The page is loaded again; starts that are on their way stay so.
LEMMA ReloadStarts ==
  ASSUME PanelInv, StartInv, Reload, Starting'
  PROVE  StartInv'
<1>1. /\ DOMAIN sent' = DOMAIN sent /\ task' = [t \in Tasks |-> Idle]
      /\ \A i \in DOMAIN sent :
           /\ sent'[i].task = None /\ sent'[i].do = sent[i].do
           /\ sent'[i].chs = sent[i].chs /\ sent'[i].asked = sent[i].asked
              /\ sent'[i].wave = sent[i].wave
  BY ReloadMoves DEF PanelInv
<1>2. seen' = seen /\ dev' = dev
  BY DEF Reload, Forget, device
<1>3. \A j \in DOMAIN sent : \A c : SeenAt(j, c) => SeenAt(j, c)'
  BY <1>1, <1>2 DEF SeenAt, Sets
<1>4. \A i, c : Before(i, c) => Before(i, c)'
  BY <1>1, <1>2, <1>3 DEF Before, Clean
<1>5. \A t \in Tasks : Prepared(t)'
  BY <1>1 DEF Prepared, Idle
<1> QED
  BY <1>1, <1>4, <1>5 DEF StartInv

LEMMA ServeGentle ==
  ASSUME PanelInv, 1 \in DOMAIN sent, Execute(sent[1]), seen' = seen, NEW c \in Channels
  PROVE  Gentle(1, c)
<1>1. IF Sets(1, c) THEN dev'[c] = sent[1].wave ELSE dev'[c] = dev[c]
  BY ExecuteSets
<1> QED
  BY <1>1 DEF Gentle

\* The handler t goes on: what is to be started and no longer to be sent is done.
LEMMA HandlerDone ==
  ASSUME PanelInv, StartInv, 1 \in DOMAIN sent, Execute(sent[1]), seen' = seen,
         NEW t \in Tasks, sent[1].task = t, NEW more, Moved(1, more),
         NEW c \in task[t].start, c \notin task[t].todo \ sent[1].chs, Fresh(more, c)
  PROVE  Done(c)'
<1>1. c \in Channels /\ Prepared(t)
  BY DEF PanelInv, TypeOK, StartInv
<1>2. Gentle(1, c)
  BY <1>1, ServeGentle
<1>3. CASE c \notin task[t].todo
  <2>1. Done(c)
    BY <1>1, <1>3 DEF Prepared
  <2> QED
    BY <1>2, <2>1, DoneKept
<1>4. CASE c \in sent[1].chs
  <2>1. sent[1].do = "waveform"
    BY DEF PanelInv, Orderly
  <2>2. PICK e \in Channels : sent[1].chs = {e}
    BY <2>1 DEF PanelInv, Orderly
  <2>3. Sets(1, c)
    BY <1>4, <2>1, <2>2 DEF Sets
  <2>4. Behind(1, c)
    BY <1>1, <2>3 DEF Prepared
  <2>5. dev'[c] = sent[1].wave
    BY <1>1, <2>3, ExecuteSets
  <2> QED
    BY <1>2, <2>3, <2>4, <2>5, BehindDone
<1> QED
  BY <1>3, <1>4

LEMMA GoesStarts ==
  ASSUME PanelInv, Shown, StartInv, 1 \in DOMAIN sent, Head(sent) = sent[1],
         Execute(sent[1]), settings' = settings, seen' = seen,
         NEW t \in Tasks, sent[1].task = t, NEW more, Moved(1, more), Goes(t, more)
  PROVE  StartInv'
<1>1. \A k \in DOMAIN sent : k > 1 => sent[k].task # t
  BY NoOther
<1>2. /\ \A s \in Tasks : s # t => task'[s] = task[s]
      /\ \/ \E e \in Channels : more = {Waveform(t, e)}
         \/ /\ more = {StartRequest(t)}
            /\ task[t].todo \ sent[1].chs = {} /\ task[t].start # {}
         \/ more = {}
  BY DEF Goes, PanelInv, TypeOK
<1>3. \A r \in more : r.task = t
  BY <1>2, StartRequestFields DEF Waveform, Request
<1>4. \A c \in Channels : Gentle(1, c)
  BY ServeGentle
<1>5. ASSUME NEW s \in Tasks, task[s].start # {}, NEW c \in Channels PROVE Fresh(more, c)
  <2>1. settings[c] \in seen'[c]
    BY <1>5 DEF Shown
  <2>2. ASSUME NEW r \in more, r.do = "waveform", r.chs = {c} PROVE r.wave \in seen'[c]
    <3>1. PICK e \in Channels : r = Waveform(t, e)
      BY <1>2, <2>2, StartRequestFields
    <3>2. e = c /\ r.wave = settings[e]
      BY <2>2, <3>1 DEF Waveform, Request
    <3> QED
      BY <2>1, <3>2
  <2> QED
    BY <2>2 DEF Fresh
<1>6. ASSUME NEW s \in Tasks, s # t PROVE Prepared(s)'
  <2>1. task'[s] = task[s] /\ task[s].start \in SUBSET Channels /\ Prepared(s)
    BY <1>2, <1>6 DEF PanelInv, TypeOK, StartInv
  <2>2. CASE task[s].start = {}
    BY <2>1, <2>2 DEF Prepared
  <2>3. CASE task[s].start # {}
    <3>1. \A c \in task[s].start : Gentle(1, c) /\ Fresh(more, c)
      BY <1>4, <1>5, <2>1, <2>3
    <3>2. \A r \in more : r.task # s
      BY <1>3, <1>6
    <3> QED
      BY <2>1, <3>1, <3>2, PreparedKept
  <2> QED
    BY <2>2, <2>3
<1>7. Prepared(t)'
  <2>1. CASE task' = [task EXCEPT ![t].todo = task[t].todo \ sent[1].chs]
    <3>1. /\ task'[t].start = task[t].start /\ task[t].start \in SUBSET Channels
          /\ task'[t].todo = task[t].todo \ sent[1].chs
      BY <2>1 DEF PanelInv, TypeOK
    <3>2. ASSUME NEW c \in task[t].start, c \notin task[t].todo \ sent[1].chs PROVE Done(c)'
      <4>1. Fresh(more, c)
        BY <1>5, <3>1, <3>2
      <4> QED
        BY <3>2, <4>1, HandlerDone
    <3>3. ASSUME NEW c \in task[t].start, NEW i \in DOMAIN sent', sent'[i].task = t
          PROVE  Behind(i, c)'
      <4>1. Fresh(more, c)
        BY <1>5, <3>1, <3>3
      <4>2. ASSUME i + 1 \in DOMAIN sent, sent'[i] = sent[i + 1] PROVE FALSE
        <5>1. i + 1 > 1
          BY DEF Moved
        <5> QED
          BY <1>1, <3>3, <4>2, <5>1
      <4>3. i = Len(sent') /\ sent'[i] \in more
        BY <4>2 DEF Moved
      <4> QED
        BY <4>1, <4>3, NewBehind
    <3> QED
      BY <3>1, <3>2, <3>3 DEF Prepared
  <2>2. CASE task'[t].start = {}
    BY <2>2 DEF Prepared
  <2>3. \/ task' = [task EXCEPT ![t].todo = task[t].todo \ sent[1].chs]
        \/ task' = [task EXCEPT ![t] = [Idle EXCEPT !.busy = TRUE]]
        \/ task' = [task EXCEPT ![t] = Idle]
    BY DEF Goes
  <2>4. \/ task' = [task EXCEPT ![t].todo = task[t].todo \ sent[1].chs]
        \/ task'[t].start = {}
    BY <2>3 DEF Idle, PanelInv, TypeOK
  <2> QED
    BY <2>1, <2>2, <2>4
<1>8. ASSUME NEW i \in DOMAIN sent', sent'[i].do = "start", NEW c \in sent'[i].asked
      PROVE  Before(i, c)'
  <2>1. CASE sent'[i] \notin more
    BY <1>4, <1>8, <2>1, BeforesKept
  <2>2. CASE sent'[i] \in more
    <3>1. /\ sent'[i] = StartRequest(t)
          /\ task[t].todo \ sent[1].chs = {} /\ task[t].start # {}
      BY <1>2, <1>8, <2>2 DEF Waveform, Request
    <3>2. c \in task[t].start /\ c \in Channels
      BY <1>8, <3>1, StartRequestFields DEF PanelInv, TypeOK
    <3>3. Fresh(more, c)
      BY <1>5, <3>1, <3>2
    <3>4. Done(c)'
      BY <3>1, <3>2, <3>3, HandlerDone
    <3> QED
      BY <3>4 DEF Done, Before
  <2> QED
    BY <2>1, <2>2
<1> QED
  BY <1>6, <1>7, <1>8 DEF StartInv

LEMMA StartStep == PanelInv /\ Shown /\ StartInv /\ [Next]_vars => StartInv'
<1> SUFFICES ASSUME PanelInv, Shown, StartInv, [Next]_vars, Starting' PROVE StartInv'
  BY NoStart
<1>0. Shown' /\ sent \in Seq(Requests)
  BY ShownStep DEF PanelInv, TypeOK
<1>1. ASSUME UNCHANGED <<task, sent>>, \A c \in Channels : Gentle(0, c) PROVE StartInv'
  <2>1. Moved(0, {})
    BY <1>0, <1>1, StayMoves
  <2> QED
    BY <1>1, <2>1, GentleStarts
<1>2. ASSUME NEW chs \in SUBSET Channels, Change(chs) PROVE StartInv'
  <2>1. UNCHANGED <<task, sent, dev>>
    BY <1>2 DEF Change, device
  <2>2. Starting
    BY <2>1 DEF Starting
  <2>3. seen' = [c \in Channels |-> seen[c] \cup {settings'[c]}]
    BY <1>2, <2>2 DEF Change
  <2>4. \A c \in Channels : Gentle(0, c)
    BY <2>1, <2>3 DEF Gentle
  <2> QED
    BY <1>1, <2>1, <2>4
<1>3. ASSUME NEW t \in Tasks, NEW chs \in SUBSET Channels, Start(t, chs) PROVE StartInv'
  <2>1. /\ Begin(t, chs, chs) /\ settings' = settings /\ dev' = dev
        /\ seen' = [c \in Channels |-> IF Starting THEN seen[c] \cup {settings[c]}
                                       ELSE {settings[c]}]
    BY <1>3 DEF Start, device
  <2>2. \A c \in Channels : Starting => seen[c] \subseteq seen'[c]
    BY <2>1
  <2> QED
    BY <1>0, <2>1, <2>2, BeginStarts
<1>4. ASSUME NEW do \in {"stop", "estop", "hv_on", "hv_off"}, NEW chs \in SUBSET Channels,
             Press(do, chs)
      PROVE  StartInv'
  <2> DEFINE more == {Request(None, do, chs, None)}
  <2>1. Moved(0, more) /\ task' = task /\ seen' = seen /\ dev' = dev
    BY <1>4, PressMoves DEF PanelInv, page, device
  <2>2. \A r \in more : r.do \notin {"waveform", "start"} /\ r.task \notin Tasks
    BY PanelAssumption DEF Request
  <2>3. \A c \in Channels : Gentle(0, c)
    BY <2>1 DEF Gentle
  <2> HIDE DEF more
  <2> QED
    BY <2>1, <2>2, <2>3, GentleStarts
<1>5. ASSUME NEW t \in Tasks, Push(t) PROVE StartInv'
  <2>1. /\ Begin(t, pending, {}) /\ pending \in SUBSET Channels /\ {} \in SUBSET pending
        /\ settings' = settings /\ dev' = dev /\ seen' = seen
    BY <1>5 DEF Push, PanelInv, TypeOK, device, history
  <2> QED
    BY <1>0, <2>1, BeginStarts
<1>6. CASE Serve
  <2>1. /\ 1 \in DOMAIN sent /\ Head(sent) = sent[1] /\ Execute(sent[1])
        /\ settings' = settings /\ Forget
        /\ \/ sent[1].task = None /\ Moved(1, {}) /\ task' = task
           \/ sent[1].task \in Tasks /\ \E more : Moved(1, more) /\ Goes(sent[1].task, more)
    BY <1>6, ServeMoves DEF PanelInv
  <2>2. seen' = seen
    BY <2>1 DEF Forget
  <2>3. CASE Moved(1, {}) /\ task' = task
    <3>1. \A c \in Channels : Gentle(1, c)
      BY <2>1, <2>2, ServeGentle
    <3> QED
      BY <2>3, <3>1, GentleStarts
  <2> QED
    BY <2>1, <2>2, <2>3, GoesStarts
<1>7. CASE Refuse
  <2>1. /\ Moved(1, {}) /\ Forget /\ dev' = dev
        /\ \/ task' = task
           \/ sent[1].task \in Tasks /\ task' = [task EXCEPT ![sent[1].task] = Idle]
    BY <1>7, RefuseMoves DEF PanelInv, device
  <2>2. \A t \in Tasks : task'[t] = task[t] \/ task'[t] = Idle
    BY <2>1 DEF PanelInv, TypeOK
  <2>3. \A c \in Channels : Gentle(1, c)
    BY <2>1 DEF Forget, Gentle
  <2> QED
    BY <2>1, <2>2, <2>3, GentleStarts
<1>8. CASE Reload
  BY <1>8, ReloadStarts
<1>9. CASE Link \/ Reboot \/ Still
  <2>1. /\ UNCHANGED <<task, sent, seen>>
        /\ dev' = dev \/ dev' = [c \in Channels |-> None]
    BY <1>9 DEF Link, Reboot, Still, page, device, history
  <2>2. \A c \in Channels : Gentle(0, c)
    BY <2>1 DEF Gentle
  <2> QED
    BY <1>1, <2>1, <2>2
<1> QED
  BY <1>2, <1>3, <1>4, <1>5, <1>6, <1>7, <1>8, <1>9, PanelCases DEF PanelInv

-----------------------------------------------------------------------------
(* The theorems.                                                           *)

\* The settings of the panel, its handlers, the requests on their way and what
\* the device has stay what app.js and api_cmd take them for.
THEOREM PanelTypes == Spec => []TypeOK
<1>1. PanelInv => TypeOK
  BY DEF PanelInv
<1> QED
  BY <1>1, PanelInvariant, PTL

\* schedulePush, pushWaveforms, the start buttons and api_cmd: the last waveform
\* on its way to the device is the one on the panel, or that one is still to be
\* sent, for every channel of which no failure was reported.
THEOREM PrevailsTheorem == Spec => []PanelPrevails
<1>1. Init => OwedInv
  BY DEF Init, OwedInv
<1>2. PanelInv /\ OwedInv /\ [Next]_vars => OwedInv'
  BY OwedStep
<1>3. OwedInv => PanelPrevails
  <2>1. \A c : Settled(c) => IsLast(c, settings[c])
    BY DEF Settled, IsLast
  <2> QED
    BY <2>1 DEF OwedInv, PanelPrevails
<1> QED
  BY <1>1, <1>2, <1>3, PanelInvariant, PTL DEF Spec

\* btn-ch-run and btn-all-start: a channel that a start was asked for is started
\* with a waveform that the panel has shown since then, whatever other handlers
\* send and whatever tab is selected meanwhile.
THEOREM StartsTheorem == Spec => []StartsAsShown
<1>1. Init => Shown /\ StartInv
  <2> SUFFICES ASSUME Init PROVE Shown /\ StartInv
    OBVIOUS
  <2>1. DOMAIN sent = {} /\ \A t \in Tasks : task[t].start = {}
    BY DEF Init, Idle
  <2> QED
    BY <2>1 DEF Shown, StartInv, Prepared
<1>2. PanelInv /\ Shown /\ StartInv /\ [Next]_vars => Shown' /\ StartInv'
  BY ShownStep, StartStep
<1>3. PanelInv /\ StartInv => StartsAsShown
  <2> SUFFICES ASSUME PanelInv, StartInv, sent # <<>>, Head(sent).do = "start",
                      NEW c \in Head(sent).chs \cap Head(sent).asked
               PROVE  dev[c] \in seen[c] \cup {None}
    BY DEF StartsAsShown
  <2>1. 1 \in DOMAIN sent /\ Head(sent) = sent[1]
    BY SentFacts DEF PanelInv, TypeOK
  <2>2. Before(1, c)
    BY <2>1 DEF StartInv
  <2> QED
    BY <2>2 DEF Before, Clean
<1> QED
  BY <1>1, <1>2, <1>3, PanelInvariant, PTL DEF Spec
=============================================================================

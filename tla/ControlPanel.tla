---------------------------- MODULE ControlPanel ----------------------------
(***************************************************************************)
(* The output control of one browser tab (static/app.js) over POST         *)
(* /api/cmd (server/app.py): settings of the channels that are pushed to   *)
(* the device 250 ms after a change, and the buttons.                      *)
(*                                                                         *)
(* Handlers of the page are tasks that wait for the answer to one request  *)
(* at a time, while the user goes on.  The event loop serves requests in   *)
(* the order in which they were made: one page, one machine, one loop.     *)
(* The link to the device (DiceLink.tla) is there or not.  Cycles, phase   *)
(* and amplitude of a channel are one value, its shape.  The age of the    *)
(* STATUS that decides whether the button of the selected channel starts   *)
(* or stops it is left open.                                               *)
(***************************************************************************)
EXTENDS Integers, Sequences

CONSTANTS
  Channels,
  First,    \* the channel that is selected on a fresh page
  MaxFreq,  \* the highest frequency, in steps of the stepper
  Shapes,
  Long,     \* shapes whose cycles do not fit into 32 bits
  Default,  \* the setting of a channel on a fresh page
  Tasks,    \* bound: handlers that wait for an answer at the same time
  MaxActs,  \* bound: what the user does
  None

Waves == [freq : 1 .. MaxFreq, shape : Shapes]

ASSUME PanelAssumption ==
  /\ MaxFreq \in Nat /\ MaxActs \in Nat
  /\ Long \subseteq Shapes
  /\ First \in Channels
  /\ Default \in Waves
  /\ None \notin Waves \cup Tasks

VARIABLES
  settings, \* chSettings
  sel,      \* selCh
  pending,  \* pendingPush
  timer,    \* pushTimer is running
  task,     \* each task: whether it is at work, the channels whose waveform is
            \* still to be accepted, and the channels that were asked to be
            \* started then
  sent,     \* requests that have not been served
  up,       \* link.ser is open and takes what is written
  dev,      \* each channel's waveform in the device; None: not set by us
  out,      \* channels whose output is on
  hv,       \* high voltage
  owed,     \* history: channels set on this page whose setting no failure, and
            \* no reboot, has kept from the device
  seen,     \* history: settings shown since the last start was asked for
  estop,    \* history: the last ESTOP is "asked" for or "done", and nothing has
            \* been switched on by the user since
  acts      \* what the user has done

page == <<settings, sel, pending, timer, task>>
device == <<dev, out, hv>>
history == <<owed, seen, estop>>
vars == <<page, sent, up, device, history, acts>>

Idle == [busy |-> FALSE, todo |-> {}, start |-> {}]

Init ==
  /\ settings = [c \in Channels |-> Default]
  /\ sel = First
  /\ pending = {}
  /\ timer = FALSE
  /\ task = [t \in Tasks |-> Idle]
  /\ sent = <<>>
  /\ up \in BOOLEAN
  /\ dev = [c \in Channels |-> None]
  /\ out = {}
  /\ hv = FALSE
  /\ owed = {}
  /\ seen = [c \in Channels |-> {}]
  /\ estop = "none"
  /\ acts = 0

\* asked: history; the channels that the user asked it for.
Request(t, do, chs, wave) ==
  [task |-> t, do |-> do, chs |-> chs, asked |-> chs, wave |-> wave]

\* sendWaveform: the settings are read when the request is made.
Waveform(t, c) == Request(t, "waveform", {c}, settings[c])

\* The mask of a start is read when the request is made: all channels, or the
\* one that is selected then.
StartRequest(t) ==
  [Request(t, "start", IF task[t].start = Channels THEN Channels ELSE {sel}, None)
     EXCEPT !.asked = task[t].start]

\* A start that the device has not been given yet.
Starting ==
  \/ \E t \in Tasks : task[t].start # {}
  \/ \E i \in DOMAIN sent : sent[i].do = "start"

\* seen after a step that may have ended the last one.
Forget == seen' = IF Starting' THEN seen ELSE [c \in Channels |-> {}]

Act == acts < MaxActs /\ acts' = acts + 1

-----------------------------------------------------------------------------
(* Settings.                                                               *)

\* Faulty variant: a running timer is cancelled and not set again.
ScheduleOnce(chs) ==
  /\ pending' = pending \cup chs
  /\ timer' = (pending = {})
  /\ owed' = owed \cup chs

\* schedulePush
Schedule(chs) ==
  /\ pending' = pending \cup chs
  /\ timer' = TRUE
  /\ owed' = owed \cup chs

\* What both kinds of change have in common.
Change(chs) ==
  /\ Act
  /\ Schedule(chs)
  /\ seen' = IF Starting THEN [c \in Channels |-> seen[c] \cup {settings'[c]}] ELSE seen
  /\ UNCHANGED <<sel, task, sent, up, device, estop>>

Clamp(x) == IF x < 1 THEN 1 ELSE IF x > MaxFreq THEN MaxFreq ELSE x

\* Faulty variant: the stepper may leave the range.
ChangeFreqFree(x) ==
  /\ settings' = [c \in Channels |-> [settings[c] EXCEPT !.freq = x]]
  /\ Change(Channels)

\* Faulty variant: only one channel is pushed.
ChangeFreqOne(x) ==
  /\ settings' = [c \in Channels |-> [settings[c] EXCEPT !.freq = Clamp(x)]]
  /\ \E c \in Channels : Change({c})

\* syncFreqAll, after a typed value or a click on a stepper: the frequency is
\* one for all channels.
ChangeFreq(x) ==
  /\ settings' = [c \in Channels |-> [settings[c] EXCEPT !.freq = Clamp(x)]]
  /\ Change(Channels)

\* Of the selected channel.
ChangeShape(s) ==
  /\ settings' = [settings EXCEPT ![sel].shape = s]
  /\ Change({sel})

\* A channel tab: also while handlers wait.
SelectTab(c) ==
  /\ sel' = c
  /\ UNCHANGED <<settings, pending, timer, task, sent, up, device, history, acts>>

-----------------------------------------------------------------------------
(* Tasks.                                                                  *)

\* A handler sends the first waveform of chs; the order is left open.
Begin(t, chs, start) ==
  /\ task[t] = Idle
  /\ \E c \in chs : sent' = Append(sent, Waveform(t, c))
  /\ task' = [task EXCEPT ![t] = [busy |-> TRUE, todo |-> chs, start |-> start]]

\* The callback of pushTimer.
Push(t) ==
  /\ timer
  /\ Begin(t, pending, {})
  /\ pending' = {}
  /\ timer' = FALSE
  /\ UNCHANGED <<settings, sel, up, device, history, acts>>

\* btn-ch-run of a stopped channel, btn-all-start.
Start(t, chs) ==
  /\ Act
  /\ Begin(t, chs, chs)
  /\ owed' = owed \cup chs
  /\ seen' = [c \in Channels |-> IF Starting THEN seen[c] \cup {settings[c]}
                                 ELSE {settings[c]}]
  /\ estop' = "none"
  /\ UNCHANGED <<settings, sel, pending, timer, up, device>>

Run(t) == Start(t, {sel})
AllStart(t) == Start(t, Channels)

\* A handler goes on when its request has been accepted: the next waveform,
\* or the start, or the end.  That an answer takes a while makes no difference:
\* what may happen meanwhile may as well happen before the request is served.
Resume(r) ==
  LET t == r.task
      todo == task[t].todo \ r.chs
      rest == Tail(sent)
  IN  \/ /\ \E c \in todo : sent' = Append(rest, Waveform(t, c))
         /\ task' = [task EXCEPT ![t].todo = todo]
      \/ /\ todo = {} /\ task[t].start # {}
         /\ sent' = Append(rest, StartRequest(t))
         /\ task' = [task EXCEPT ![t] = [Idle EXCEPT !.busy = TRUE]]
      \/ /\ todo = {} /\ task[t].start = {}
         /\ sent' = rest
         /\ task' = [task EXCEPT ![t] = Idle]

\* Faulty variant: the start is sent all the same.
GiveUpWaveforms(t) ==
  /\ IF task[t].start # {}
     THEN /\ sent' = Append(Tail(sent), StartRequest(t))
          /\ task' = [task EXCEPT ![t] = [Idle EXCEPT !.busy = TRUE]]
     ELSE sent' = Tail(sent) /\ task' = [task EXCEPT ![t] = Idle]
  /\ owed' = owed \ task[t].todo

\* After a failure: break, or return.
GiveUp(t) ==
  /\ sent' = Tail(sent)
  /\ task' = [task EXCEPT ![t] = Idle]
  /\ owed' = owed \ task[t].todo

\* Buttons with one request, whose answer is only displayed.
Press(do, chs) ==
  /\ Act
  /\ sent' = Append(sent, Request(None, do, chs, None))
  /\ UNCHANGED <<page, up, device, owed, seen>>

Stop == Press("stop", {sel}) /\ UNCHANGED estop
AllStop == Press("stop", Channels) /\ UNCHANGED estop
Estop == Press("estop", Channels) /\ estop' = "asked"
HvOff == Press("hv_off", {}) /\ UNCHANGED estop
HvOn == Press("hv_on", {}) /\ estop' = "none"

\* The page is loaded again: its tasks end, a request that is on its way is
\* served all the same.
Reload ==
  /\ Act
  /\ settings' = [c \in Channels |-> Default]
  /\ sel' = First
  /\ pending' = {} /\ timer' = FALSE
  /\ task' = [t \in Tasks |-> Idle]
  /\ sent' = [i \in DOMAIN sent |-> [sent[i] EXCEPT !.task = None]]
  /\ owed' = {}
  /\ Forget
  /\ UNCHANGED <<up, device, estop>>

-----------------------------------------------------------------------------
(* api_cmd, and the device.                                                *)

InRange(r) == r.do = "waveform" => r.wave.freq \in 1 .. MaxFreq

\* Neither the panel nor api_cmd limits the cycles; struct.pack raises.
Packs(r) == r.do = "waveform" => r.wave.shape \notin Long

Accepted(r) == up /\ InRange(r) /\ Packs(r)

\* Nobody waits for more than the answer to the request.
Pop == sent' = Tail(sent) /\ UNCHANGED task

\* What a command does.
Execute(r) ==
  /\ dev' = [c \in Channels |-> IF r.do = "waveform" /\ c \in r.chs THEN r.wave ELSE dev[c]]
  /\ out' = CASE r.do = "start" -> out \cup r.chs
              [] r.do \in {"stop", "estop"} -> out \ r.chs
              [] OTHER -> out
  /\ hv' = CASE r.do = "hv_on" -> TRUE
             [] r.do \in {"hv_off", "estop"} -> FALSE
             [] OTHER -> hv

EstopWaits == \E i \in DOMAIN Tail(sent) : Tail(sent)[i].do = "estop"

Serve ==
  /\ sent # <<>>
  /\ Accepted(Head(sent))
  /\ IF Head(sent).task = None THEN Pop ELSE Resume(Head(sent))
  /\ Execute(Head(sent))
  /\ estop' = IF Head(sent).do = "estop" /\ estop = "asked" /\ ~EstopWaits
              THEN "done" ELSE estop
  /\ Forget
  /\ UNCHANGED <<settings, sel, pending, timer, up, owed, acts>>

\* 409, 400, an exception, or send returned False.
Refuse ==
  /\ sent # <<>>
  /\ ~Accepted(Head(sent))
  /\ IF Head(sent).task = None THEN Pop /\ UNCHANGED owed ELSE GiveUp(Head(sent).task)
  /\ Forget
  /\ UNCHANGED <<settings, sel, pending, timer, up, device, estop, acts>>

Link ==
  /\ up' = ~up
  /\ UNCHANGED <<page, sent, device, history, acts>>

Reboot ==
  /\ up' = FALSE
  /\ dev' = [c \in Channels |-> None]
  /\ out' = {} /\ hv' = FALSE
  /\ owed' = {}
  /\ UNCHANGED <<page, sent, seen, estop, acts>>

-----------------------------------------------------------------------------
User ==
  \/ \E x \in 0 .. MaxFreq + 1 : ChangeFreq(x)
  \/ \E s \in Shapes : ChangeShape(s)
  \/ \E c \in Channels : SelectTab(c)
  \/ \E t \in Tasks : AllStart(t) \/ Run(t)
  \/ Stop \/ AllStop \/ Estop \/ HvOff \/ HvOn \/ Reload

Api == Serve \/ Refuse

Next == User \/ (\E t \in Tasks : Push(t)) \/ Api \/ Link \/ Reboot

Spec == Init /\ [][Next]_vars

\* Timers fire, and the event loop goes on.
FairSpec == Spec /\ WF_vars(\E t \in Tasks : Push(t)) /\ WF_vars(Api)

-----------------------------------------------------------------------------
(* What the code promises.                                                 *)

Requests ==
  [task : Tasks \cup {None}, do : {"waveform", "start", "stop", "estop", "hv_on", "hv_off"},
   chs : SUBSET Channels, asked : SUBSET Channels, wave : Waves \cup {None}]

TypeOK ==
  /\ settings \in [Channels -> Waves]
  /\ sel \in Channels
  /\ pending \in SUBSET Channels
  /\ timer \in BOOLEAN
  /\ task \in [Tasks -> [busy : BOOLEAN, todo : SUBSET Channels, start : SUBSET Channels]]
  /\ sent \in Seq(Requests)
  /\ up \in BOOLEAN /\ hv \in BOOLEAN
  /\ dev \in [Channels -> Waves \cup {None}]
  /\ out \in SUBSET Channels
  /\ owed \in SUBSET Channels
  /\ seen \in [Channels -> SUBSET Waves]
  /\ estop \in {"none", "asked", "done"}
  /\ acts \in 0 .. MaxActs

Sets(i, c) == sent[i].do = "waveform" /\ sent[i].chs = {c}

\* The waveform that c will have when all requests have been served.
IsLast(c, w) ==
  \/ w = dev[c] /\ \A i \in DOMAIN sent : ~Sets(i, c)
  \/ \E i \in DOMAIN sent :
       /\ Sets(i, c) /\ w = sent[i].wave
       /\ \A j \in DOMAIN sent : Sets(j, c) => j <= i

\* c's setting is still to be sent.
ToSend(c) ==
  \/ c \in pending
  \/ \E t \in Tasks :
       /\ c \in task[t].todo
       /\ \A i \in DOMAIN sent : ~(sent[i].task = t /\ Sets(i, c))

\* Changes during a push, pushes and starts that overlap, settings that are
\* read when a request is made: whatever the order, the last waveform on its
\* way to the device is the one on the panel, or that one is still to be sent,
\* unless the panel has reported a failure or the device has rebooted.
PanelPrevails ==
  \A c \in owed : IsLast(c, settings[c]) \/ ToSend(c)

\* A channel that a start was asked for, by its button or the one for all, is
\* started with a waveform that the panel has shown since then, never with what
\* an earlier push or a failed one left, whatever other handlers send meanwhile.
StartsAsShown ==
  sent # <<>> /\ Head(sent).do = "start" =>
    \A c \in Head(sent).chs \cap Head(sent).asked : dev[c] \in seen[c] \cup {None}

\* README.md, 변경 즉시 적용 (changes are applied at once): a setting gets to the
\* device, with the same exceptions.
SettingsArrive ==
  \A c \in Channels : \A w \in Waves :
    <>[](c \in owed /\ settings[c] = w) => <>[](dev[c] = w)

\* index.html, app.js: the button that says "CH1 출력 시작" (start output) starts
\* channel 1, the one whose waveform its handler has sent, and no other.
StartsAsLabelled ==
  sent # <<>> /\ Head(sent).do = "start" => Head(sent).chs \subseteq Head(sent).asked

\* index.html: ESTOP stops all and switches the high voltage off.
EstopHolds == estop = "done" => out = {} /\ ~hv
=============================================================================

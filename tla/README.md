# DICE Bench Dashboard in TLA+

A local web dashboard for a test bench: one Python process owns the serial
ports and the debug probe, keeps what it learns in one store, pushes it to
browser tabs, flashes firmware, and replaces its own exe. These modules model
the parts of it that run concurrently, TLC checks them on small instances, and
TLAPS proves all safety properties of the passing runs, and that the store
implements the abstract feed, for every value of the constants.
`src/` below is the root of the repository.

## 1. The system

### Components, state, operations

| component | code | state | operations |
| --- | --- | --- | --- |
| state store | `server/state.py` | badges and other fields, three deques, one sequence counter, two log files; one lock | `add_console_line`, `add_event`, `add_status`, `set_badge`, `set_*`, `snapshot`, `delta_since` |
| live feed | `/ws` in `server/app.py` | one cursor per tab | snapshot on connecting, then a delta every 0.2 s |
| UART console tail | `server/console_tail.py` | rotation index, open port, line buffer; `Ctl` shared with the event loop without a lock | scan, open, receive, give up; `select`, `rescan` |
| DICE link | `server/dice_link.py`, `/api/cmd` | `ser`, `seq`, `last_pong`; a lock around a send only | open, GET_INFO, SELFTEST, PING, read, loss; `send` from the event loop |
| firmware update | `server/fw_update.py`, `/api/fw/apply` | `_lock`, the phase on the panel, three attempts | download, flash with JLink.exe, retry, result |
| J-Link badge | `server/jlink_watch.py` | one badge | looks at the USB ports every 3 s |
| server life | `server/app.py` | `_ws_clients`, `_had_client`, `_last_activity`, `zero_since` | `main`, `/ws`, the middleware, `_auto_exit_watch` |
| self-update | `server/self_update.py`, `run.bat`, update button in `static/app.js` | `_applying`, `exe.new`, the checkout and its packages, the batch files | check; download, or pull and pip; batch process, exit, restart |
| frame codec | `server/dice_protocol.py` | the bytes not yet parsed | `encode_cmd`, `FrameParser.feed` |
| control panel | `static/app.js` | settings of four channels, debounced changes | waveform, start, stop, ESTOP, HV |
| rest | `server/ports.py`, `paths.py`, `version.py`, rendering in `static/`, build scripts | - | - |

### How they interact

The collector threads (console tail, DICE link, J-Link watch, update threads)
and the HTTP handlers call the store; nobody else writes it. The event loop
runs the HTTP and `/ws` handlers; it reads the store and pushes it, writes
`Ctl`, and calls `DiceLink.send` in its own thread. The exit watch, the
self-update and the batch process end and start the whole server, whatever the
other threads are doing.

### What is hard about it

* **Locks that cover less than the call.** `set_badge` reports after the lock,
  `add_event` stamps before it and logs after it; `DiceLink.lock` covers a send
  but not `ser`; `Ctl` has no lock at all.
* **Cursors over bounded deques** while items arrive and tabs come and go.
* **Cables, probes and programs** that come and go at any point of a session.
* **`os._exit`** in the middle of anything, with processes (JLink.exe, the
  batch file) that go on.
* **Sampled time**: grace periods looked at every 2 s, heartbeats, time-outs.

`PROJECT.json` lists each of these hazards at its line, with the properties
that would catch it, or the reason why there is none yet.

### What makes each component correct

| component | correct means |
| --- | --- |
| store, live feed | a tab is given everything since its snapshot, in order, unless the deque had to drop it; the panel is never older than the events shown; badges' histories and logs are complete |
| console tail | the open port is the one selected; the badge tells what the session is; a line belongs to one session; automatic selection finds the port that sends |
| DICE link | one numbering of frames; a lost link leaves no live badge and no self-test result on the panel; it comes back; commands are answered |
| firmware update | one JLink.exe; the panel's phase is right; "flashed" is true; every update ends |
| control panel | the device gets what the panel shows; a start goes to the channel it names and finds it there; ESTOP holds |
| server life | it ends when, and only when, nobody uses it; an update leaves the old program, the new one, or the new one's file, and ends with the new one |
| frame codec | the frames found are those that were sent, however the bytes are cut, with noise between and across lost links |

## 2. Modules

| module | models | notes |
| --- | --- | --- |
| `AppState` | the store and the `/ws` handlers | collectors are threads that may make any call they make in the code |
| `LiveFeed` | what a tab is promised, without locks, deques, cursors | `AppState` implements it (`FeedSpec`) |
| `ConsoleTail` | the tail thread, `Ctl`, `/api/console/select` | |
| `DiceLink` | the link thread, `send`, `/api/cmd` | |
| `FwUpdate` | update threads, `/api/fw/apply`, J-Link badge, JLink.exe | |
| `ServerLife` | exit watch, tab count, the updates of the exe and of a git checkout, their batch files | one variable tells how the program is run |
| `FrameParser` | `FrameParser.feed` on the bytes that `run()` reads | `crc16_ccitt` is a constant operator |
| `ControlPanel` | settings, debounced pushes, start, stop, ESTOP, HV of one tab over `/api/cmd` | the link to the device is there or not |
| `MC*` | names for the model values of the runs | |
| `*Proofs` | theorems with their proofs | |

**AppState.** `seq`, `store`, `cell` are `_seq`, the deques, and the badges and
fields; `file` are the log files. A call is split where other threads can get
in: `Enter` (time stamp), `Record` (the locked block), `Write` (log line);
`SetBadge` (the locked block of `set_badge`) and `ReportBadge` (its
`add_event`). `add_status` and the setters are one locked block each. An item
is its number, its time and, for reports of badges, old and new state; `knows`
is a history field, how recent each badge was when the event was made. `Connect`
is the snapshot with the cursor, `Delta` one turn of the 5 Hz loop. A tab's
`view` is what it was *sent*; how many lines the browser keeps on display is
not modelled. Each badge and field has one writing thread (`Owner`), as in the
code.

**ConsoleTail.** One action per stretch of `run()` between two places where
`Ctl` is read: `Start` (generations), `Scan`/`Reread` (`candidates()` reads
`manual` twice), `Opened`/`OpenFails`, `Forced`/`Soft`/`Proceed` (the tests of
the generations), `Receive`/`Quiet`/`Tick`/`ReadFails`. `Select` and
`SelectDone` are the two statements of `Ctl.select`. A generation counter is
only ever compared with its last seen value, so it is a flag.
`Badge` takes `manual` when it is set, as the code does.

**DiceLink.** `run()` statement by statement where shared state changes hands
(`Broken` .. `DropSer` are the five statements of the exception branch).
`Command`, `Lock`, `Check`, `Write`/`WriteFails`/`WriteNone`, `Count` are
`api_cmd` and the statements of `send`; `Crashed` is the answer to an exception. run()'s own sends are one step each:
they happen under the lock, and only run() itself changes `ser`. The device
answers what is on the wire when its firmware is up.

**FwUpdate.** A thread's `stage` is its place in `apply` and `_flash`; phase
and event are two steps because they are two calls. JLink.exe ends with any
code and output; code 0 without an error line means that the write took place.
`Exit` is any end of the server with the next start: JLink.exe goes on as
`orphan`.

**ServerLife.** `mode` is the way the program is run: `exe`, the windowless
exe; `hidden`, `pythonw` on a git checkout; `console`, `python` in the loop of
`run.bat`. It decides whether the server ends by itself, what an update does
before its restart (`Downloads`, or `Pull` and `Pip`), and who starts the
program again: the batch file of `_UPDATER_BAT` (`Del`, `Move`, `Start`), the one
of `_dice_restart.bat` (`Pause`, `Start`), or `run.bat` (`Start` only). A tick is
the 2 s of `_auto_exit_watch`; `zero`, `idle` and `quiet` count ticks and stop one
past their limit. `gone` are sockets whose handler has not noticed yet that the
tab is gone. Each request has its place in `apply` (`upd`) and its batch process
(`helper`); cmd reads the file line by line and stops when the file has been
deleted (`Stray`). `Move` may fail, and nothing looks whether it did: the program is
then `lost`, and `exe.new` stays. `program` is what is on the disk, `server` the version that
runs. `Click` sends what `api()` sends.

**FrameParser.** The stream is chosen at the start. `Feed` appends what one
`ser.read` returns; `NoSof`, `Wait`, `Skip` and `Accept` are the iterations of
the loop, by the way they end; `Reopen` is a lost link with the new parser that
`run()` makes. Each frame in `out` carries the place where it began, a history
field. `Decode` is the reference: what is found when all bytes come at once,
place by place (`Found`, a recursive function over the places of the stream).

**ControlPanel.** `settings`, `pending`, `timer` are `chSettings`,
`pendingPush`, `pushTimer`; a `task` is a handler of the page that awaits its
requests one after the other (`Push`, `Run`, `AllStart`, with `Resume` and
`GiveUp` after each answer); `sent` are the requests under way. `Serve` and
`Refuse` are `api_cmd` with what the command does to the device. Cycles,
which nothing limits before they are packed into 32 bits, are a shape that is
`Long`: the exception is one more refusal. `sel` is `selCh`, which a click on a
channel's tab changes at any time (`SelectTab`), also while a handler waits; a
request for the selected channel reads it when it is made. So the start of
`btn-ch-run` takes `selCh` anew (`StartRequest`), which may not be the channel it
was pressed for, `task[t].start`; a request keeps the latter in `asked`, a history
field. Whether the start/stop button starts or stops is left open instead of
modelling the age of the last STATUS. Requests
are served in the order in which they were made; HTTP over several connections
does not promise that, one page on the server's own machine makes it so. What a
reload, a reboot of the device or a failure has cut off is not `owed` to the
device any more: nothing in the code sends it again.

The handlers of the event loop run one at a time; the models let handlers of
different components interleave with each other and with the threads, which
allows all that can happen and more.

## 3. Runs

Passing runs:

| run | instance | shows |
| --- | --- | --- |
| `feed` | 2 threads, 1 tab, 1 badge, 1 field, 4 calls | a tab misses nothing (`NothingSkipped`), is never shown an event ahead of its panel (`ReportsFollowPanel`); reports of the badge form an unbroken history (`BadgeHistory`); logs are complete (`LogMatchesTimeline`); `AppState` implements `LiveFeed` (`FeedSpec`); items reach connected tabs (`EventuallyShown`) and changes of badges reach the log (`EventuallyLogged`) |
| `console` | 2 probe ports | the selected port is the open one (`SettledSelection`), the badge tells the session (`BadgeMatchesSession`), no torn line (`NoTornLine`), a port that sends is kept (`FixedOnceHeard`); a selection is honoured (`ManualHonoured`); the rotation finds the port that sends (`AutoFindsData`) |
| `link` | 2 firmware versions, numbers modulo 2, detected port | one numbering (`FramesNumbered`); without a link no open link, live MCU or self-test result is shown (`NoLinkNoNews`); the link comes back (`LinkComesBack`), the MCU and firmware badges tell the truth (`McuBadgeTells`, `NewVersionShown`), no command hangs (`CommandsAnswered`) |
| `fw` | 2 threads, 2 releases, 3 attempts, 2 exits | the panel's phase (`PhaseTells`), "flashed" (`SuccessTells`), one JLink.exe (`OneJLink`), the board is not written before the log says so (`WritesAnnounced`), every update ends (`UpdatesEnd`) |
| `life` | 3 ways to run, 2 tabs, 2 update requests, 1 start or stop by the user | the server leaves nobody (`ExitsAlone`) and ends after its users (`EndsWithTabs`); the program is missing only on its way back or after a failed move, and then the new one is beside it (`ProgramStays`); an update that gets to its restart ends with the new version (`UpdateLands`) |
| `panel` | 2 channels, 2 frequencies, 2 shapes (one cannot be packed), 2 handlers, 3 acts of the user | the last waveform on its way is the one on the panel (`PanelPrevails`); a start finds a waveform that was shown since it was asked for in each channel it was asked for (`StartsAsShown`); settings arrive (`SettingsArrive`) |
| `parser` | 4 byte values, frames with payloads up to 2 behind noise, cut off or damaged frames | the frames found do not depend on the chunks (`ChunksDoNotMatter`), intact frames are found (`IntactFramesFound`), the buffer stays below one frame (`TypeOK`) |

Runs that end in a violation, each of something a document or comment of the
repository says:

| run | says | what happens |
| --- | --- | --- |
| `console_green` | `README.md`: green only while data is received | nothing takes the badge back from `open` while the port stays open |
| `link_send` | `send` returns a bool, False without a link | `ser` becomes None between check and use: AttributeError |
| `panel_estop` | `index.html:58`: ESTOP is STOP ALL + HV OFF | a start that was waiting for its waveforms follows the ESTOP |
| `panel_label` | `app.js:421`, `index.html:90`: the button says which channel it starts | a tab clicked while the waveform is awaited: the start goes to the other channel, with whatever waveform it has |
| `life_cut` | `README.md`: the new exe is downloaded and replaces the old one | a connection that is closed early leaves half an exe, which replaces the whole one |

More divergences are visible in the models and have no run of their own:

* The timeline is said to be in order of time. `add_event` stamps before the
  lock and logs after it, so two threads can log against the order of their
  stamps (`Enter`, `Record`, `Write`).
* One button is said to check for updates, apply them and restart. It calls
  `api()` without a body, which makes a GET; the route takes POST only, so the
  answer is 405 and no update begins (`Method`, `Click`). Updates begin with a
  script's POST (`Post`).
* A lost link takes back the badges and the self-test, but not the firmware
  version: `fw_info` and its badge stay until the next answer to GET_INFO
  (`ForgetSelftest` leaves `fw_info` alone). No document promises otherwise;
  `NoLinkNoNews` does not speak of it, and `NewVersionShown` says that it is
  replaced after the next opening.
* Page reloads set the rotation of console ports back to its first candidate. Reloads
  often enough keep it there for ever (`Soft`); `AutoFindsData` is stated for
  reloads that come to an end.
* The batch file does not look whether its move succeeded. If it failed, no exe
  is in its place and nobody starts one; the new one is still there as `exe.new`
  (`Move`, `ProgramStays`).
* When a waveform is refused, the rest of the debounced channels is dropped: the
  frequency that all channels share then differs in the device (`GiveUp`).
* `NewVersionShown` needs its premise: GET_INFO is sent once per opening, and if
  the firmware is not up at that moment its version is never asked for again.
* The comment in `_auto_exit_watch` says that a working REST script keeps the
  server. Only requests count: a script that makes none for 10 s, for example
  while it builds, does not keep it (`TabsGone`).
* Progress and result of a firmware update are said to be in the timeline. The
  exit watch and the self-update end the process without looking at
  `fw_update`: "flash started" is then the last word (`Exit` of `FwUpdate`).
* `_apply_git` does not look at pip's result. When the new version needs a
  package that pip did not install, the server ends and does not come back
  (`Pip`, `Main`); `UpdateLands` is stated for what is `Usable`.
* `_check_git` compares the checkout with its upstream, not the program that
  runs: after a time-out of pip the old program runs on the new checkout and the
  button says that it is up to date (`Behind`).
* `ProgramStays` and `UpdateLands` make an exception (`overlap`) of an update that is begun while the batch
  file of another one waits; the user gets there by starting the old program
  again. Then TLC finds the exe missing and nobody about to put one back: the
  second update's failing download removes the `exe.new` that the first batch
  file is about to move, or its batch file deletes what the first has put in
  place.

### Bounds, and why they are enough

* `MaxClock` (calls in a run) is above the length of the deques in `MCAppState`
  (1 or 2), so that they overflow between two deltas and tabs come back to a
  store that has forgotten. The four calls of `feed` are up to seven critical
  sections: a badge changes three times while the other thread reports too.
* Two threads are enough to overtake each other in each of the split calls.
* Two ports that the rotation alternates between. What a port beyond them could
  do to the selection and the badge is covered by the theorems, which hold for
  any set of ports. `Wrap` is a multiple of every number of candidates, so
  `idx` modulo that number is exact. Plugging and powering are unbounded.
* The frame number modulo 2 tells repeated and skipped numbers from right ones.
  The port is detected, not configured, so that it can be absent as well as busy.
* `FwUpdate` has the three attempts of the code. Two threads overlap at the end
  of one and the start of the next update. Two exits let a JLink.exe outlive
  the server while the next server starts another one.
* `Grace` 1 and `Orphan` 2 ticks stand for 5 and 90: the watch must look twice
  before it ends the server, and once more if no tab ever came. `MaxGone` 1: one
  socket at a time is gone and not missed yet. Two updates overlap each other;
  `MaxActs` 1 lets the user start or close the program once, for example while
  the batch process is at work. `life` checks no deadlock: what the user does is
  bounded, and a console server that cannot start has nothing left to do.
* `FrameParser`: with four byte values, two of them the SOF, every field can
  look like a SOF and noise meets good checksums; lengths above `MaxLen` occur in
  damaged frames. The reads return nothing, one byte, two, part of a frame, or all.
* Symmetry is not used: the instances are small, and most runs check liveness.
* `ControlPanel`: three acts are a change, a start or a second change before the
  first has arrived, and something against both (a stop, ESTOP, a reload). Two
  handlers overlap; clicks on tabs, and the link that comes and goes, have no bound. `First`
  is either channel, as both are alike. `MaxFreq` 2 has a
  value at each end of the range.

### Fairness, and why the code justifies it

* `AppState`: a call that has begun goes on (the lock is held for a few
  statements); the handler of an open tab sends every 0.2 s. No fairness for
  calls, connecting, disconnecting.
* `ConsoleTail`: the thread is a `while True`. Strong fairness of `Opened` says
  that another program does not hold the port for ever; of `Receive` that a
  board that is on sends now and then; of `Tick` that 5 s of silence pass.
* `DiceLink`: both threads go on; strong fairness of run()'s sends: it gets a
  lock that is free again and again; of `Open`, as above; of `PingDue`, `McuBadge` and
  `OnFrames(rx)`, that 0.5 s and 1 s pass and what has arrived is read. It
  assumes that a write does not block for ever (there is no `write_timeout`).
* `FwUpdate`: downloads and JLink.exe have time-outs (60 s, 300 s), so a thread
  goes on. Nothing is assumed of probes and people.
* `ServerLife`: time passes, the event loop, the watch and each update's thread
  and batch process go on, and an open tab reconnects (every 2 s): downloads,
  git and pip have time-outs. Nothing is assumed of users and scripts.
  A user who starts the old exe again during the update and keeps a tab open
  also keeps the batch file waiting, so `UpdateLands` makes an exception of it.
* `ControlPanel`: timers fire and the event loop goes on; the fetches of one page
  are not held up for ever. Nothing is assumed of the user and of the link.

## 4. Proofs

For all values of the constants that satisfy the modules' assumptions (finite
sets of ports where ranks are compared and of tabs where they are counted,
positive bounds, the setting of a fresh page among the settings, `None` not
among the values it stands beside; the assumptions are named and TLC evaluates
them on each run). Every state invariant and action property of the passing runs
is a theorem.

**`AppStateProofs`.** `TypeCorrect`, then `FeedInvariant`: `FeedInv` is
inductive. `NothingSkipped` alone is not: that a cursor can stand for all items
below it needs that numbers grow along the deque and along everything ever
recorded (`Numbered`), and that a deque holds exactly the newest items
(`StoreIsNewest`); `ReportsFollowPanel` needs that nothing knows of a badge
newer than the one in the store (`KnowsPast`). From it follow `NoItemSkipped`,
`PanelFirst` and, as an action property, `DeltasInOrder`: what `After` returns
has numbers above the cursor, and what was sent lies below it.

**`AppStateHistoryProofs`** builds on `FeedInvariant`. `LogTheorem`: what is
missing from a log file is what threads are between append and write with, so
`LogInv` follows the set `Writing` of these threads, finite even if `Threads`
is not. `HistoryTheorem`: that two reports of a badge fit together is not
inductive, as a report is made in three steps. `Linked` says what the timeline
has been told so far (`Told`: the old state of the change its owner is about to
report, else the badge itself), and `OwnReports` that nobody but the owner has
such a change. `FeedImplemented`: `AppState` implements `LiveFeed`. A cursor,
a number that all deques share, stands for the first items of each kind, and
only for those (`Prefixes`); so the number of items up to the cursor is
`LiveFeed`'s `upto`, a snapshot maps to `Connect`, a delta to `Delta` (the items
beyond the cursor that the deque still has), the append to `Publish`, and every
other step to a stutter.

**`ConsoleTailProofs`.** `SelectionTheorem`, `BadgeTheorem`, `FixedTheorem`. The
strengthening follows a selection through the thread: a port that was chosen
while `manual` had its present value is right, and if `manual` changed since
then `selecting` or `forceNew` tells so, because `Start` reads the generation
*before* the candidates. `ConsoleTypes` comes with it. `NoTornTheorem` has an
invariant of its own (`LineInv`): the line buffer outlives a session, but no
part of an earlier one is in it while a port is held, because the thread gets
there only through `Opened`.

**`DiceLinkProofs`.** `LinkTypes`, `NumberedTheorem`, `NoNewsTheorem`. The number
of a frame follows from the lock: it is held exactly while `/api/cmd` is
inside `send` (`Holds`), and `self.seq` is one more than the number of the last
frame but between that send's write and its count (`Numbering`). What the
panel shows is followed along `run()` and the five statements after a loss
(`Showing`), because they take the news back before `ser` is None. Nothing is assumed of the modulus but that it exceeds 1.

**`FrameParserProofs`.** `ParserTypes`, `FramesAreReal`. `ParserInv`: what is kept
is the end of what was read since the opening (`Suffix`), each frame found
lies in the part before it, with a good CRC (`AllGenuine`), and frames do not
overlap (`Apart`). `Crc` may be any operator, so nothing depends on the
polynomial.
`NoIntactFrameLost`: `NoneLost` says of the bytes gone from the buffer that an
intact frame that began there was returned or overlaps one that was;
`IntactFramesFound` follows because the buffer is shorter than the longest frame
between two reads. `ChunksTheorem`: `ChunksDoNotMatter` speaks of the moments
between two reads only. `DecodeInv` holds in the middle of the loop as well, and
looks ahead: what was returned, followed by what the reference finds from the
start of the buffer on, is what it finds from the opening on, for *every* number
of bytes that may have been read by then. Each iteration of the loop then is one
step of the reference (`SkipKeepsDecode` and its neighbours), and between two reads the
buffer has no frame. That the reference is defined at all, that its values are
sequences of frames, and that it finds the same in the buffer as in the stream
(`FoundShift`), are inductions over the stream: each takes the last place
where it would fail.

**`FwUpdateProofs`.** `FwInv` has the lock as mutual exclusion (`Mutex`), the
phases that go with each stage (`Phases`) and what the timeline and the board
have in common (`Flashing`): from the announcement of a flash to its result the
last event names it, and behind a success there is no JLink.exe without a
server. From it `PhaseTheorem`, `SuccessTheorem`, `OneJLinkTheorem` and the
action property `AnnouncedTheorem`.

**`ServerLifeProofs`.** `LifeTypes`: `clients` counts each live tab and each
socket whose end has not been noticed, once (`Counted`), so it cannot go below 0
and is 0 only when nobody is there. `ExitTheorem`, an action property: `zero`,
the ticks that the watch believes to have passed since it saw nobody, never
exceeds `quiet`, those that have (`Patient`); and of all steps after which the
server is down only the watch's own is none of the user's and none of an
update's (`WhoEnds`). `ProgramTheorem`: `ExeInv` follows one update of the exe
from its download through the lines of its batch file (`OneUpdate`): nobody else
is between two of these steps, so what `Move` puts in place is there and
nothing deletes it, also when the process ends or another one begins. A failed
move ends the update with `exe.new` in its place, and no download can remove that,
as nothing runs any more (`Missing`).
`overlap` stays the exception that section 3 describes.

**`ControlPanelProofs`.** The steps that change the queue are reduced to one
form first (`Moved`: the first request may be gone, one may have come in
behind). `PanelTypes`. `Orderly`: a handler waits for one request at most, for
a waveform it has still to get accepted or for its start. `PrevailsTheorem`:
`PanelPrevails` is not inductive, because a waveform of nobody, left by a reload,
may be refused and nobody takes note; `OwedInv` adds that the last waveform, if any, on
its way of a channel that is owed has a handler that waits for it (`Settled`).
`StartsTheorem`: `StartInv` follows a channel to be started: its waveform is
still to be sent, or is on its way and everything behind it was shown
(`Behind`), or everything was (`Done`), or the start itself is on its way and
everything before it was shown (`Before`); all of this for the channels that were
`asked` for, not for one that `selCh` has moved to; `Shown` says that what comes in
meanwhile was shown, as long as any handler has a start in mind. Both hold
for any number of handlers that overlap.

**Only model-checked.** All liveness, as fairness and ENABLED are out of reach of
the prover: `EventuallyShown` and `EventuallyLogged`; `ManualHonoured` and
`AutoFindsData`; `LinkComesBack`, `McuBadgeTells`, `NewVersionShown` and
`CommandsAnswered`; `UpdatesEnd`; `EndsWithTabs` and `UpdateLands`;
`SettingsArrive`. The five disagreements with the documents are counterexamples
of TLC.

## 5. Not modelled

* `crc16_ccitt` (any operator can take its place in `FrameParser`),
  `parse_status` and `parse_event`, which pick fields out of a payload.
* A second tab, or a script, that sends commands beside the control panel.
* git's own locks when two pulls meet; a `run.bat` that a pull replaces while
  cmd is reading it; the two processes that start at the same moment and both
  find the port free (`main` probes, uvicorn binds later).
* Crashes within the store: between append and log line. Exits are modelled
  where they matter most, in `FwUpdate` and `ServerLife`.
* `ports.py` beyond the choice of the DICE port (queries of the operating system:
  the sets `plugged`), paths,
  versions, launchers, rendering, build scripts.
* Texts, measured values, formats of frames and log lines.
* `Thread.start` failing, and exceptions other than those the code catches or
  is known to raise.

## 6. Plan

Done, in this order: `AppState` with `LiveFeed` (everything else reports
through it), `ConsoleTail`, `DiceLink`, `FwUpdate`, `ServerLife`, `ControlPanel`,
`FrameParser`, with their runs; then the git updates and the two other ways to
run in `ServerLife`, settings that cannot be packed in `ControlPanel`. Proofs of
`AppState`, `ConsoleTail`, `FwUpdate`, `DiceLink`, and of all frames of
`FrameParser` being real; then the logs, the badges' histories and the refinement
of `LiveFeed`, the rest of `FrameParser`, `ServerLife` and `ControlPanel`.

Next modules:

1. A crash and restart of `AppState`: what a tab is told that the log does not
   have, and cursors of tabs that come back to a new process.
2. `FwUpdate` composed with the exit watch of `ServerLife`, instead of an
   arbitrary `Exit`.
3. A second tab beside `ControlPanel`.

Next theorems:

1. What liveness rests on, as far as it is safety: that no wait in `ServerLife` and
   `FwUpdate` is for something that cannot come any more (for instance, that a
   batch process that waits has a new exe to move, for the updates of a checkout
   as well).
2. `FwUpdate` against a specification of one update at a time, without threads and
   lock.
3. `ConsoleTail`: every candidate has its turn within one round of the rotation.

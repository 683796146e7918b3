----------------------------- MODULE ServerLife -----------------------------
(***************************************************************************)
(* The life of the server process: it starts, counts the browser tabs on   *)
(* its websocket, ends by itself when they are gone (_auto_exit_watch and  *)
(* ws of server/app.py), and replaces its own program                      *)
(* (server/self_update.py; the update button of static/app.js).            *)
(*                                                                         *)
(* It runs in one of three ways: "exe", the windowless exe, updated from a *)
(* release by _UPDATER_BAT; "hidden", pythonw on a git checkout, restarted *)
(* by _dice_restart.bat; "console", python on a git checkout in the loop   *)
(* of run.bat.  The console does not end by itself.                        *)
(*                                                                         *)
(* Time passes in ticks of the 2 s that the watch sleeps.  The tabs, the   *)
(* scripts, the user, git, pip and Windows are the environment.            *)
(***************************************************************************)
EXTENDS Integers, FiniteSets

CONSTANTS
  Modes,     \* ways to run that are looked at
  Tabs,      \* browser tabs
  Updates,   \* requests to update, each with the batch process it starts
  Grace,     \* 10 s in ticks
  Orphan,    \* 180 s in ticks
  MaxGone,   \* bound: websockets gone that their handlers have not noticed
  MaxActs,   \* bound: how often the user starts or closes the program
  None

ASSUME LifeAssumption ==
  /\ Modes \subseteq {"exe", "hidden", "console"}
  /\ Grace \in Nat /\ Orphan \in Nat /\ Grace < Orphan
  /\ MaxGone \in Nat /\ MaxActs \in Nat
  /\ IsFiniteSet(Tabs)
  /\ None \notin Nat

VARIABLES
  mode,    \* how the program runs
  server,  \* version of the program that runs, or "down"
  program, \* version of the exe or the checkout on disk; "cut": half an exe;
           \* "none": deleted; "lost": deleted, and the move has failed
  new,     \* exe.new: none, whole or cut
  deps,    \* the packages that the checkout requires are installed
  bat,     \* the batch file that starts the program again is there
  helper,  \* where the batch process of each update is
  tab,     \* each tab: closed, lost (not connected, tries again), live
  clients, \* _ws_clients
  gone,    \* how many of them have lost their tab
  had,     \* _had_client
  zero,    \* ticks since zero_since, or None
  idle,    \* ticks since _last_activity
  due,     \* the watch has slept its 2 s
  quiet,   \* history: ticks since the watch last saw a client
  script,  \* a script is at work that uses the REST API
  upd,     \* where each update is in apply
  acts,    \* how often the user has started or closed the program
  overlap  \* history: an update was begun while the batch process of an
           \* earlier server was at work

disk == <<mode, program, new, deps, bat>>
tabs == <<tab, clients, gone, had>>
watch == <<zero, due, quiet>>
updates == <<upd, helper, overlap>>
vars == <<server, disk, tabs, watch, idle, script, acts, updates>>

Up == server # "down"

\* WINDOWLESS
Windowless == mode # "console"

\* A process begins: module variables, and _last_activity = time.time().
Fresh ==
  /\ clients' = 0 /\ gone' = 0 /\ had' = FALSE
  /\ zero' = None /\ due' = FALSE /\ quiet' = 0
  /\ idle' = 0
  /\ upd' = [u \in Updates |-> "none"]

Init ==
  /\ mode \in Modes
  /\ server = "old" /\ program = "old"
  /\ new = "none" /\ deps = TRUE
  /\ bat = (mode = "console")
  /\ helper = [u \in Updates |-> "none"]
  /\ tab = [t \in Tabs |-> "closed"]
  /\ clients = 0 /\ gone = 0 /\ had = FALSE
  /\ zero = None /\ due = FALSE /\ quiet = 0
  /\ idle = 0
  /\ script = FALSE
  /\ upd = [u \in Updates |-> "none"]
  /\ acts = 0
  /\ overlap = FALSE

-----------------------------------------------------------------------------
(* Browser and scripts.                                                    *)

\* _touch_activity: every HTTP request, no websocket.
Request == Up /\ idle' = 0

\* GET /: by the user, or opened by main() after a start.
OpenTab(t) ==
  /\ tab[t] = "closed"
  /\ Request
  /\ tab' = [tab EXCEPT ![t] = "lost"]
  /\ UNCHANGED <<server, disk, clients, gone, had, watch, script, acts, updates>>

\* connect(), again every 2 s; ws: accept, count.
Connect(t) ==
  /\ Up
  /\ tab[t] = "lost"
  /\ tab' = [tab EXCEPT ![t] = "live"]
  /\ clients' = clients + 1
  /\ had' = TRUE
  /\ UNCHANGED <<server, disk, gone, watch, idle, script, acts, updates>>

CloseTab(t) ==
  /\ tab[t] # "closed"
  /\ tab' = [tab EXCEPT ![t] = "closed"]
  /\ gone < MaxGone
  /\ gone' = IF tab[t] = "live" THEN gone + 1 ELSE gone
  /\ UNCHANGED <<server, disk, clients, had, watch, idle, script, acts, updates>>

\* Faulty variant: the count is not taken back.
HangupForgets ==
  /\ gone > 0
  /\ gone' = gone - 1
  /\ UNCHANGED <<server, disk, tab, clients, had, watch, idle, script, acts, updates>>

\* Faulty variant: taken back on the exception, and again finally.
HangupTwice ==
  /\ gone > 0
  /\ gone' = gone - 1
  /\ clients' = clients - 2
  /\ UNCHANGED <<server, disk, tab, had, watch, idle, script, acts, updates>>

\* The handler's next send fails; finally.
Hangup ==
  /\ gone > 0
  /\ gone' = gone - 1
  /\ clients' = clients - 1
  /\ UNCHANGED <<server, disk, tab, had, watch, idle, script, acts, updates>>

ScriptStarts ==
  /\ ~script /\ Request
  /\ script' = TRUE
  /\ UNCHANGED <<server, disk, tabs, watch, acts, updates>>

ScriptRequest ==
  /\ script /\ Request
  /\ UNCHANGED <<server, disk, tabs, watch, script, acts, updates>>

ScriptEnds ==
  /\ script
  /\ script' = FALSE
  /\ UNCHANGED <<server, disk, tabs, watch, idle, acts, updates>>

-----------------------------------------------------------------------------
(* _auto_exit_watch.                                                       *)

Tick ==
  /\ Windowless
  /\ ~due \/ ~Up
  /\ due' = Up
  /\ zero' = IF zero = None THEN None ELSE IF zero > Grace THEN zero ELSE zero + 1
  /\ idle' = IF idle > Orphan THEN idle ELSE idle + 1
  /\ quiet' = IF quiet > Grace THEN quiet ELSE quiet + 1
  /\ UNCHANGED <<server, disk, tabs, script, acts, updates>>

\* The process ends: every thread ends, the tabs lose their socket.
Exit ==
  /\ server' = "down"
  /\ tab' = [t \in Tabs |-> IF tab[t] = "live" THEN "lost" ELSE tab[t]]
  /\ Fresh

\* Faulty variant: zero_since is not reset.
SeesClientsKeeps ==
  /\ Up /\ due /\ clients > 0
  /\ quiet' = 0
  /\ due' = FALSE
  /\ UNCHANGED <<server, disk, tabs, zero, idle, script, acts, updates>>

SeesClients ==
  /\ Up /\ due /\ clients > 0
  /\ zero' = None
  /\ quiet' = 0
  /\ due' = FALSE
  /\ UNCHANGED <<server, disk, tabs, idle, script, acts, updates>>

Since == IF zero = None THEN 0 ELSE zero

\* The last tab is gone, or none ever came.
TabsGone == had /\ Since > Grace /\ idle > Grace
NeverCame == ~had /\ idle > Orphan

SeesNone ==
  /\ Up /\ due /\ clients = 0
  /\ ~TabsGone /\ ~NeverCame
  /\ zero' = Since
  /\ due' = FALSE
  /\ UNCHANGED <<server, disk, tabs, quiet, idle, script, acts, updates>>

AutoExit ==
  /\ Up /\ due /\ clients = 0
  /\ TabsGone \/ NeverCame
  /\ Exit
  /\ UNCHANGED <<disk, helper, script, acts, overlap>>

\* The user closes the console, and run.bat with it.
CloseWindow ==
  /\ mode = "console" /\ Up
  /\ acts < MaxActs
  /\ acts' = acts + 1
  /\ Exit
  /\ helper' = [u \in Updates |-> "none"]
  /\ UNCHANGED <<disk, script, overlap>>

-----------------------------------------------------------------------------
(* POST /api/update/apply.                                                 *)

Step(u, from, to) ==
  /\ upd[u] = from
  /\ upd' = [upd EXCEPT ![u] = to]

Rest == UNCHANGED <<server, tabs, watch, idle, script, acts, overlap>>

\* check(): _check_release compares the program that runs with the release,
\* _check_git the checkout with its upstream.
Behind == IF mode = "exe" THEN server = "old" ELSE program = "old"

\* _apply_release goes on when there is a newer release and _applying is free;
\* _apply_git always goes on.
Apply(u) ==
  /\ helper[u] = "none"
  /\ IF mode = "exe"
     THEN Behind /\ (\A v \in Updates : upd[v] = "none") /\ Step(u, "none", "download")
     ELSE Step(u, "none", "pull")
  /\ overlap' = (overlap \/ \E v \in Updates : helper[v] # "none" /\ upd[v] = "none")

Post(u) ==
  /\ script
  /\ Request
  /\ Apply(u)
  /\ UNCHANGED <<server, disk, helper, tabs, watch, script, acts>>

\* api(path, body): fetch with no body is a GET.
Method(body) == IF body = "none" THEN "GET" ELSE "POST"

\* btn-upd-check, confirmed: api("/api/update/apply") has no body, and the
\* path has no GET route.
Click(t, u) ==
  /\ tab[t] = "live"
  /\ Behind
  /\ Request
  /\ IF Method("none") = "POST" THEN Apply(u) ELSE UNCHANGED <<upd, overlap>>
  /\ UNCHANGED <<server, disk, helper, tabs, watch, script, acts>>

\* A connection that is closed early looks like the end of the file.
Downloads(u) ==
  /\ Step(u, "download", "ready")
  /\ new' \in {"whole", "cut"}
  /\ UNCHANGED <<mode, program, deps, bat, helper>> /\ Rest

DownloadFails(u) ==
  /\ Step(u, "download", "none")
  /\ new' = "none"
  /\ UNCHANGED <<mode, program, deps, bat, helper>> /\ Rest

\* git pull: the new version may require another package.
Pull(u) ==
  /\ Step(u, "pull", "pip")
  /\ program' = "new"
  /\ deps' \in IF program = "old" THEN BOOLEAN ELSE {deps}
  /\ UNCHANGED <<mode, new, bat, helper>> /\ Rest

PullFails(u) ==
  /\ Step(u, "pull", "none")
  /\ UNCHANGED <<disk, helper>> /\ Rest

\* pip install: its result is not looked at; only a time-out raises.
Pip(u) ==
  /\ Step(u, "pip", "ready") \/ Step(u, "pip", "none")
  /\ deps' \in {deps, TRUE}
  /\ UNCHANGED <<mode, program, new, bat, helper>> /\ Rest

\* Faulty variant: does not wait for the download.
RestartEarly(u) ==
  /\ Step(u, "download", "timer") \/ Step(u, "ready", "timer")
  /\ IF Windowless
     THEN bat' = TRUE /\ helper' = [helper EXCEPT ![u] = "wait"]
     ELSE UNCHANGED <<bat, helper>>
  /\ UNCHANGED <<mode, program, new, deps>> /\ Rest

\* Faulty variant: the batch file is left to the console's loop everywhere.
RestartAlone(u) ==
  /\ Step(u, "ready", "timer")
  /\ IF mode = "exe"
     THEN bat' = TRUE /\ helper' = [helper EXCEPT ![u] = "wait"]
     ELSE UNCHANGED <<bat, helper>>
  /\ UNCHANGED <<mode, program, new, deps>> /\ Rest

\* A batch file is written and started; a timer ends the server.
Restart(u) ==
  /\ Step(u, "ready", "timer")
  /\ IF Windowless
     THEN bat' = TRUE /\ helper' = [helper EXCEPT ![u] = "wait"]
     ELSE UNCHANGED <<bat, helper>>
  /\ UNCHANGED <<mode, program, new, deps>> /\ Rest

\* The timer.  In the console, run.bat sees RESTART_EXIT_CODE and starts over.
UpdateExit(u) ==
  /\ upd[u] = "timer"
  /\ Exit
  /\ helper' = IF Windowless THEN helper ELSE [helper EXCEPT ![u] = "start"]
  /\ UNCHANGED <<disk, script, acts, overlap>>

-----------------------------------------------------------------------------
(* The batch files, which cmd reads line by line.                          *)

Line(u, from, to) ==
  /\ helper[u] = from
  /\ bat
  /\ helper' = [helper EXCEPT ![u] = to]

\* Faulty variant: goes on when the exe cannot be deleted.
DelOnce(u) ==
  /\ mode = "exe"
  /\ Line(u, "wait", "move")
  /\ program' = IF Up THEN program ELSE "none"
  /\ UNCHANGED <<mode, new, deps, bat, upd>> /\ Rest

\* _UPDATER_BAT: del, until it works: not while the exe runs.
Del(u) ==
  /\ mode = "exe" /\ ~Up
  /\ Line(u, "wait", "move")
  /\ program' = "none"
  /\ UNCHANGED <<mode, new, deps, bat, upd>> /\ Rest

\* move: without exe.new, nothing; it may be refused as well (a virus scanner
\* holds the file).  Its errorlevel is not looked at.
Move(u) ==
  /\ Line(u, "move", "start")
  /\ \/ /\ new # "none" /\ ~Up
        /\ program' = (IF new = "cut" THEN "cut" ELSE "new")
        /\ new' = "none"
     \/ /\ program' = (IF program = "none" THEN "lost" ELSE program)
        /\ UNCHANGED new
  /\ UNCHANGED <<mode, deps, bat, upd>> /\ Rest

\* _dice_restart.bat waits 3 s; the timer takes 1 s.
Pause(u) ==
  /\ mode = "hidden" /\ upd[u] # "timer"
  /\ Line(u, "wait", "start")
  /\ UNCHANGED <<disk, upd>> /\ Rest

\* main(): with a server on the port it only opens the browser.
Main ==
  IF ~Up /\ program \in {"old", "new"} /\ deps
  THEN server' = program /\ Fresh
  ELSE UNCHANGED <<server, clients, gone, had, watch, idle, upd>>

\* start; the last line deletes a file that was generated.
Start(u) ==
  /\ Line(u, "start", "none")
  /\ Main
  /\ bat' = ~Windowless
  /\ UNCHANGED <<mode, program, new, deps, tab, script, acts, overlap>>

\* A batch process whose file is gone.
Stray(u) ==
  /\ helper[u] # "none" /\ ~bat
  /\ helper' = [helper EXCEPT ![u] = "none"]
  /\ UNCHANGED <<disk, upd>> /\ Rest

\* The user starts the program.
UserStarts ==
  /\ ~Up
  /\ acts < MaxActs
  /\ acts' = acts + 1
  /\ Main
  /\ UNCHANGED <<disk, helper, tab, script, overlap>>

-----------------------------------------------------------------------------
Environment ==
  \/ \E t \in Tabs : OpenTab(t) \/ CloseTab(t)
  \/ \E u \in Updates : Post(u) \/ \E t \in Tabs : Click(t, u)
  \/ ScriptStarts \/ ScriptRequest \/ ScriptEnds
  \/ UserStarts \/ CloseWindow

Watching == Windowless /\ (SeesClients \/ SeesNone \/ AutoExit)

Updating(u) ==
  \/ Downloads(u) \/ DownloadFails(u) \/ Pull(u) \/ PullFails(u) \/ Pip(u)
  \/ Restart(u) \/ UpdateExit(u)

Batch(u) == Del(u) \/ Move(u) \/ Pause(u) \/ Start(u) \/ Stray(u)

Next ==
  \/ Environment
  \/ \E t \in Tabs : Connect(t)
  \/ Hangup \/ Tick \/ Watching
  \/ \E u \in Updates : Updating(u) \/ Batch(u)

Spec == Init /\ [][Next]_vars

\* Time passes, the event loop and the threads go on, cmd goes on.
FairSpec ==
  /\ Spec
  /\ \A t \in Tabs : WF_vars(Connect(t))
  /\ WF_vars(Hangup) /\ WF_vars(Tick) /\ WF_vars(Watching)
  /\ \A u \in Updates : WF_vars(Updating(u)) /\ WF_vars(Batch(u))

-----------------------------------------------------------------------------
(* What the code promises.                                                 *)

TypeOK ==
  /\ mode \in Modes
  /\ server \in {"old", "new", "down"} /\ program \in {"old", "new", "cut", "none", "lost"}
  /\ new \in {"none", "whole", "cut"} /\ deps \in BOOLEAN /\ bat \in BOOLEAN
  /\ helper \in [Updates -> {"none", "wait", "move", "start"}]
  /\ tab \in [Tabs -> {"closed", "lost", "live"}]
  /\ clients \in Nat /\ gone \in 0 .. MaxGone /\ had \in BOOLEAN
  /\ zero \in {None} \cup 0 .. Grace + 1 /\ idle \in 0 .. Orphan + 1
  /\ quiet \in 0 .. Grace + 1 /\ due \in BOOLEAN
  /\ script \in BOOLEAN
  /\ upd \in [Updates -> {"none", "download", "pull", "pip", "ready", "timer"}]
  /\ acts \in 0 .. MaxActs
  /\ overlap \in BOOLEAN

\* The server does not leave a tab that is connected, nor one that was there at
\* any look of the last 10 s; only an update does, and in the console the user.
ExitsAlone ==
  [][Up /\ server' = "down" /\ ~CloseWindow /\ (\A u \in Updates : upd[u] # "timer") =>
       /\ Windowless
       /\ \A t \in Tabs : tab[t] # "live"
       /\ quiet > Grace \/ ~had]_vars

\* The exe is missing only while the batch file is about to put it back, or its
\* move has failed, and then what it would have put there is still on the disk;
\* if no update was begun while the batch file of another one waited.
ProgramStays ==
  program \in {"none", "lost"} /\ ~overlap =>
    /\ new # "none"
    /\ program = "none" => bat /\ \E u \in Updates : helper[u] = "move"

\* When the user and the scripts have gone, a server without a console ends.
EndsWithTabs ==
  Windowless /\ <>[]((\A t \in Tabs : tab[t] = "closed") /\ ~script)
    => <>[](server = "down")

\* What was downloaded is whole, what was pulled has its packages.
Usable == IF mode = "exe" THEN new = "whole" ELSE deps

\* An update that got as far as its restart ends with the new program, one or
\* several requests at a time, unless what it installs is not usable, the move
\* fails, the user interferes, or another update is begun before its batch file
\* is through.
UpdateLands ==
  \A n \in 0 .. MaxActs :
    ((\E u \in Updates : upd[u] = "timer") /\ Usable /\ acts = n)
      ~> (program = "new" /\ server = "new") \/ program = "lost" \/ acts > n \/ overlap

\* README.md: the exe is replaced by the new one that was downloaded.
ReplacedByProgram == program # "cut"
=============================================================================

-------------------------- MODULE ServerLifeProofs --------------------------
(***************************************************************************)
(* Proofs about ServerLife, for any number of tabs and of updates at a     *)
(* time, any grace and any mode.                                           *)
(***************************************************************************)
EXTENDS ServerLife, FiniteSetTheorems, TLAPS

\* The environment, the server and the batch files, one action at a time.
LEMMA Cases ==
  ASSUME [Next]_vars
  PROVE  \/ \E t \in Tabs : OpenTab(t) \/ CloseTab(t) \/ Connect(t)
         \/ \E u \in Updates : Post(u) \/ \E t \in Tabs : Click(t, u)
         \/ ScriptStarts \/ ScriptRequest \/ ScriptEnds
         \/ UserStarts \/ CloseWindow \/ Hangup \/ Tick
         \/ Windowless /\ (SeesClients \/ SeesNone \/ AutoExit)
         \/ \E u \in Updates :
              \/ Downloads(u) \/ DownloadFails(u) \/ Pull(u) \/ PullFails(u) \/ Pip(u)
              \/ Restart(u) \/ UpdateExit(u)
              \/ Del(u) \/ Move(u) \/ Pause(u) \/ Start(u) \/ Stray(u)
         \/ UNCHANGED vars
BY DEF Next, Environment, Watching, Updating, Batch

-----------------------------------------------------------------------------
(* Types.  clients is a natural number because each websocket that is      *)
(* counted has a tab or a handler that has not noticed yet.                *)

Live == {t \in Tabs : tab[t] = "live"}

Counted ==
  /\ clients = gone + Cardinality(Live)
  /\ Up \/ clients = 0

LEMMA LiveFinite == IsFiniteSet(Live) /\ Cardinality(Live) \in Nat
<1>1. Live \in SUBSET Tabs
  BY DEF Live
<1> QED
  BY <1>1, LifeAssumption, FS_Subset, FS_CardinalityType

\* When the server is down no tab is connected.
LEMMA NobodyLive ==
  ASSUME TypeOK, Counted, clients = 0
  PROVE  gone = 0 /\ \A t \in Tabs : tab[t] # "live"
<1>1. gone = 0 /\ Cardinality(Live) = 0
  BY LiveFinite DEF TypeOK, Counted
<1>2. Live = {}
  BY <1>1, LiveFinite, FS_EmptySet
<1> QED
  BY <1>1, <1>2 DEF Live

TypeInv == TypeOK /\ Counted

\* A process begins or ends.
LEMMA FreshCounts ==
  ASSUME TypeOK, Fresh, \A t \in Tabs : tab'[t] # "live"
  PROVE  /\ Counted'
         /\ clients' \in Nat /\ gone' \in 0 .. MaxGone /\ had' \in BOOLEAN
         /\ zero' \in {None} \cup 0 .. Grace + 1 /\ idle' \in 0 .. Orphan + 1
         /\ quiet' \in 0 .. Grace + 1 /\ due' \in BOOLEAN
         /\ upd' \in [Updates -> {"none", "download", "pull", "pip", "ready", "timer"}]
<1>1. Live' = {}
  BY DEF Live
<1>2. Cardinality(Live') = 0
  BY <1>1, FS_EmptySet
<1>3. Grace \in Nat /\ Orphan \in Nat /\ MaxGone \in Nat
  BY LifeAssumption
<1>4. clients' = 0 /\ gone' = 0
  BY DEF Fresh
<1>5. Counted'
  <2>1. Cardinality(Live)' = 0
    BY <1>2
  <2> QED
    BY <1>4, <2>1 DEF Counted
<1>6. /\ had' \in BOOLEAN /\ due' \in BOOLEAN
      /\ upd' \in [Updates -> {"none", "download", "pull", "pip", "ready", "timer"}]
  BY DEF Fresh
<1>7. zero' = None /\ idle' = 0 /\ quiet' = 0
  BY DEF Fresh
<1>8. 0 \in 0 .. Orphan + 1 /\ 0 \in 0 .. Grace + 1 /\ 0 \in 0 .. MaxGone /\ 0 \in Nat
  BY <1>3
<1> QED
  BY <1>4, <1>5, <1>6, <1>7, <1>8

LEMMA ExitTypes ==
  ASSUME TypeInv, Exit, UNCHANGED <<disk, script, overlap>>,
         acts' \in 0 .. MaxActs, helper' \in [Updates -> {"none", "wait", "move", "start"}]
  PROVE  TypeInv'
<1>1. \A t \in Tabs : tab'[t] # "live"
  BY DEF Exit
<1>2. tab' \in [Tabs -> {"closed", "lost", "live"}]
  BY DEF Exit, TypeInv, TypeOK
<1>3. server' = "down"
  BY DEF Exit
<1> QED
  BY <1>1, <1>2, <1>3, FreshCounts DEF Exit, TypeInv, TypeOK, disk

LEMMA MainTypes ==
  ASSUME TypeInv, Main, UNCHANGED <<mode, program, new, deps, tab, script, overlap>>,
         acts' \in 0 .. MaxActs, bat' \in BOOLEAN,
         helper' \in [Updates -> {"none", "wait", "move", "start"}]
  PROVE  TypeInv'
<1>1. CASE ~Up /\ server' = program /\ program \in {"old", "new"} /\ Fresh
  <2>1. \A t \in Tabs : tab'[t] # "live"
    BY <1>1, NobodyLive DEF TypeInv, Counted
  <2> QED
    BY <1>1, <2>1, FreshCounts DEF TypeInv, TypeOK
<1>2. CASE UNCHANGED <<server, clients, gone, had, watch, idle, upd>>
  <2>1. TypeOK'
    BY <1>2 DEF TypeInv, TypeOK, watch
  <2>2. Counted'
    BY <1>2 DEF TypeInv, Counted, Live, Up
  <2> QED
    BY <2>1, <2>2 DEF TypeInv
<1> QED
  BY <1>1, <1>2 DEF Main

LEMMA TypeInit == Init => TypeInv
<1> SUFFICES ASSUME Init PROVE TypeInv
  OBVIOUS
<1>1. TypeOK
  <2>1. Grace \in Nat /\ Orphan \in Nat /\ MaxGone \in Nat /\ MaxActs \in Nat
    BY LifeAssumption
  <2>2. /\ clients \in Nat /\ gone \in 0 .. MaxGone /\ quiet \in 0 .. Grace + 1
        /\ zero \in {None} \cup 0 .. Grace + 1 /\ idle \in 0 .. Orphan + 1
        /\ acts \in 0 .. MaxActs
    BY <2>1 DEF Init
  <2>3. /\ helper \in [Updates -> {"none", "wait", "move", "start"}]
        /\ tab \in [Tabs -> {"closed", "lost", "live"}]
        /\ upd \in [Updates -> {"none", "download", "pull", "pip", "ready", "timer"}]
    BY DEF Init
  <2>4. /\ mode \in Modes /\ server = "old" /\ program = "old" /\ new = "none"
        /\ deps \in BOOLEAN /\ had \in BOOLEAN /\ due \in BOOLEAN
        /\ script \in BOOLEAN /\ overlap \in BOOLEAN
    BY DEF Init
  <2>5. bat \in BOOLEAN
    BY DEF Init
  <2> QED
    BY <2>2, <2>3, <2>4, <2>5 DEF TypeOK
<1>2. Live = {}
  BY DEF Init, Live
<1>3. Cardinality(Live) = 0
  BY <1>2, FS_EmptySet
<1> QED
  BY <1>1, <1>3 DEF Init, TypeInv, Counted, Up

LEMMA TypeStep == TypeInv /\ [Next]_vars => TypeInv'
<1> SUFFICES ASSUME TypeInv, [Next]_vars PROVE TypeInv'
  OBVIOUS
<1> USE DEF TypeInv
<1>0. Grace \in Nat /\ Orphan \in Nat /\ MaxGone \in Nat /\ MaxActs \in Nat /\ None \notin Nat
  BY LifeAssumption
<1>1. ASSUME NEW t \in Tabs, OpenTab(t) PROVE TypeInv'
  <2>1. tab[t] = "closed" /\ tab' = [tab EXCEPT ![t] = "lost"] /\ idle' = 0
    BY <1>1 DEF OpenTab, Request
  <2>2. UNCHANGED <<server, disk, clients, gone, had, watch, script, acts, updates>>
    BY <1>1 DEF OpenTab
  <2>3. Live' = Live
    BY <2>1 DEF Live, TypeOK
  <2>4. TypeOK'
    BY <1>0, <2>1, <2>2 DEF TypeOK, disk, watch, updates
  <2> QED
    BY <2>2, <2>3, <2>4 DEF Counted, Up
<1>2. ASSUME NEW t \in Tabs, CloseTab(t) PROVE TypeInv'
  <2>1. /\ tab' = [tab EXCEPT ![t] = "closed"] /\ gone < MaxGone
        /\ gone' = IF tab[t] = "live" THEN gone + 1 ELSE gone
    BY <1>2 DEF CloseTab
  <2>2. UNCHANGED <<server, disk, clients, had, watch, idle, script, acts, updates>>
    BY <1>2 DEF CloseTab
  <2>3. TypeOK'
    BY <1>0, <2>1, <2>2 DEF TypeOK, disk, watch, updates
  <2>4. CASE tab[t] = "live"
    <3>1. t \in Live /\ Live' = Live \ {t}
      BY <2>1, <2>4 DEF Live, TypeOK
    <3>2. Cardinality(Live \ {t}) = Cardinality(Live) - 1
      BY <3>1, LiveFinite, FS_RemoveElement
    <3>3. Cardinality(Live)' = Cardinality(Live) - 1
      BY <3>1, <3>2
    <3>4. gone' + (Cardinality(Live) - 1) = gone + Cardinality(Live)
      BY <2>1, <2>4, LiveFinite DEF TypeOK
    <3> QED
      BY <2>2, <2>3, <3>3, <3>4 DEF Counted, Up
  <2>5. CASE tab[t] # "live"
    <3>1. Live' = Live
      BY <2>1, <2>5 DEF Live, TypeOK
    <3> QED
      BY <2>1, <2>2, <2>3, <2>5, <3>1 DEF Counted, Up
  <2> QED
    BY <2>4, <2>5
<1>3. ASSUME NEW t \in Tabs, Connect(t) PROVE TypeInv'
  <2>1. /\ tab[t] = "lost" /\ tab' = [tab EXCEPT ![t] = "live"] /\ Up
        /\ clients' = clients + 1 /\ had' = TRUE
    BY <1>3 DEF Connect
  <2>2. UNCHANGED <<server, disk, gone, watch, idle, script, acts, updates>>
    BY <1>3 DEF Connect
  <2>3. TypeOK'
    BY <1>0, <2>1, <2>2 DEF TypeOK, disk, watch, updates
  <2>4. t \notin Live /\ Live' = Live \cup {t}
    BY <2>1 DEF Live, TypeOK
  <2>5. Cardinality(Live \cup {t}) = Cardinality(Live) + 1
    BY <2>4, LiveFinite, FS_AddElement
  <2>6. Cardinality(Live)' = Cardinality(Live) + 1
    BY <2>4, <2>5
  <2>7. clients' = gone + (Cardinality(Live) + 1)
    BY <2>1, LiveFinite DEF TypeOK, Counted
  <2> QED
    BY <2>1, <2>2, <2>3, <2>6, <2>7 DEF Counted, Up
<1>4. CASE Hangup
  <2>1. gone > 0 /\ gone' = gone - 1 /\ clients' = clients - 1
    BY <1>4 DEF Hangup
  <2>2. UNCHANGED <<server, disk, tab, had, watch, idle, script, acts, updates>>
    BY <1>4 DEF Hangup
  <2>3. clients' = gone' + Cardinality(Live) /\ gone' \in 0 .. MaxGone /\ clients' \in Nat
    BY <1>0, <2>1, LiveFinite DEF TypeOK, Counted
  <2>4. Up
    BY <2>1, NobodyLive DEF Counted, TypeOK
  <2>5. TypeOK'
    BY <1>0, <2>2, <2>3 DEF TypeOK, disk, watch, updates
  <2>6. Live' = Live
    BY <2>2 DEF Live
  <2> QED
    BY <2>2, <2>3, <2>4, <2>5, <2>6 DEF Counted, Up
<1>5. CASE UserStarts
  <2>1. acts' \in 0 .. MaxActs
    BY <1>0, <1>5 DEF UserStarts, TypeOK
  <2>2. Main /\ UNCHANGED <<mode, program, new, deps, bat, helper, tab, script, overlap>>
    BY <1>5 DEF UserStarts, disk
  <2> QED
    BY <2>1, <2>2, MainTypes DEF TypeOK
<1>6. CASE CloseWindow
  <2>1. acts' \in 0 .. MaxActs
    BY <1>0, <1>6 DEF CloseWindow, TypeOK
  <2>2. helper' \in [Updates -> {"none", "wait", "move", "start"}]
    BY <1>6 DEF CloseWindow
  <2>3. Exit /\ UNCHANGED <<disk, script, overlap>>
    BY <1>6 DEF CloseWindow
  <2> QED
    BY <2>1, <2>2, <2>3, ExitTypes
<1>7. CASE AutoExit
  BY <1>7, ExitTypes DEF AutoExit, TypeOK
<1>8. ASSUME NEW u \in Updates, UpdateExit(u) PROVE TypeInv'
  <2>1. helper' \in [Updates -> {"none", "wait", "move", "start"}]
    BY <1>8 DEF UpdateExit, TypeOK
  <2> QED
    BY <1>8, <2>1, ExitTypes DEF UpdateExit, TypeOK
<1>9. ASSUME NEW u \in Updates, Start(u) PROVE TypeInv'
  <2>1. helper' \in [Updates -> {"none", "wait", "move", "start"}]
    BY <1>9 DEF Start, Line, TypeOK
  <2> QED
    BY <1>9, <2>1, MainTypes DEF Start, TypeOK

\* The other steps change neither the tabs nor the count.
<1>10. ASSUME UNCHANGED <<server, tabs>>, TypeOK' PROVE TypeInv'
  <2>1. Live' = Live
    BY <1>10 DEF Live, tabs
  <2> QED
    BY <1>10, <2>1 DEF Counted, Up, tabs
<1>11. ASSUME NEW u \in Updates, Apply(u)
       PROVE  /\ upd' \in [Updates -> {"none", "download", "pull", "pip", "ready", "timer"}]
              /\ overlap' \in BOOLEAN
  BY <1>11 DEF Apply, Step, TypeOK
<1>12. ASSUME NEW u \in Updates, Post(u) PROVE TypeInv'
  <2>1. UNCHANGED <<server, disk, helper, tabs, watch, script, acts>> /\ idle' = 0 /\ Apply(u)
    BY <1>12 DEF Post, Request
  <2>2. TypeOK'
    BY <1>0, <1>11, <2>1 DEF TypeOK, disk, tabs, watch
  <2> QED
    BY <1>10, <2>1, <2>2
<1>13. ASSUME NEW u \in Updates, NEW t \in Tabs, Click(t, u) PROVE TypeInv'
  <2>1. /\ UNCHANGED <<server, disk, helper, tabs, watch, script, acts>> /\ idle' = 0
        /\ Apply(u) \/ UNCHANGED <<upd, overlap>>
    BY <1>13 DEF Click, Request
  <2>2. TypeOK'
    BY <1>0, <1>11, <2>1 DEF TypeOK, disk, tabs, watch
  <2> QED
    BY <1>10, <2>1, <2>2
<1>14. CASE ScriptStarts \/ ScriptRequest \/ ScriptEnds
  <2>1. UNCHANGED <<server, disk, tabs, watch, acts, updates>>
    BY <1>14 DEF ScriptStarts, ScriptRequest, ScriptEnds
  <2>2. idle' \in 0 .. Orphan + 1
    BY <1>0, <1>14 DEF ScriptStarts, ScriptRequest, ScriptEnds, Request, TypeOK
  <2>3. script' \in BOOLEAN
    BY <1>14 DEF ScriptStarts, ScriptRequest, ScriptEnds, TypeOK
  <2>4. TypeOK'
    BY <2>1, <2>2, <2>3 DEF TypeOK, disk, tabs, watch, updates
  <2> QED
    BY <1>10, <2>1, <2>4
<1>15. CASE Tick
  <2>1. UNCHANGED <<server, disk, tabs, script, acts, updates>>
    BY <1>15 DEF Tick
  <2>2. zero' \in {None} \cup 0 .. Grace + 1
    BY <1>0, <1>15 DEF Tick, TypeOK
  <2>3. idle' \in 0 .. Orphan + 1 /\ quiet' \in 0 .. Grace + 1 /\ due' \in BOOLEAN
    BY <1>0, <1>15 DEF Tick, TypeOK, Up
  <2>4. TypeOK'
    BY <2>1, <2>2, <2>3 DEF TypeOK, disk, tabs, updates
  <2> QED
    BY <1>10, <2>1, <2>4
<1>16. CASE SeesClients \/ SeesNone
  <2>1. UNCHANGED <<server, disk, tabs, idle, script, acts, updates>> /\ due' = FALSE
    BY <1>16 DEF SeesClients, SeesNone
  <2>2. zero' \in {None} \cup 0 .. Grace + 1 /\ quiet' \in 0 .. Grace + 1
    BY <1>0, <1>16 DEF SeesClients, SeesNone, Since, TypeOK
  <2>3. TypeOK'
    BY <2>1, <2>2 DEF TypeOK, disk, tabs, updates
  <2> QED
    BY <1>10, <2>1, <2>3
<1>17. ASSUME NEW u \in Updates,
              \/ Downloads(u) \/ DownloadFails(u) \/ Pull(u) \/ PullFails(u) \/ Pip(u)
              \/ Restart(u)
       PROVE  TypeInv'
  <2>1. UNCHANGED <<mode, server, tabs, watch, idle, script, acts, overlap>>
    BY <1>17 DEF Downloads, DownloadFails, Pull, PullFails, Pip, Restart, Rest, disk
  <2>2. /\ upd' \in [Updates -> {"none", "download", "pull", "pip", "ready", "timer"}]
        /\ helper' \in [Updates -> {"none", "wait", "move", "start"}]
    BY <1>17 DEF Downloads, DownloadFails, Pull, PullFails, Pip, Restart, Step, TypeOK
  <2>3. /\ program' \in {"old", "new", "cut", "none", "lost"} /\ new' \in {"none", "whole", "cut"}
        /\ deps' \in BOOLEAN /\ bat' \in BOOLEAN
    BY <1>17 DEF Downloads, DownloadFails, Pull, PullFails, Pip, Restart, disk, TypeOK
  <2>4. TypeOK'
    BY <2>1, <2>2, <2>3 DEF TypeOK, tabs, watch
  <2> QED
    BY <1>10, <2>1, <2>4
<1>18. ASSUME NEW u \in Updates, Del(u) \/ Move(u) \/ Pause(u) \/ Stray(u)
       PROVE  TypeInv'
  <2>1. UNCHANGED <<mode, deps, bat, upd, server, tabs, watch, idle, script, acts, overlap>>
    BY <1>18 DEF Del, Move, Pause, Stray, Rest, disk
  <2>2. helper' \in [Updates -> {"none", "wait", "move", "start"}]
    BY <1>18 DEF Del, Move, Pause, Stray, Line, TypeOK
  <2>3. program' \in {"old", "new", "cut", "none", "lost"} /\ new' \in {"none", "whole", "cut"}
    BY <1>18 DEF Del, Move, Pause, Stray, disk, TypeOK
  <2>4. TypeOK'
    BY <2>1, <2>2, <2>3 DEF TypeOK, tabs, watch
  <2> QED
    BY <1>10, <2>1, <2>4
<1>19. CASE UNCHANGED vars
  <2>1. TypeOK'
    BY <1>19 DEF vars, TypeOK, disk, tabs, watch, updates
  <2> QED
    BY <1>10, <1>19, <2>1 DEF vars
<1> QED
  BY <1>1, <1>2, <1>3, <1>4, <1>5, <1>6, <1>7, <1>8, <1>9, <1>12, <1>13, <1>14, <1>15,
     <1>16, <1>17, <1>18, <1>19, Cases

LEMMA TypeInvariant == Spec => []TypeInv
BY TypeInit, TypeStep, PTL DEF Spec

-----------------------------------------------------------------------------
(* The clock of the watch: what it knows, it has seen.                     *)

Patient == zero # None => zero <= quiet

LEMMA PatientStep == TypeInv /\ Patient /\ [Next]_vars => Patient'
<1> SUFFICES ASSUME TypeInv, Patient, [Next]_vars PROVE Patient'
  OBVIOUS
<1>0. Grace \in Nat /\ None \notin Nat
  BY LifeAssumption
<1>1. CASE Tick
  BY <1>0, <1>1 DEF Tick, Patient, TypeInv, TypeOK
<1>2. CASE SeesNone
  BY <1>0, <1>2 DEF SeesNone, Since, Patient, TypeInv, TypeOK
<1>3. CASE SeesClients \/ Fresh
  BY <1>3 DEF SeesClients, Fresh, Patient
<1>4. CASE UNCHANGED watch
  BY <1>4 DEF watch, Patient
<1>5. ASSUME NEW t \in Tabs, OpenTab(t) \/ CloseTab(t) \/ Connect(t) PROVE Patient'
  BY <1>4, <1>5 DEF OpenTab, CloseTab, Connect
<1>6. ASSUME NEW u \in Updates, Post(u) \/ \E t \in Tabs : Click(t, u) PROVE Patient'
  BY <1>4, <1>6 DEF Post, Click
<1>7. CASE ScriptStarts \/ ScriptRequest \/ ScriptEnds \/ Hangup
  BY <1>4, <1>7 DEF ScriptStarts, ScriptRequest, ScriptEnds, Hangup
<1>8. CASE UserStarts \/ CloseWindow \/ AutoExit
  BY <1>3, <1>4, <1>8 DEF UserStarts, CloseWindow, AutoExit, Main, Exit
<1>9. ASSUME NEW u \in Updates,
             \/ Downloads(u) \/ DownloadFails(u) \/ Pull(u) \/ PullFails(u) \/ Pip(u)
             \/ Restart(u) \/ Del(u) \/ Move(u) \/ Pause(u) \/ Stray(u)
      PROVE  Patient'
  <2>1. Rest
    BY <1>9 DEF Downloads, DownloadFails, Pull, PullFails, Pip, Restart, Del, Move, Pause, Stray
  <2> QED
    BY <1>4, <2>1 DEF Rest
<1>10. ASSUME NEW u \in Updates, UpdateExit(u) \/ Start(u) PROVE Patient'
  BY <1>3, <1>4, <1>10 DEF UpdateExit, Start, Main, Exit
<1>11. CASE UNCHANGED vars
  BY <1>4, <1>11 DEF vars
<1> QED
  BY <1>1, <1>2, <1>3, <1>5, <1>6, <1>7, <1>8, <1>9, <1>10, <1>11, Cases

LEMMA PatientInvariant == Spec => []Patient
<1>1. Init => Patient
  BY DEF Init, Patient
<1> QED
  BY <1>1, PatientStep, TypeInvariant, PTL DEF Spec

\* How a server that is up may be down after a step.
LEMMA WhoEnds ==
  ASSUME [Next]_vars, Up, server' = "down"
  PROVE  \/ Windowless /\ AutoExit
         \/ CloseWindow
         \/ \E u \in Updates : upd[u] = "timer"
<1>1. CASE \E t \in Tabs : OpenTab(t) \/ CloseTab(t) \/ Connect(t)
  BY <1>1 DEF OpenTab, CloseTab, Connect, Up
<1>2. CASE \E u \in Updates : Post(u) \/ \E t \in Tabs : Click(t, u)
  BY <1>2 DEF Post, Click, Up
<1>3. CASE \/ ScriptStarts \/ ScriptRequest \/ ScriptEnds \/ Hangup \/ Tick
           \/ SeesClients \/ SeesNone
  BY <1>3 DEF ScriptStarts, ScriptRequest, ScriptEnds, Hangup, Tick, SeesClients, SeesNone, Up
<1>4. CASE UserStarts
  BY <1>4 DEF UserStarts, Main
<1>5. ASSUME NEW u \in Updates,
             \/ Downloads(u) \/ DownloadFails(u) \/ Pull(u) \/ PullFails(u) \/ Pip(u)
             \/ Restart(u) \/ Del(u) \/ Move(u) \/ Pause(u) \/ Stray(u)
      PROVE  FALSE
  <2>1. Rest
    BY <1>5 DEF Downloads, DownloadFails, Pull, PullFails, Pip, Restart, Del, Move, Pause, Stray
  <2> QED
    BY <2>1 DEF Rest, Up
<1>6. ASSUME NEW u \in Updates, Start(u) PROVE FALSE
  BY <1>6 DEF Start, Main, Up
<1>7. CASE \E u \in Updates : UpdateExit(u)
  BY <1>7 DEF UpdateExit
<1>8. CASE UNCHANGED vars
  BY <1>8 DEF vars, Up
<1> QED
  BY <1>1, <1>2, <1>3, <1>4, <1>5, <1>6, <1>7, <1>8, Cases

-----------------------------------------------------------------------------
(* The exe that is replaced.                                               *)

\* An update is being applied, or its batch process is at work.
Active(u) == upd[u] # "none" \/ helper[u] # "none"

\* One update at a time, from its download to the last line of its batch file,
\* which is there as long as it is read; what is to be moved is there, also when
\* the move has failed.
OneUpdate ==
  /\ \A u, v \in Updates : Active(u) /\ Active(v) => u = v
  /\ \A u \in Updates : helper[u] # "none" => bat
  /\ \A u \in Updates :
       upd[u] = "ready" \/ helper[u] \in {"wait", "move"} => new # "none"
  /\ \A u \in Updates : upd[u] \in {"download", "ready"} => helper[u] = "none"
  /\ \A u \in Updates : upd[u] \notin {"pull", "pip"}
  /\ program = "none" => \E u \in Updates : helper[u] = "move"
  /\ program = "lost" => new # "none" /\ \A u \in Updates : upd[u] # "download"

Missing == program \in {"none", "lost"}

ExeInv ==
  /\ Missing => mode = "exe" /\ ~Up
  /\ mode = "exe" /\ ~overlap => OneUpdate

\* A request to update, by a script or the button.
LEMMA ApplyAlone ==
  ASSUME TypeInv, ExeInv, Up, NEW u \in Updates, Apply(u),
         UNCHANGED <<disk, server, helper>>
  PROVE  ExeInv'
<1>1. ~Missing /\ (Missing' => mode' = "exe" /\ ~Up')
  BY DEF ExeInv, Missing, Up, disk
<1>2. ASSUME mode = "exe", ~overlap' PROVE OneUpdate'
  <2>1. /\ \A v \in Updates : upd[v] = "none"
        /\ upd' = [upd EXCEPT ![u] = "download"]
    BY <1>2 DEF Apply, Step
  <2>2. ~overlap /\ \A v \in Updates : helper[v] = "none"
    BY <2>1, <1>2 DEF Apply
  <2>3. /\ upd'[u] = "download"
        /\ \A v \in Updates : v # u => upd'[v] = "none"
        /\ helper' = helper /\ new' = new /\ program' = program /\ bat' = bat
    BY <2>1 DEF TypeInv, TypeOK, disk
  <2>4. OneUpdate
    BY <1>2, <2>2 DEF ExeInv
  <2>5. \A v, w \in Updates : Active(v)' /\ Active(w)' => v = w
    BY <2>2, <2>3 DEF Active
  <2>6. \A v \in Updates : upd'[v] \in {"none", "download"} /\ helper'[v] = "none"
    BY <2>2, <2>3
  <2> QED
    BY <1>1, <2>3, <2>4, <2>5, <2>6 DEF OneUpdate, Missing
<1>3. mode' = mode
  BY DEF disk
<1> QED
  BY <1>1, <1>2, <1>3 DEF ExeInv

\* An update u goes on alone.
LEMMA OneUpdateStep ==
  ASSUME TypeInv, OneUpdate, NEW u \in Updates, Active(u),
         \A v \in Updates : v # u => upd'[v] = upd[v] /\ helper'[v] = helper[v],
         helper'[u] # "none" => bat',
         upd'[u] = "ready" \/ helper'[u] \in {"wait", "move"} => new' # "none",
         upd'[u] \in {"download", "ready"} => helper'[u] = "none",
         upd'[u] \notin {"pull", "pip"},
         program' = "none" => helper'[u] = "move",
         program' = "lost" => new' # "none" /\ upd'[u] # "download"
  PROVE  OneUpdate'
<1>1. \A v \in Updates : v # u => upd[v] = "none" /\ helper[v] = "none"
  BY DEF OneUpdate, Active
<1>2. \A v \in Updates : v # u => upd'[v] = "none" /\ helper'[v] = "none"
  BY <1>1
<1>3. \A v, w \in Updates : Active(v)' /\ Active(w)' => v = w
  BY <1>2 DEF Active
<1> QED
  BY <1>2, <1>3 DEF OneUpdate

\* The process ends, or another begins: no update goes on; a batch process does.
LEMMA ExeAnew ==
  ASSUME ExeInv, UNCHANGED <<disk, overlap>>, Missing => ~Up',
         mode = "exe" => helper' = helper,
         \A u \in Updates : upd'[u] = "none" \/ upd'[u] = upd[u]
  PROVE  ExeInv'
<1>1. program' = program /\ new' = new /\ bat' = bat /\ mode' = mode
  BY DEF disk
<1>2. ASSUME mode = "exe", ~overlap' PROVE OneUpdate'
  <2>1. OneUpdate /\ helper' = helper
    BY <1>2 DEF ExeInv
  <2>2. \A u \in Updates : Active(u)' => Active(u)
    BY <2>1 DEF Active
  <2>3. \A u, v \in Updates : Active(u)' /\ Active(v)' => u = v
    BY <2>1, <2>2 DEF OneUpdate
  <2>4. \A u \in Updates :
          /\ upd'[u] = "ready" => upd[u] = "ready"
          /\ upd'[u] \in {"download", "ready"} => helper'[u] = "none"
          /\ upd'[u] \notin {"pull", "pip"}
          /\ upd'[u] = "download" => upd[u] = "download"
    BY <2>1 DEF OneUpdate
  <2> QED
    BY <1>1, <2>1, <2>3, <2>4 DEF OneUpdate
<1>3. Missing' => mode' = "exe" /\ ~Up'
  BY <1>1 DEF ExeInv, Missing
<1> QED
  BY <1>1, <1>2, <1>3 DEF ExeInv

LEMMA MainKeepsExe ==
  ASSUME Main
  PROVE  /\ Missing /\ ~Up => ~Up'
         /\ \A u \in Updates : upd'[u] = "none" \/ upd'[u] = upd[u]
<1>1. CASE ~Up /\ program \in {"old", "new"} /\ deps
  BY <1>1 DEF Main, Fresh, Missing
<1>2. CASE ~(~Up /\ program \in {"old", "new"} /\ deps)
  BY <1>2 DEF Main, Up
<1> QED
  BY <1>1, <1>2

\* apply, up to the timer.
LEMMA UpdatingKeepsExe ==
  ASSUME TypeInv, ExeInv, NEW u \in Updates,
         \/ Downloads(u) \/ DownloadFails(u) \/ Pull(u) \/ PullFails(u) \/ Pip(u)
         \/ Restart(u)
  PROVE  ExeInv'
<1>1. UNCHANGED <<mode, server, overlap>>
  BY DEF Downloads, DownloadFails, Pull, PullFails, Pip, Restart, Rest, disk
<1>2. Missing' => Missing
  BY DEF Downloads, DownloadFails, Pull, PullFails, Pip, Restart, disk, Missing
<1>3. ASSUME mode = "exe", ~overlap PROVE OneUpdate'
  <2>1. OneUpdate
    BY <1>3 DEF ExeInv
  <2>2. /\ upd[u] # "none" /\ upd' = [upd EXCEPT ![u] = upd'[u]]
        /\ \A v \in Updates : v # u => upd'[v] = upd[v]
    BY DEF Downloads, DownloadFails, Pull, PullFails, Pip, Restart, Step, TypeInv, TypeOK
  <2>3. Active(u)
    BY <2>2 DEF Active
  <2>4. upd[u] \notin {"pull", "pip"}
    BY <2>1 DEF OneUpdate
  <2>5. ~(Pull(u) \/ PullFails(u) \/ Pip(u))
    BY <2>4 DEF Pull, PullFails, Pip, Step
  <2>6. Windowless
    BY <1>3 DEF Windowless
  <2>7. CASE Downloads(u) \/ DownloadFails(u)
    <3>1. /\ upd[u] = "download" /\ helper' = helper /\ bat' = bat /\ program' = program
          /\ \/ upd'[u] = "ready" /\ new' # "none"
             \/ upd'[u] = "none"
      BY <2>7 DEF Downloads, DownloadFails, Step, TypeInv, TypeOK
    <3>2. helper[u] = "none" /\ helper'[u] = "none"
      BY <2>1, <3>1 DEF OneUpdate
    <3>3. program' # "none"
      <4>1. \A v \in Updates : helper[v] # "none" => v = u
        BY <2>1, <2>3 DEF OneUpdate, Active
      <4> QED
        BY <2>1, <3>1, <3>2, <4>1 DEF OneUpdate
    <3>4. program' # "lost"
      BY <2>1, <3>1 DEF OneUpdate
    <3> QED
      BY <2>1, <2>2, <2>3, <3>1, <3>2, <3>3, <3>4, OneUpdateStep
  <2>8. CASE Restart(u)
    <3>1. /\ upd[u] = "ready" /\ upd'[u] = "timer" /\ bat' = TRUE
          /\ helper' = [helper EXCEPT ![u] = "wait"]
          /\ new' = new /\ program' = program
      BY <2>6, <2>8 DEF Restart, Step, TypeInv, TypeOK
    <3>2. new # "none" /\ helper[u] = "none"
      BY <2>1, <3>1 DEF OneUpdate
    <3>3. helper'[u] = "wait" /\ \A v \in Updates : v # u => helper'[v] = helper[v]
      BY <3>1 DEF TypeInv, TypeOK
    <3>4. program' # "none"
      <4>1. \A v \in Updates : helper[v] # "none" => v = u
        BY <2>1, <2>3 DEF OneUpdate, Active
      <4> QED
        BY <2>1, <3>1, <3>2, <4>1 DEF OneUpdate
    <3> QED
      BY <2>1, <2>2, <2>3, <3>1, <3>2, <3>3, <3>4, OneUpdateStep
  <2> QED
    BY <2>5, <2>7, <2>8
<1> QED
  BY <1>1, <1>2, <1>3 DEF ExeInv, Up

\* The batch file.
LEMMA BatchKeepsExe ==
  ASSUME TypeInv, ExeInv, NEW u \in Updates,
         Del(u) \/ Move(u) \/ Pause(u) \/ Start(u) \/ Stray(u)
  PROVE  ExeInv'
<1>1. UNCHANGED <<mode, overlap>> /\ helper[u] # "none"
  BY DEF Del, Move, Pause, Start, Stray, Line, Rest, disk
<1>2. Missing' => mode' = "exe" /\ ~Up'
  <2>1. CASE Del(u)
    BY <2>1 DEF Del, Rest, Up
  <2>2. CASE Move(u) \/ Pause(u) \/ Stray(u)
    <3>1. (Missing' => Missing) /\ mode' = mode /\ server' = server
      BY <2>2 DEF Move, Pause, Stray, Rest, disk, Missing
    <3> QED
      BY <3>1 DEF ExeInv, Up
  <2>3. CASE Start(u)
    BY <2>3, MainKeepsExe DEF Start, ExeInv, Missing
  <2> QED
    BY <2>1, <2>2, <2>3
<1>3. ASSUME mode = "exe", ~overlap PROVE OneUpdate'
  <2>1. OneUpdate /\ Active(u) /\ bat /\ Windowless
    BY <1>1, <1>3 DEF ExeInv, OneUpdate, Active, Windowless
  <2>2. upd[u] \notin {"download", "ready", "pull", "pip"}
    BY <1>1, <2>1 DEF OneUpdate
  <2>3. \A v \in Updates : v # u => upd[v] = "none" /\ helper[v] = "none"
    BY <2>1 DEF OneUpdate, Active
  <2>4. program = "none" => helper[u] = "move"
    BY <2>1, <2>3 DEF OneUpdate
  <2>5. \A v \in Updates : v # u => helper'[v] = helper[v]
    BY DEF Del, Move, Pause, Start, Stray, Line, TypeInv, TypeOK
  <2>6. CASE Del(u)
    <3>1. /\ helper[u] = "wait" /\ helper'[u] = "move" /\ bat' = bat /\ upd' = upd
          /\ new' = new
      BY <2>6 DEF Del, Line, TypeInv, TypeOK
    <3>2. new # "none"
      BY <2>1, <3>1 DEF OneUpdate
    <3>3. program' = "none"
      BY <2>6 DEF Del
    <3> QED
      BY <2>1, <2>2, <2>5, <3>1, <3>2, <3>3, OneUpdateStep
  <2>7. CASE Move(u)
    <3>1. helper[u] = "move" /\ helper'[u] = "start" /\ bat' = bat /\ upd' = upd
      BY <2>7 DEF Move, Line, TypeInv, TypeOK
    <3>2. new # "none"
      BY <2>1, <3>1 DEF OneUpdate
    <3>3. program' # "none" /\ (program' = "lost" => new' # "none")
      BY <2>7, <3>2 DEF Move
    <3> QED
      BY <2>1, <2>2, <2>5, <3>1, <3>3, OneUpdateStep
  <2>8. ~Pause(u) /\ ~Stray(u)
    BY <1>3, <2>1 DEF Pause, Stray
  <2>9. CASE Start(u)
    <3>1. helper[u] = "start" /\ helper'[u] = "none" /\ new' = new /\ program' = program
      BY <2>9 DEF Start, Line, TypeInv, TypeOK
    <3>2. program' # "none" /\ (program' = "lost" => new' # "none")
      BY <2>1, <2>4, <3>1 DEF OneUpdate
    <3>3. \A v \in Updates : upd'[v] = "none" \/ upd'[v] = upd[v]
      BY <2>9, MainKeepsExe DEF Start
    <3>4. /\ \A v \in Updates : v # u => upd'[v] = upd[v]
          /\ upd'[u] # "download"
      BY <2>2, <2>3, <3>3
    <3> QED
      BY <2>1, <2>2, <2>5, <3>1, <3>2, <3>3, <3>4, OneUpdateStep
  <2> QED
    BY <2>6, <2>7, <2>8, <2>9
<1> QED
  BY <1>1, <1>2, <1>3 DEF ExeInv

LEMMA ExeStep == TypeInv /\ ExeInv /\ [Next]_vars => ExeInv'
<1> SUFFICES ASSUME TypeInv, ExeInv, [Next]_vars PROVE ExeInv'
  OBVIOUS
<1>1. CASE UNCHANGED <<server, disk, updates>>
  BY <1>1 DEF ExeInv, OneUpdate, Missing, Active, Up, disk, updates
<1>2. ASSUME NEW t \in Tabs, OpenTab(t) \/ CloseTab(t) \/ Connect(t) PROVE ExeInv'
  BY <1>1, <1>2 DEF OpenTab, CloseTab, Connect
<1>3. CASE \/ ScriptStarts \/ ScriptRequest \/ ScriptEnds \/ Hangup \/ Tick
           \/ SeesClients \/ SeesNone \/ UNCHANGED vars
  BY <1>1, <1>3 DEF ScriptStarts, ScriptRequest, ScriptEnds, Hangup, Tick, SeesClients,
                    SeesNone, vars
<1>4. ASSUME NEW u \in Updates, Post(u) PROVE ExeInv'
  BY <1>4, ApplyAlone DEF Post, Request
<1>5. ASSUME NEW u \in Updates, NEW t \in Tabs, Click(t, u) PROVE ExeInv'
  <2>1. UNCHANGED <<server, disk, helper>> /\ (Apply(u) \/ UNCHANGED <<upd, overlap>>) /\ Up
    BY <1>5 DEF Click, Request
  <2> QED
    BY <1>1, <2>1, ApplyAlone DEF updates
<1>6. CASE UserStarts
  <2>1. Main /\ UNCHANGED <<disk, helper, overlap>>
    BY <1>6 DEF UserStarts
  <2>2. Missing => ~Up'
    BY <2>1, MainKeepsExe DEF ExeInv
  <2> QED
    BY <2>1, <2>2, MainKeepsExe, ExeAnew
<1>7. CASE CloseWindow \/ AutoExit
  <2>1. Exit /\ UNCHANGED <<disk, overlap>> /\ (mode = "exe" => helper' = helper)
    BY <1>7 DEF CloseWindow, AutoExit
  <2> QED
    BY <2>1, ExeAnew DEF Exit, Fresh, Up
<1>8. ASSUME NEW u \in Updates, UpdateExit(u) PROVE ExeInv'
  <2>1. Exit /\ UNCHANGED <<disk, overlap>> /\ (mode = "exe" => helper' = helper)
    BY <1>8 DEF UpdateExit, Windowless
  <2> QED
    BY <2>1, ExeAnew DEF Exit, Fresh, Up
<1> QED
  BY <1>2, <1>3, <1>4, <1>5, <1>6, <1>7, <1>8, UpdatingKeepsExe, BatchKeepsExe, Cases

-----------------------------------------------------------------------------
\* clients is never negative, and never counts a websocket twice or for ever:
\* each one counted is a live tab or one whose handler has not noticed its end
\* (ws of server/app.py).
THEOREM LifeTypes == Spec => [](TypeOK /\ Counted)
BY TypeInvariant DEF TypeInv

\* The watch ends the server only when no tab is connected and none was at any
\* look of the last 10 s, or none ever came (_auto_exit_watch).
THEOREM ExitTheorem == Spec => ExitsAlone
<1>1. ASSUME TypeInv, Patient, [Next]_vars, Up, server' = "down", ~CloseWindow,
             \A u \in Updates : upd[u] # "timer"
      PROVE  Windowless /\ (\A t \in Tabs : tab[t] # "live") /\ (quiet > Grace \/ ~had)
  <2>1. Windowless /\ AutoExit
    BY <1>1, WhoEnds
  <2>2. clients = 0 /\ (TabsGone \/ NeverCame)
    BY <2>1 DEF AutoExit
  <2>3. \A t \in Tabs : tab[t] # "live"
    BY <1>1, <2>2, NobodyLive DEF TypeInv
  <2>4. CASE TabsGone
    <3>1. zero # None /\ zero > Grace
      BY <2>4, LifeAssumption DEF TabsGone, Since
    <3>2. zero <= quiet
      BY <1>1, <3>1 DEF Patient
    <3>3. zero \in Nat /\ quiet \in Nat /\ Grace \in Nat
      BY <1>1, <3>1, LifeAssumption DEF TypeInv, TypeOK
    <3> QED
      BY <2>1, <2>3, <3>1, <3>2, <3>3
  <2>5. CASE NeverCame
    BY <2>1, <2>3, <2>5 DEF NeverCame
  <2> QED
    BY <2>2, <2>4, <2>5
<1> QED
  BY <1>1, TypeInvariant, PatientInvariant, PTL DEF Spec, ExitsAlone

\* Whatever ends or is started meanwhile, the exe is missing only while the
\* batch file is about to put it back, or has failed to, and then the new one is
\* still on the disk (_UPDATER_BAT of server/self_update.py).
THEOREM ProgramTheorem == Spec => []ProgramStays
<1>1. Init => ExeInv
  BY DEF Init, ExeInv, OneUpdate, Missing, Active
<1>2. ExeInv => ProgramStays
  <2> SUFFICES ASSUME ExeInv, Missing, ~overlap
               PROVE  /\ new # "none"
                      /\ program = "none" => bat /\ \E u \in Updates : helper[u] = "move"
    BY DEF ProgramStays, Missing
  <2> QED
    BY DEF ExeInv, OneUpdate, Missing
<1> QED
  BY <1>1, <1>2, ExeStep, TypeInvariant, PTL DEF Spec
=============================================================================

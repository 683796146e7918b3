--------------------------- MODULE FwUpdateProofs ---------------------------
(***************************************************************************)
(* Proofs about FwUpdate, for any number of threads, releases, attempts    *)
(* and exits of the server.                                                *)
(***************************************************************************)
EXTENDS FwUpdate, TLAPS

\* The lock is held from Apply to Release: one thread at a time works.
Mutex ==
  /\ \A j \in Jobs : Working(j) => lock
  /\ \A i, j \in Jobs : Working(i) /\ Working(j) => i = j
  /\ \A j \in Jobs : job[j].stage = "jlink" <=> holder = j

\* The phases the panel may show while the thread is at a stage.
PhasesAt(s) ==
  CASE s \in {"begin", "release"} -> {"idle"}
    [] s \in {"phased", "download", "downloaded"} -> {"download"}
    [] s \in {"phased2", "attempt", "jlink", "good", "bad"} -> {"flash"}
    [] OTHER -> {"download", "flash"}

Phases ==
  /\ \A j \in Jobs : Working(j) => phase \in PhasesAt(job[j].stage)
  /\ (\A j \in Jobs : ~Working(j)) => phase = "idle"

\* From the announcement of a flash to its result the timeline names it; a
\* board that was flashed stays so, for no JLink.exe without a server is left.
Flashing ==
  /\ \A j \in Jobs : job[j].stage \in {"attempt", "jlink", "good", "bad"} =>
       last.kind = "flash" /\ last.tag = job[j].tag
  /\ \A j \in Jobs : job[j].stage \in {"jlink", "good"} => orphan = None
  /\ \A j \in Jobs : job[j].stage = "good" => board = job[j].tag
  /\ last.kind = "done" => board = last.tag /\ orphan = None

\* A thread at work knows its release.
Tagged == \A j \in Jobs : Working(j) => job[j].tag \in Tags

FwInv == TypeOK /\ Tagged /\ Mutex /\ Phases /\ Flashing

-----------------------------------------------------------------------------
(* Every step of a thread changes that thread's record only.               *)

LEMMA NoJobType ==
  /\ NoJob \in [stage : Stages, tag : Tags \cup {None}, tries : 0 .. Attempts]
  /\ NoJob.stage = "none"
<1>1. 0 \in 0 .. Attempts
  BY FwAssumption
<1> QED
  BY <1>1 DEF NoJob, Stages

LEMMA FwInit == Init => FwInv
<1> SUFFICES ASSUME Init PROVE FwInv
  OBVIOUS
<1>1. \A j \in Jobs : job[j].stage = "none" /\ ~Working(j)
  BY DEF Init, NoJob, Working
<1>2. job \in [Jobs -> [stage : Stages, tag : Tags \cup {None}, tries : 0 .. Attempts]]
  BY NoJobType DEF Init
<1>3. TypeOK
  <2>1. /\ probe \in BOOLEAN /\ other \in BOOLEAN /\ lock \in BOOLEAN
        /\ badge \in {"unknown", "connected", "disconnected"}
        /\ holder \in Jobs \cup {None} /\ orphan \in Tags \cup {None}
        /\ phase \in {"idle", "download", "flash"} /\ board \in Tags \cup {"half"}
    BY DEF Init
  <2>2. exits \in 0 .. MaxExits
    BY FwAssumption DEF Init
  <2>3. last \in [kind : {"none", "download", "flash", "done", "failed"},
                 tag : Tags \cup {None}]
    BY DEF Init
  <2> QED
    BY <1>2, <2>1, <2>2, <2>3 DEF TypeOK
<1>4. Tagged /\ Mutex
  BY <1>1, FwAssumption DEF Init, Tagged, Mutex
<1>5. Phases /\ Flashing
  BY <1>1 DEF Init, Phases, Flashing
<1> QED
  BY <1>3, <1>4, <1>5 DEF FwInv

LEMMA TypeStep == FwInv /\ [Next]_vars => TypeOK' /\ Tagged'
<1> SUFFICES ASSUME FwInv, [Next]_vars PROVE TypeOK' /\ Tagged'
  OBVIOUS
<1> USE FwAssumption DEF FwInv, Tagged, TypeOK, Stages, Working
<1>1. CASE Plug \/ Watch \/ UNCHANGED vars
  BY <1>1 DEF Plug, Watch, vars
<1>5. CASE Other
  <2>1. other' \in BOOLEAN
    BY <1>5 DEF Other
  <2> QED
    BY <1>5, <2>1 DEF Other
<1>6. CASE OrphanEnds
  BY <1>6 DEF OrphanEnds
<1>2. CASE Exit
  <2>1. exits' \in 0 .. MaxExits
    BY <1>2 DEF Exit
  <2>2. job' = [j \in Jobs |-> NoJob] /\ \A j \in Jobs : job'[j].stage = "none"
    BY <1>2, NoJobType DEF Exit
  <2>3. job' \in [Jobs -> [stage : Stages, tag : Tags \cup {None}, tries : 0 .. Attempts]]
    BY <2>2, NoJobType
  <2>4. orphan' \in Tags \cup {None}
    BY <1>2 DEF Exit
  <2> QED
    BY <1>2, <2>1, <2>2, <2>3, <2>4 DEF Exit
<1>3. ASSUME NEW j \in Jobs, NEW t \in Tags, Apply(j, t) PROVE TypeOK' /\ Tagged'
  BY <1>3 DEF Apply
<1>4. ASSUME NEW j \in Jobs, Thread(j) PROVE TypeOK' /\ Tagged'
  <2>1. CASE PhaseDownload(j) \/ PhaseFlash(j) \/ PhaseIdle(j)
    BY <2>1 DEF PhaseDownload, PhaseFlash, PhaseIdle, Go
  <2>7. CASE Download(j)
    BY <2>7 DEF Download, Go
  <2>2. CASE EventDownload(j) \/ EventFlash(j) \/ Done(j) \/ Failed(j) \/ Exception(j)
    BY <2>2 DEF EventDownload, EventFlash, Done, Failed, Exception, Go, Event
  <2>3. CASE JLink(j)
    BY <2>3 DEF JLink
  <2>4. CASE JLinkEnds(j)
    BY <2>4 DEF JLinkEnds
  <2>5. CASE JLinkTimeout(j) \/ Retry(j)
    BY <2>5 DEF JLinkTimeout, Retry, Go
  <2>6. CASE Release(j)
    <3>1. job' = [job EXCEPT ![j] = NoJob] /\ lock' = FALSE
      BY <2>6 DEF Release
    <3>2. job' \in [Jobs -> [stage : Stages, tag : Tags \cup {None}, tries : 0 .. Attempts]]
      BY <3>1, NoJobType
    <3>3. \A i \in Jobs : job'[i] = job[i] \/ job'[i].stage = "none"
      BY <3>1, NoJobType
    <3> QED
      BY <2>6, <3>1, <3>2, <3>3 DEF Release
  <2> QED
    BY <1>4, <2>1, <2>2, <2>3, <2>4, <2>5, <2>6, <2>7 DEF Thread
<1> QED
  BY <1>1, <1>2, <1>3, <1>4, <1>5, <1>6 DEF Next

\* A thread's step changes its own record and nobody else is at work.
LEMMA Alone ==
  ASSUME FwInv, NEW j \in Jobs, Thread(j)
  PROVE  /\ Working(j) /\ lock
         /\ \A i \in Jobs : i # j => job'[i] = job[i] /\ ~Working(i)
         /\ job' \in [Jobs -> [stage : Stages, tag : Tags \cup {None}, tries : 0 .. Attempts]]
         /\ \A i \in Jobs : Working(i)' = (job'[i].stage # "none")
<1>1. Working(j)
  BY DEF Thread, Working, PhaseDownload, EventDownload, Download, PhaseFlash, EventFlash,
         JLink, JLinkEnds, JLinkTimeout, Retry, Done, Failed, Exception, PhaseIdle, Release, Go
<1>2. \E x : job' = [job EXCEPT ![j] = x]
  BY DEF Thread, PhaseDownload, EventDownload, Download, PhaseFlash, EventFlash,
         JLink, JLinkEnds, JLinkTimeout, Retry, Done, Failed, Exception, PhaseIdle, Release, Go
<1>3. TypeOK'
  BY TypeStep DEF Next
<1> QED
  BY <1>1, <1>2, <1>3 DEF FwInv, Mutex, TypeOK, Working

\* What each step does to the stage of its thread.
LEMMA StageMoves ==
  ASSUME FwInv, NEW j \in Jobs
  PROVE  /\ PhaseDownload(j) => job[j].stage = "begin" /\ job'[j].stage = "phased"
         /\ EventDownload(j) => job[j].stage = "phased" /\ job'[j].stage = "download"
         /\ Download(j) => /\ job[j].stage = "download"
                           /\ job'[j].stage \in {"downloaded", "exception"}
         /\ PhaseFlash(j) => job[j].stage = "downloaded" /\ job'[j].stage = "phased2"
         /\ EventFlash(j) => job[j].stage = "phased2" /\ job'[j].stage = "attempt"
         /\ JLink(j) => job[j].stage = "attempt" /\ job'[j].stage \in {"jlink", "bad"}
         /\ JLinkEnds(j) => job[j].stage = "jlink" /\ job'[j].stage \in {"good", "bad"}
         /\ JLinkTimeout(j) => job[j].stage = "jlink" /\ job'[j].stage = "exception"
         /\ Retry(j) => job[j].stage = "bad" /\ job'[j].stage = "attempt"
         /\ Done(j) => job[j].stage = "good" /\ job'[j].stage = "finally"
         /\ Failed(j) => job[j].stage = "bad" /\ job'[j].stage = "finally"
         /\ Exception(j) => job[j].stage = "exception" /\ job'[j].stage = "finally"
         /\ PhaseIdle(j) => job[j].stage = "finally" /\ job'[j].stage = "release"
         /\ Release(j) => job[j].stage = "release" /\ job'[j].stage = "none"
<1> USE DEF FwInv, TypeOK
<1>1. PhaseDownload(j) => job[j].stage = "begin" /\ job'[j].stage = "phased"
  BY DEF PhaseDownload, Go
<1>2. EventDownload(j) => job[j].stage = "phased" /\ job'[j].stage = "download"
  BY DEF EventDownload, Go
<1>3. Download(j) => job[j].stage = "download" /\ job'[j].stage \in {"downloaded", "exception"}
  BY DEF Download, Go
<1>4. PhaseFlash(j) => job[j].stage = "downloaded" /\ job'[j].stage = "phased2"
  BY DEF PhaseFlash, Go
<1>5. EventFlash(j) => job[j].stage = "phased2" /\ job'[j].stage = "attempt"
  BY DEF EventFlash, Go
<1>6. JLink(j) => job[j].stage = "attempt" /\ job'[j].stage \in {"jlink", "bad"}
  BY DEF JLink
<1>7. JLinkEnds(j) => job[j].stage = "jlink" /\ job'[j].stage \in {"good", "bad"}
  BY DEF JLinkEnds
<1>8. JLinkTimeout(j) => job[j].stage = "jlink" /\ job'[j].stage = "exception"
  BY DEF JLinkTimeout, Go
<1>9. Retry(j) => job[j].stage = "bad" /\ job'[j].stage = "attempt"
  BY DEF Retry, Go
<1>10. Done(j) => job[j].stage = "good" /\ job'[j].stage = "finally"
  BY DEF Done, Go
<1>11. Failed(j) => job[j].stage = "bad" /\ job'[j].stage = "finally"
  BY DEF Failed, Go
<1>12. Exception(j) => job[j].stage = "exception" /\ job'[j].stage = "finally"
  BY DEF Exception, Go
<1>13. PhaseIdle(j) => job[j].stage = "finally" /\ job'[j].stage = "release"
  BY DEF PhaseIdle, Go
<1>14. Release(j) => job[j].stage = "release" /\ job'[j].stage = "none"
  BY NoJobType DEF Release
<1> QED
  BY <1>1, <1>2, <1>3, <1>4, <1>5, <1>6, <1>7, <1>8, <1>9, <1>10, <1>11, <1>12, <1>13, <1>14

LEMMA MutexStep == FwInv /\ [Next]_vars => Mutex'
<1> SUFFICES ASSUME FwInv, [Next]_vars PROVE Mutex'
  OBVIOUS
<1>1. CASE Plug \/ Other \/ Watch \/ OrphanEnds \/ UNCHANGED vars
  BY <1>1 DEF Plug, Other, Watch, OrphanEnds, vars, FwInv, Mutex, Working
<1>2. CASE Exit
  BY <1>2, NoJobType, FwAssumption DEF Exit, Mutex, Working
<1>3. ASSUME NEW j \in Jobs, NEW t \in Tags, Apply(j, t) PROVE Mutex'
  BY <1>3 DEF Apply, FwInv, TypeOK, Mutex, Working
<1>4. ASSUME NEW j \in Jobs, Thread(j) PROVE Mutex'
  <2> USE <1>4, Alone, StageMoves, FwAssumption
  <2>1. CASE JLink(j)
    BY <2>1 DEF JLink, FwInv, TypeOK, Mutex, Working
  <2>2. CASE JLinkEnds(j) \/ JLinkTimeout(j)
    BY <2>2 DEF JLinkEnds, JLinkTimeout, FwInv, Mutex, Working
  <2>3. CASE Release(j)
    <3>1. job'[j].stage = "none" /\ holder' = holder /\ job[j].stage = "release"
      BY <2>3, NoJobType DEF Release, FwInv, TypeOK
    <3>2. ASSUME NEW i \in Jobs PROVE ~Working(i)'
      <4>1. i # j => job'[i] = job[i] /\ job[i].stage = "none"
        BY DEF Working
      <4> QED
        BY <3>1, <4>1 DEF Working
    <3>3. ASSUME NEW i \in Jobs PROVE job'[i].stage # "jlink" /\ holder' # i
      <4>1. job[i].stage # "jlink"
        BY <3>1 DEF Working
      <4>2. holder' # i
        BY <3>1, <4>1 DEF FwInv, Mutex
      <4> QED
        BY <3>2, <4>2 DEF Working
    <3> QED
      BY <3>2, <3>3 DEF Mutex
  <2>4. CASE PhaseDownload(j) \/ EventDownload(j) \/ Download(j) \/ PhaseFlash(j) \/ EventFlash(j)
    BY <2>4 DEF PhaseDownload, EventDownload, Download, PhaseFlash, EventFlash, FwInv, Mutex, Working
  <2>5. CASE Retry(j) \/ Done(j) \/ Failed(j) \/ Exception(j) \/ PhaseIdle(j)
    BY <2>5 DEF Retry, Done, Failed, Exception, PhaseIdle, FwInv, Mutex, Working
  <2> QED
    BY <2>1, <2>2, <2>3, <2>4, <2>5 DEF Thread
<1> QED
  BY <1>1, <1>2, <1>3, <1>4 DEF Next

LEMMA PhaseStep == FwInv /\ [Next]_vars => Phases'
<1> SUFFICES ASSUME FwInv, [Next]_vars PROVE Phases'
  OBVIOUS
<1>1. CASE Plug \/ Other \/ Watch \/ OrphanEnds \/ UNCHANGED vars
  BY <1>1 DEF Plug, Other, Watch, OrphanEnds, vars, FwInv, Phases, Working, PhasesAt
<1>2. CASE Exit
  BY <1>2, NoJobType DEF Exit, Phases, Working
<1>3. ASSUME NEW j \in Jobs, NEW t \in Tags, Apply(j, t) PROVE Phases'
  <2>1. \A i \in Jobs : ~Working(i)
    BY <1>3 DEF Apply, FwInv, Mutex
  <2>2. phase' = "idle" /\ phase = "idle"
    BY <1>3, <2>1 DEF Apply, FwInv, Phases
  <2>3. job'[j].stage = "begin" /\ \A i \in Jobs : i # j => job'[i] = job[i]
    BY <1>3 DEF Apply, FwInv, TypeOK
  <2> QED
    BY <2>1, <2>2, <2>3 DEF Phases, Working, PhasesAt
<1>4. ASSUME NEW j \in Jobs, Thread(j) PROVE Phases'
  <2>1. Working(j) /\ \A i \in Jobs : i # j => ~Working(i)'
    BY <1>4, Alone DEF Working
  <2>2. phase \in PhasesAt(job[j].stage)
    BY <2>1 DEF FwInv, Phases
  <2> USE StageMoves, <2>2 DEF PhasesAt
  <2>3. CASE PhaseDownload(j)
    BY <2>1, <2>3 DEF PhaseDownload, Phases, Working
  <2>4. CASE PhaseFlash(j)
    BY <2>1, <2>4 DEF PhaseFlash, Phases, Working
  <2>5. CASE PhaseIdle(j)
    BY <2>1, <2>5 DEF PhaseIdle, Phases, Working
  <2>6. CASE Release(j)
    BY <2>1, <2>6 DEF Release, Phases, Working
  <2>7. CASE EventDownload(j) \/ Download(j) \/ EventFlash(j) \/ JLink(j)
    BY <2>1, <2>7 DEF EventDownload, Download, EventFlash, JLink, Phases, Working
  <2>8. CASE JLinkEnds(j) \/ JLinkTimeout(j) \/ Retry(j)
    BY <2>1, <2>8 DEF JLinkEnds, JLinkTimeout, Retry, Phases, Working
  <2>9. CASE Done(j) \/ Failed(j) \/ Exception(j)
    BY <2>1, <2>9 DEF Done, Failed, Exception, Phases, Working
  <2> QED
    BY <1>4, <2>3, <2>4, <2>5, <2>6, <2>7, <2>8, <2>9 DEF Thread
<1> QED
  BY <1>1, <1>2, <1>3, <1>4 DEF Next

LEMMA FlashStep == FwInv /\ [Next]_vars => Flashing'
<1> SUFFICES ASSUME FwInv, [Next]_vars PROVE Flashing'
  OBVIOUS
<1>1. CASE Plug \/ Other \/ Watch \/ UNCHANGED vars
  BY <1>1 DEF Plug, Other, Watch, vars, FwInv, Flashing
<1>2. CASE OrphanEnds
  BY <1>2 DEF OrphanEnds, FwInv, Flashing
<1>3. CASE Exit
  <2>1. \A j \in Jobs : job'[j].stage = "none"
    BY <1>3, NoJobType DEF Exit
  <2>2. ASSUME holder # None PROVE last.kind = "flash"
    BY <2>2 DEF FwInv, TypeOK, Mutex, Flashing
  <2> QED
    BY <1>3, <2>1, <2>2 DEF Exit, FwInv, Flashing
<1>4. ASSUME NEW j \in Jobs, NEW t \in Tags, Apply(j, t) PROVE Flashing'
  <2>1. job'[j].stage = "begin" /\ \A i \in Jobs : i # j => job'[i] = job[i]
    BY <1>4 DEF Apply, FwInv, TypeOK
  <2> QED
    BY <1>4, <2>1 DEF Apply, FwInv, Flashing
<1>5. ASSUME NEW j \in Jobs, Thread(j) PROVE Flashing'
  <2>1. \A i \in Jobs : i # j => job'[i].stage = "none"
    BY <1>5, Alone DEF Working
  <2> USE StageMoves DEF FwInv, Flashing
  <2>2. CASE PhaseDownload(j) \/ Download(j) \/ PhaseFlash(j) \/ PhaseIdle(j) \/ Release(j)
    BY <2>1, <2>2 DEF PhaseDownload, Download, PhaseFlash, PhaseIdle, Release
  <2>3. CASE EventDownload(j) \/ Failed(j) \/ Exception(j)
    BY <2>1, <2>3 DEF EventDownload, Failed, Exception, Event
  <2>4. CASE EventFlash(j)
    <3>1. job'[j].tag = job[j].tag
      BY <2>4 DEF EventFlash, Go, TypeOK
    <3> QED
      BY <2>1, <2>4, <3>1 DEF EventFlash, Event
  <2>5. CASE JLink(j)
    <3>1. job'[j].tag = job[j].tag
      BY <2>5 DEF JLink, TypeOK
    <3>2. job'[j].stage = "jlink" => orphan = None
      BY <2>5 DEF JLink, TypeOK
    <3> QED
      BY <2>1, <2>5, <3>1, <3>2 DEF JLink
  <2>6. CASE JLinkEnds(j)
    <3>1. job'[j].tag = job[j].tag
      BY <2>6 DEF JLinkEnds, TypeOK
    <3>2. job'[j].stage = "good" => board' = job[j].tag
      BY <2>6 DEF JLinkEnds, TypeOK, Passed
    <3> QED
      BY <2>1, <2>6, <3>1, <3>2 DEF JLinkEnds
  <2>7. CASE JLinkTimeout(j)
    BY <2>1, <2>7 DEF JLinkTimeout
  <2>8. CASE Retry(j)
    <3>1. job'[j].tag = job[j].tag
      BY <2>8 DEF Retry, Go, TypeOK
    <3> QED
      BY <2>1, <2>8, <3>1 DEF Retry
  <2>9. CASE Done(j)
    BY <2>1, <2>9 DEF Done, Event
  <2> QED
    BY <1>5, <2>2, <2>3, <2>4, <2>5, <2>6, <2>7, <2>8, <2>9 DEF Thread
<1> QED
  BY <1>1, <1>2, <1>3, <1>4, <1>5 DEF Next

LEMMA FwInvariant == Spec => []FwInv
<1>1. FwInv /\ [Next]_vars => FwInv'
  BY TypeStep, MutexStep, PhaseStep, FlashStep DEF FwInv
<1> QED
  BY <1>1, FwInit, PTL DEF Spec

-----------------------------------------------------------------------------
\* The state of an update has its types: no thread attempts a flash more often
\* than _flash's loop allows.
THEOREM FwTypes == Spec => []TypeOK
<1>1. FwInv => TypeOK
  BY DEF FwInv
<1> QED
  BY <1>1, FwInvariant, PTL

\* However many updates are asked for, fail, or die with the server, the phase
\* on the panel (_phase) is that of the one thread at work.
THEOREM PhaseTheorem == Spec => []PhaseTells
<1>1. ASSUME FwInv PROVE PhaseTells
  <2> USE <1>1 DEF FwInv, TypeOK, Stages, Phases, PhasesAt, Working
  <2>1. phase = "idle" => \A j \in Jobs : job[j].stage \in {"none", "begin", "release"}
    OBVIOUS
  <2>2. ASSUME phase # "idle" PROVE \E j \in Jobs : Working(j) /\ phase \in PhasesAt(job[j].stage)
    BY <2>2
  <2> QED
    BY <2>1, <2>2 DEF PhaseTells
<1> QED
  BY <1>1, FwInvariant, PTL

\* While "Firmware ... flashed" is the timeline's last word on an update, the
\* board runs that release, also when the server, or a JLink.exe, was killed.
THEOREM SuccessTheorem == Spec => []SuccessTells
<1>1. FwInv => SuccessTells
  BY DEF FwInv, Flashing, SuccessTells
<1> QED
  BY <1>1, FwInvariant, PTL

\* _flash never runs JLink.exe twice at a time.
THEOREM OneJLinkTheorem == Spec => []OneJLink
<1>1. FwInv => OneJLink
  BY DEF FwInv, Mutex, OneJLink
<1> QED
  BY <1>1, FwInvariant, PTL

\* No thread writes the board before the timeline's file names the release.
THEOREM AnnouncedTheorem == Spec => WritesAnnounced
<1> DEFINE Announced == board' # board /\ orphan = None =>
                          last.kind = "flash" /\ board' \in {last.tag, "half"}
<1>1. ASSUME FwInv, [Next]_vars PROVE [Announced]_vars
  <2> SUFFICES ASSUME board' # board, orphan = None
               PROVE last.kind = "flash" /\ board' \in {last.tag, "half"}
    OBVIOUS
  <2>1. ~(Plug \/ Other \/ Watch \/ Exit \/ OrphanEnds \/ UNCHANGED vars)
    BY DEF Plug, Other, Watch, Exit, OrphanEnds, vars
  <2>2. PICK j \in Jobs : Thread(j)
    BY <1>1, <2>1 DEF Next, Apply
  <2>3. JLink(j) \/ JLinkEnds(j)
    BY <2>2 DEF Thread, PhaseDownload, EventDownload, Download, PhaseFlash, EventFlash,
      JLinkTimeout, Retry, Done, Failed, Exception, PhaseIdle, Release
  <2>4. last.kind = "flash" /\ last.tag = job[j].tag
    BY <1>1, <2>3, StageMoves DEF FwInv, Flashing
  <2> QED
    BY <2>3, <2>4 DEF JLink, JLinkEnds
<1> QED
  BY <1>1, FwInvariant, PTL DEF Spec, WritesAnnounced
=============================================================================

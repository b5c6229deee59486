---------------------------- MODULE FrontEndProofs ----------------------------
(***************************************************************************)
(* Theorems about the Windows front end, for any number of clicks: first   *)
(* the window and the worker by themselves (MainWindow), then the same     *)
(* with the message thread, which only writes to the status bar, and with  *)
(* the list of devices, which never holds them more than twice.            *)
(***************************************************************************)
EXTENDS FrontEnd, TLAPS

(* Once the worker has seen that m_whattodo holds no job for it, a job     *)
(* written since then comes with a release.                                *)
WakeInv ==
  /\ worker = "testScan" /\ whattodo = Project => semJob > 0 \/ WakeUpDue
  /\ worker = "acquire" /\ whattodo # DoNothing => semJob > 0 \/ WakeUpDue
  /\ gui.at = "request" => gui.of \in {"project", "scan"}
  /\ gui.at = "guard" => gui.of = "scan"

InTaking == worker \in {"takeScreen", "taking"}

(* No handler takes the job away from a projection before stopping it.     *)
StopInv ==
  /\ InTaking /\ whattodo # Project => stop
  /\ gui.at = "request" /\ gui.of = "scan" => whattodo # Project
  /\ gui.at = "release" /\ gui.of \in {"stop", "close"} => whattodo # Project
  /\ gui.at = "reset" =>
       stop \/ worker = "finish" \/ (whattodo # Project /\ ~ InTaking)

LEMMA JobsDiffer == Project # DoNothing /\ Scan # DoNothing /\ Project # Scan
BY DEF Project, Scan, DoNothing

-----------------------------------------------------------------------------
(* Types *)

LEMMA InitType ==
  ASSUME Init
  PROVE  MainTypeOK
BY DEF Init, JobInit, MainTypeOK, First, Handlers, GuiSteps, WorkerSteps,
       StatusTexts

LEMMA WorkType ==
  ASSUME MainTypeOK, Work
  PROVE  MainTypeOK'
<1> USE DEF MainTypeOK, WorkerGoes, WorkerSteps
<1>1. WorkerNext /\ gui' = gui /\ clicks' = clicks
  BY DEF Work
<1>2. CASE TestProject
  BY <1>1, <1>2 DEF TestProject
<1>3. CASE EmptyJob
  BY <1>1, <1>3 DEF EmptyJob
<1>4. CASE TestScan
  BY <1>1, <1>4 DEF TestScan
<1>5. CASE BeginTaking
  BY <1>1, <1>5 DEF BeginTaking
<1>6. CASE EndTaking
  BY <1>1, <1>6 DEF EndTaking
<1>7. CASE FailTaking
  BY <1>1, <1>7 DEF FailTaking
<1>8. CASE EndScan
  BY <1>1, <1>8 DEF EndScan, StatusTexts
<1>9. CASE Finish
  BY <1>1, <1>9 DEF Finish
<1>10. CASE Acquire
  BY <1>1, <1>10 DEF Acquire
<1>11. CASE TestAbort
  BY <1>1, <1>11 DEF TestAbort
<1>12. QED
  BY <1>1, <1>2, <1>3, <1>4, <1>5, <1>6, <1>7, <1>8, <1>9, <1>10, <1>11
     DEF WorkerNext, WorkerProceeds

(* A step of a handler keeps the type of gui, and does not touch worker.   *)
LEMMA GuiGoesType ==
  ASSUME MainTypeOK, NEW to \in GuiSteps, GuiGoes(to)
  PROVE  /\ gui' \in [of : Handlers, at : GuiSteps]
         /\ gui'.at = to /\ gui'.of = gui.of
BY DEF MainTypeOK, GuiGoes

LEMMA AfterwardsType ==
  Afterwards \in {"idle", "show", "wait", "reset"} /\ Afterwards \in GuiSteps
BY DEF Afterwards, GuiSteps

LEMMA GuiType ==
  ASSUME MainTypeOK, GuiNext
  PROVE  MainTypeOK'
<1>1. gui' \in [of : Handlers, at : GuiSteps]
  <2>1. ASSUME NEW to \in GuiSteps, GuiGoes(to)
        PROVE  gui' \in [of : Handlers, at : GuiSteps]
    BY <2>1, GuiGoesType
  <2>2. {"idle", "show", "wait", "reset", "request", "release", "stopTaking",
         "destroy", "testJob", "gone", "abort"} \subseteq GuiSteps
    BY DEF GuiSteps
  <2>3. CASE GuiProceeds
    BY <2>1, <2>2, <2>3, AfterwardsType
       DEF GuiProceeds, Guard, Request, Release, TestJob, StopTaking, Reset,
           Show, Destroy, Abort, Wait
  <2>4. CASE \E h \in Handlers : Click(h)
    BY <2>4 DEF Click, First, GuiSteps
  <2>5. QED
    BY <2>3, <2>4 DEF GuiNext
<1>2. CASE GuiProceeds
  <2> USE DEF MainTypeOK
  <2>1. CASE Guard \/ TestJob \/ Wait
    BY <1>1, <2>1 DEF Guard, TestJob, Wait, jvars
  <2>2. CASE Request
    BY <1>1, <2>2 DEF Request
  <2>3. CASE Release
    BY <1>1, <2>3 DEF Release
  <2>4. CASE StopTaking
    BY <1>1, <2>4 DEF StopTaking
  <2>5. CASE Reset
    BY <1>1, <2>5 DEF Reset
  <2>6. CASE Show
    BY <1>1, <2>6 DEF Show, StatusTexts
  <2>7. CASE Destroy
    BY <1>1, <2>7 DEF Destroy
  <2>8. CASE Abort
    BY <1>1, <2>8 DEF Abort
  <2>9. QED
    BY <1>2, <2>1, <2>2, <2>3, <2>4, <2>5, <2>6, <2>7, <2>8 DEF GuiProceeds
<1>3. CASE \E h \in Handlers : Click(h)
  BY <1>1, <1>3 DEF MainTypeOK, Click, jvars
<1>4. QED
  BY <1>2, <1>3 DEF GuiNext

LEMMA NextType ==
  ASSUME MainTypeOK, [Next]_vars
  PROVE  MainTypeOK'
<1>1. CASE UNCHANGED vars
  BY <1>1 DEF vars, MainTypeOK
<1>2. QED
  BY <1>1, WorkType, GuiType DEF Next

(* The shared variables of UIJob.cpp and mainWindow.cpp keep their types.  *)
THEOREM MainTypeCorrect == Spec => []MainTypeOK
<1>1. QED
  BY InitType, NextType, PTL DEF Spec

-----------------------------------------------------------------------------
(* Wake-ups *)

(* A handler that asks for a job releases the semaphore next.              *)
LEMMA RequestsKnown ==
  ASSUME MainTypeOK, WakeInv, GuiNext
  PROVE  /\ gui'.at = "request" => gui'.of \in {"project", "scan"}
         /\ gui'.at = "guard" => gui'.of = "scan"
<1>1. CASE Guard
  <2>1. PICK to \in {"idle", "request"} : GuiGoes(to)
    BY <1>1 DEF Guard
  <2>2. gui.of = "scan"
    BY <1>1 DEF Guard, WakeInv
  <2>3. QED
    BY <2>1, <2>2, GuiGoesType DEF GuiSteps
<1>2. CASE Request \/ Release \/ TestJob \/ StopTaking \/ Reset \/ Show
           \/ Destroy \/ Abort \/ Wait
  <2>1. PICK to \in GuiSteps \ {"request", "guard"} : GuiGoes(to)
    BY <1>2, AfterwardsType
       DEF GuiSteps, Request, Release, TestJob, StopTaking, Reset, Show,
           Destroy, Abort, Wait
  <2>2. QED
    BY <2>1, GuiGoesType
<1>3. CASE \E h \in Handlers : Click(h)
  BY <1>3 DEF Click, First, Handlers
<1>4. QED
  BY <1>1, <1>2, <1>3 DEF GuiNext, GuiProceeds

LEMMA WakeStep ==
  ASSUME MainTypeOK, WakeInv, [Next]_vars
  PROVE  WakeInv'
<1> USE JobsDiffer DEF WakeInv, WakeUpDue
<1>1. CASE UNCHANGED vars
  BY <1>1 DEF vars
<1>2. CASE Work
  <2>1. gui' = gui /\ WorkerNext
    BY <1>2 DEF Work
  <2>2. CASE TestProject
    BY <2>1, <2>2 DEF TestProject, WorkerGoes
  <2>3. CASE TestScan
    BY <2>1, <2>3 DEF TestScan, WorkerGoes, MainTypeOK
  <2>4. CASE EmptyJob \/ BeginTaking \/ EndTaking \/ FailTaking \/ EndScan
             \/ Finish \/ Acquire
    BY <2>1, <2>4 DEF EmptyJob, BeginTaking, EndTaking, FailTaking, EndScan,
                      Finish, Acquire, WorkerGoes
  <2>5. CASE TestAbort
    BY <2>1, <2>5 DEF TestAbort, WorkerGoes
  <2>6. QED
    BY <2>1, <2>2, <2>3, <2>4, <2>5 DEF WorkerNext, WorkerProceeds
<1>3. CASE GuiNext
  <2>1. /\ gui'.at = "request" => gui'.of \in {"project", "scan"}
        /\ gui'.at = "guard" => gui'.of = "scan"
    BY <1>3, RequestsKnown
  <2>2. CASE Request
    <3>1. gui'.at = "release" /\ gui'.of = gui.of
      BY <2>2, GuiGoesType DEF Request, GuiSteps
    <3>2. QED
      BY <2>1, <2>2, <3>1 DEF Request
  <2>3. CASE Release
    BY <2>1, <2>3 DEF Release, MainTypeOK
  <2>4. CASE Reset
    BY <2>1, <2>4 DEF Reset
  <2>5. CASE Guard \/ TestJob \/ StopTaking \/ Show \/ Destroy \/ Abort \/ Wait
    BY <2>1, <2>5
       DEF Guard, TestJob, StopTaking, Show, Destroy, Abort, Wait, jvars
  <2>6. CASE \E h \in Handlers : Click(h)
    BY <2>1, <2>6 DEF Click, jvars
  <2>7. QED
    BY <1>3, <2>2, <2>3, <2>4, <2>5, <2>6 DEF GuiNext, GuiProceeds
<1>4. QED
  BY <1>1, <1>2, <1>3 DEF Next

LEMMA WakeStart ==
  ASSUME Init
  PROVE  WakeInv
<1>1. gui.of = "scan" /\ gui.at = "guard" /\ worker = "onJob"
  BY DEF Init, JobInit, First
<1>2. QED
  BY <1>1 DEF WakeInv

(* No wake-up is lost between OnJob and the window's handlers, for any     *)
(* number of clicks.                                                       *)
THEOREM NoLostWakeupCorrect == Spec => []NoLostWakeup
<1>1. Init => MainTypeOK /\ WakeInv
  BY InitType, WakeStart
<1>2. MainTypeOK /\ WakeInv /\ [Next]_vars => MainTypeOK' /\ WakeInv'
  BY NextType, WakeStep
<1>3. MainTypeOK /\ WakeInv => NoLostWakeup
  BY DEF MainTypeOK, WakeInv, NoLostWakeup, Asleep
<1>4. QED
  BY <1>1, <1>2, <1>3, PTL DEF Spec

-----------------------------------------------------------------------------
(* Stops *)

LEMMA StopWork ==
  ASSUME MainTypeOK, StopInv, StopKept = TRUE, Work
  PROVE  StopInv'
<1> USE JobsDiffer DEF StopInv, InTaking, WorkerGoes
<1>1. gui' = gui /\ WorkerNext
  BY DEF Work
<1>2. CASE TestProject
  BY <1>1, <1>2 DEF TestProject
<1>3. CASE TestScan
  BY <1>1, <1>3 DEF TestScan
<1>4. CASE BeginTaking
  BY <1>1, <1>4 DEF BeginTaking, MainTypeOK
<1>5. CASE EndTaking
  BY <1>1, <1>5 DEF EndTaking
<1>6. CASE FailTaking
  BY <1>1, <1>6 DEF FailTaking
<1>7. CASE EmptyJob \/ EndScan \/ Acquire
  BY <1>1, <1>7 DEF EmptyJob, EndScan, Acquire
<1>8. CASE Finish
  BY <1>1, <1>8 DEF Finish
<1>9. CASE TestAbort
  BY <1>1, <1>9 DEF TestAbort
<1>10. QED
  BY <1>1, <1>2, <1>3, <1>4, <1>5, <1>6, <1>7, <1>8, <1>9
     DEF WorkerNext, WorkerProceeds

LEMMA StopGui ==
  ASSUME MainTypeOK, WakeInv, StopInv, GuiNext
  PROVE  StopInv'
<1> USE JobsDiffer DEF StopInv, InTaking
<1> DEFINE At(to) == gui'.at = to /\ gui'.of = gui.of
<1>1. ASSUME NEW to \in GuiSteps, GuiGoes(to)
      PROVE  At(to)
  BY <1>1, GuiGoesType
<1> HIDE DEF At
<1>2. CASE Guard
  <2>1. At(IF whattodo = Project THEN "idle" ELSE "request")
    BY <1>1, <1>2 DEF Guard, GuiSteps
  <2>2. QED
    BY <1>2, <2>1 DEF Guard, At, jvars
<1>3. CASE Request
  <2>1. At("release")
    BY <1>1, <1>3 DEF Request, GuiSteps
  <2>2. gui.of \in {"project", "scan"}
    BY <1>3 DEF Request, WakeInv
  <2>3. QED
    BY <1>3, <2>1, <2>2 DEF Request, At
<1>4. CASE Release
  <2>1. At(Afterwards)
    BY <1>1, <1>4, AfterwardsType DEF Release
  <2>2. QED
    BY <1>4, <2>1 DEF Release, At, Afterwards, MainTypeOK, Handlers
<1>5. CASE TestJob
  <2>1. At(IF whattodo = Project THEN "stopTaking" ELSE "release")
    BY <1>1, <1>5 DEF TestJob, GuiSteps
  <2>2. QED
    BY <1>5, <2>1 DEF TestJob, At, jvars
<1>6. CASE StopTaking
  <2>1. At(Afterwards)
    BY <1>1, <1>6, AfterwardsType DEF StopTaking
  <2>2. QED
    BY <1>6, <2>1, AfterwardsType DEF StopTaking, At
<1>7. CASE Reset
  <2>1. At("show")
    BY <1>1, <1>7 DEF Reset, GuiSteps
  <2>2. QED
    BY <1>7, <2>1 DEF Reset, At
<1>8. CASE Show
  <2>1. At(IF gui.of = "close" THEN "destroy" ELSE "idle")
    BY <1>1, <1>8 DEF Show, GuiSteps
  <2>2. QED
    BY <1>8, <2>1 DEF Show, At
<1>9. CASE Destroy \/ Abort \/ Wait
  <2>1. PICK to \in {"abort", "wait", "testJob", "gone"} : At(to)
    BY <1>1, <1>9 DEF Destroy, Abort, Wait, GuiSteps
  <2>2. QED
    BY <1>9, <2>1 DEF Destroy, Abort, Wait, At, jvars
<1>10. CASE \E h \in Handlers : Click(h)
  BY <1>10 DEF Click, First, Handlers, jvars
<1>11. QED
  BY <1>2, <1>3, <1>4, <1>5, <1>6, <1>7, <1>8, <1>9, <1>10
     DEF GuiNext, GuiProceeds

LEMMA StopStep ==
  ASSUME MainTypeOK, WakeInv, StopInv, StopKept = TRUE, [Next]_vars
  PROVE  StopInv'
<1>1. CASE UNCHANGED vars
  BY <1>1 DEF vars, StopInv, InTaking
<1>2. QED
  BY <1>1, StopWork, StopGui DEF Next

(* If take_screen keeps a stop it has not seen, no projection escapes the  *)
(* Stop button, for any number of clicks.                                  *)
THEOREM StopReachesCorrect ==
  ASSUME StopKept = TRUE
  PROVE  Spec => []StopReaches
<1>1. Init => MainTypeOK /\ WakeInv /\ StopInv
  <2>1. Init => StopInv
    BY JobsDiffer DEF Init, JobInit, StopInv, InTaking, First
  <2>2. QED
    BY <2>1, InitType, WakeStart
<1>2. MainTypeOK /\ WakeInv /\ StopInv /\ [Next]_vars =>
        MainTypeOK' /\ WakeInv' /\ StopInv'
  BY NextType, WakeStep, StopStep
<1>3. StopInv => StopReaches
  BY DEF StopInv, InTaking, StopReaches
<1>4. QED
  BY <1>1, <1>2, <1>3, PTL DEF Spec

-----------------------------------------------------------------------------

LEMMA JobIsNext ==
  ASSUME JobStep
  PROVE  [Next]_vars
<1>1. CASE ClearList
  BY <1>1 DEF ClearList, Next, GuiNext, GuiProceeds
<1>2. CASE AddDevices
  BY <1>2 DEF AddDevices, Next, Work, WorkerNext, WorkerProceeds
<1>3. CASE Elsewhere
  BY <1>3 DEF Elsewhere, Next, Work, WorkerNext, WorkerProceeds, GuiNext,
              GuiProceeds
<1>4. QED
  BY <1>1, <1>2, <1>3 DEF JobStep

LEMMA ProcKeeps ==
  ASSUME MainTypeOK, ProcNext \/ ProcAborted \/ UNCHANGED frontVars
  PROVE  /\ UNCHANGED <<whattodo, semJob, reqAbort, destroyed, stop, worker,
                        gui, clicks, listed>>
         /\ status' \in StatusTexts
BY DEF ProcNext, NoMessage, GetMessage, ProcSleep, ProcAborted, frontVars,
       vars, MainTypeOK, StatusTexts

-----------------------------------------------------------------------------
(* The list *)

(* The worker lists devices, or will, unless a reset comes first.          *)
ScanDue == worker = "scanning" \/ (whattodo = Scan /\ worker # "finish")

(* The window's thread has cleared the list and will ask for a scan.       *)
AskDue == gui.at = "request" /\ gui.of = "scan"

ListInv ==
  /\ listed \in 0 .. 2
  /\ ScanDue => listed <= 1
  /\ AskDue => listed <= 1
  /\ ScanDue /\ AskDue => listed = 0

(* No handler but that of "Scan devices" reaches its request.              *)
LEMMA ListGui ==
  ASSUME MainTypeOK, WakeInv, ListInv, listed' = listed,
         Request \/ Release \/ TestJob \/ StopTaking \/ Reset \/ Show
           \/ Destroy \/ Abort \/ Wait \/ \E h \in Handlers : Click(h)
  PROVE  ListInv'
<1> USE JobsDiffer DEF ListInv, ScanDue, AskDue
<1>1. ASSUME NEW to \in GuiSteps, GuiGoes(to)
      PROVE  gui'.at = to /\ gui'.of = gui.of
  BY <1>1, GuiGoesType
<1>2. CASE Request
  <2>1. gui'.at = "release"
    BY <1>1, <1>2 DEF Request, GuiSteps
  <2>2. gui.of \in {"project", "scan"}
    BY <1>2 DEF Request, WakeInv
  <2>3. QED
    BY <1>2, <2>1, <2>2 DEF Request
<1>3. CASE Reset
  <2>1. gui'.at = "show"
    BY <1>1, <1>3 DEF Reset, GuiSteps
  <2>2. QED
    BY <1>3, <2>1 DEF Reset
<1>4. CASE Release \/ TestJob \/ StopTaking \/ Show \/ Destroy \/ Abort \/ Wait
  <2>1. PICK to \in GuiSteps \ {"request"} : GuiGoes(to)
    BY <1>4, AfterwardsType
       DEF GuiSteps, Release, TestJob, StopTaking, Show, Destroy, Abort, Wait
  <2>2. gui'.at # "request"
    BY <1>1, <2>1
  <2>3. whattodo' = whattodo /\ worker' = worker
    BY <1>4 DEF Release, TestJob, StopTaking, Show, Destroy, Abort, Wait, jvars
  <2>4. QED
    BY <2>2, <2>3
<1>5. CASE \E h \in Handlers : Click(h)
  BY <1>5 DEF Click, First, Handlers, jvars
<1>6. QED
  BY <1>2, <1>3, <1>4, <1>5

LEMMA ListWorker ==
  ASSUME MainTypeOK, ListInv, listed' = listed, gui' = gui,
         TestProject \/ EmptyJob \/ TestScan \/ BeginTaking \/ EndTaking
           \/ FailTaking \/ Finish \/ Acquire \/ TestAbort
  PROVE  ListInv'
<1> USE JobsDiffer DEF ListInv, ScanDue, AskDue, WorkerGoes
<1>1. CASE TestScan
  BY <1>1 DEF TestScan
<1>2. CASE Finish
  BY <1>2 DEF Finish
<1>3. CASE TestProject \/ EmptyJob \/ Acquire \/ TestAbort
  BY <1>3 DEF TestProject, EmptyJob, Acquire, TestAbort
<1>4. CASE BeginTaking \/ EndTaking \/ FailTaking
  BY <1>4 DEF BeginTaking, EndTaking, FailTaking
<1>5. QED
  BY <1>1, <1>2, <1>3, <1>4

LEMMA ListStep ==
  ASSUME MainTypeOK, WakeInv, ListInv, [FrontNext]_frontVars
  PROVE  ListInv'
<1>1. CASE ProcNext \/ ProcAborted \/ UNCHANGED frontVars
  BY <1>1, ProcKeeps DEF ListInv, ScanDue, AskDue
<1>2. CASE ClearList
  <2>1. gui' = [gui EXCEPT !.at = IF whattodo = Project THEN "idle" ELSE "request"]
    BY <1>2 DEF ClearList, Guard, GuiGoes
  <2>2. gui'.at = IF whattodo = Project THEN "idle" ELSE "request"
    BY <2>1 DEF MainTypeOK
  <2>3. worker' = worker /\ whattodo' = whattodo
    BY <1>2 DEF ClearList, Guard, jvars
  <2>4. QED
    BY <1>2, <2>2, <2>3, JobsDiffer DEF ClearList, ListInv, ScanDue, AskDue
<1>3. CASE AddDevices
  <2>1. worker = "scanning" /\ worker' = "finish" /\ gui' = gui
        /\ listed' = listed + 1
    BY <1>3 DEF AddDevices, EndScan, WorkerGoes
  <2>2. QED
    BY <2>1 DEF ListInv, ScanDue, AskDue
<1>4. CASE Elsewhere
  BY <1>4, ListGui, ListWorker DEF Elsewhere
<1>5. QED
  BY <1>1, <1>2, <1>3, <1>4 DEF FrontNext, JobStep

-----------------------------------------------------------------------------
(* The theorems *)

FrontInv == MainTypeOK /\ WakeInv /\ ListInv

LEMMA FrontStart ==
  ASSUME FrontInit
  PROVE  FrontInv
<1>1. ListInv
  BY JobsDiffer DEF FrontInit, Init, JobInit, First, ListInv, ScanDue, AskDue
<1>2. QED
  BY <1>1, InitType, WakeStart DEF FrontInit, FrontInv

LEMMA FrontStep ==
  ASSUME FrontInv, [FrontNext]_frontVars
  PROVE  FrontInv'
<1> USE DEF FrontInv
<1>1. ListInv'
  BY ListStep
<1>2. CASE JobStep
  BY <1>1, <1>2, JobIsNext, NextType, WakeStep
<1>3. CASE ProcNext \/ ProcAborted \/ UNCHANGED frontVars
  BY <1>1, <1>3, ProcKeeps DEF MainTypeOK, WakeInv, WakeUpDue
<1>4. QED
  BY <1>2, <1>3 DEF FrontNext

LEMMA FrontInvariant == FrontSpec => []FrontInv
BY FrontStart, FrontStep, PTL DEF FrontSpec

(* The variables the three threads of the front end share keep their       *)
(* types, for any number of clicks.                                        *)
THEOREM FrontTypeCorrect == FrontSpec => []MainTypeOK
BY FrontInvariant, PTL DEF FrontInv

(* No request of the window is slept through by the worker, whatever the   *)
(* order of the three threads' steps.                                      *)
THEOREM FrontNoLostWakeup == FrontSpec => []NoLostWakeup
<1>1. FrontInv => NoLostWakeup
  BY DEF FrontInv, MainTypeOK, WakeInv, NoLostWakeup, Asleep
<1>2. QED
  BY <1>1, FrontInvariant, PTL

(* If take_screen keeps a stop, the Stop button reaches every projection.  *)
THEOREM FrontStopReaches ==
  ASSUME StopKept = TRUE
  PROVE  FrontSpec => []StopReaches
<1>1. FrontInit => FrontInv /\ StopInv
  BY FrontStart, JobsDiffer DEF FrontInit, Init, JobInit, StopInv, InTaking, First
<1>2. FrontInv /\ StopInv /\ [FrontNext]_frontVars => FrontInv' /\ StopInv'
  <2>1. SUFFICES ASSUME FrontInv, StopInv, [FrontNext]_frontVars
                 PROVE  StopInv'
    BY FrontStep
  <2>2. CASE JobStep
    BY <2>1, <2>2, JobIsNext, StopStep DEF FrontInv
  <2>3. CASE ProcNext \/ ProcAborted \/ UNCHANGED frontVars
    BY <2>1, <2>3, ProcKeeps DEF FrontInv, StopInv, InTaking
  <2>4. QED
    BY <2>1, <2>2, <2>3 DEF FrontNext
<1>3. StopInv => StopReaches
  BY DEF StopInv, InTaking, StopReaches
<1>4. QED
  BY <1>1, <1>2, <1>3, PTL DEF FrontSpec

(* OnBtnScanningClicked clears the list and asks for a scan in two steps,  *)
(* and OnGetDevices adds to it in between: never more than twice, for any  *)
(* number of clicks.                                                       *)
THEOREM ListedTwiceCorrect == FrontSpec => []ListedTwiceAtMost
<1>1. FrontInv => ListedTwiceAtMost
  BY DEF FrontInv, ListInv, ListedTwiceAtMost
<1>2. QED
  BY <1>1, FrontInvariant, PTL

=============================================================================

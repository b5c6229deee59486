------------------------------ MODULE MainWindow ------------------------------
(***************************************************************************)
(* The Windows front end: the buttons of src/win32/mainWindow.cpp and the  *)
(* methods of the job they call, in the window's thread, next to the       *)
(* worker of CoreJob.                                                      *)
(*                                                                         *)
(* A handler runs from one access to shared state to the next; gui says    *)
(* which handler runs and what it is about to do.  Clicks that only show a *)
(* message or set an option change nothing here.                           *)
(***************************************************************************)
EXTENDS CoreJob

CONSTANT MaxClicks   \* bound: clicks

ASSUME MaxClicksType == MaxClicks \in Nat

VARIABLES
  gui,      \* the handler that runs and its next step
  clicks    \* clicks so far

vars == <<whattodo, semJob, reqAbort, destroyed, stop, worker, status,
          gui, clicks>>

Handlers == {"project", "scan", "stop", "exit", "close"}

GuiSteps == {"idle", "guard", "request", "release", "testJob", "stopTaking",
             "reset", "show", "destroy", "abort", "wait", "gone"}

(* The first step of a handler.                                            *)
First(h) == CASE h = "project" -> "request"
              [] h = "scan"    -> "guard"
              [] h = "exit"    -> "abort"
              [] OTHER         -> "testJob"

(* The constructor ends like a click on "Scan devices".                    *)
Init ==
  /\ JobInit
  /\ gui = [of |-> "scan", at |-> First("scan")]
  /\ clicks = 0

GuiGoes(to) == gui' = [gui EXCEPT !.at = to]

Click(h) ==
  /\ gui.at = "idle"
  /\ clicks < MaxClicks
  /\ gui' = [of |-> h, at |-> First(h)]
  /\ clicks' = clicks + 1
  /\ UNCHANGED jvars

-----------------------------------------------------------------------------
(* Requests *)

(* OnBtnScanningClicked: no scan while a projection is asked for.          *)
Guard ==
  /\ gui.at = "guard"
  /\ GuiGoes(IF whattodo = Project THEN "idle" ELSE "request")
  /\ UNCHANGED <<jvars, clicks>>

(* Mutant: the semaphore is not released after a request.                  *)
Request_NoRelease ==
  /\ gui.at = "request"
  /\ GuiGoes(IF gui.of = "scan" THEN "show" ELSE "idle")
  /\ whattodo' = IF gui.of = "project" THEN Project ELSE Scan
  /\ UNCHANGED <<semJob, reqAbort, destroyed, stop, worker, status, clicks>>

Request ==
  /\ gui.at = "request"
  /\ GuiGoes("release")
  /\ whattodo' = IF gui.of = "project" THEN Project ELSE Scan
  /\ UNCHANGED <<semJob, reqAbort, destroyed, stop, worker, status, clicks>>

(* What follows OnExit, or the release of a request.                       *)
Afterwards == CASE gui.of = "project" -> "idle"
                [] gui.of = "scan"    -> "show"
                [] gui.of = "exit"    -> "wait"
                [] OTHER              -> "reset"

Release ==
  /\ gui.at = "release"
  /\ GuiGoes(Afterwards)
  /\ semJob' = semJob + 1
  /\ UNCHANGED <<whattodo, reqAbort, destroyed, stop, worker, status, clicks>>

(* CoreJob's OnExit stops a projection and wakes the worker otherwise.     *)
TestJob ==
  /\ gui.at = "testJob"
  /\ GuiGoes(IF whattodo = Project THEN "stopTaking" ELSE "release")
  /\ UNCHANGED <<jvars, clicks>>

(* Mutant: the stop is not given.                                          *)
StopTaking_Not ==
  /\ gui.at = "stopTaking"
  /\ GuiGoes(Afterwards)
  /\ UNCHANGED <<jvars, clicks>>

StopTaking ==
  /\ gui.at = "stopTaking"
  /\ GuiGoes(Afterwards)
  /\ stop' = TRUE
  /\ UNCHANGED <<whattodo, semJob, reqAbort, destroyed, worker, status, clicks>>

Reset ==
  /\ gui.at = "reset"
  /\ GuiGoes("show")
  /\ whattodo' = DoNothing
  /\ UNCHANGED <<semJob, reqAbort, destroyed, stop, worker, status, clicks>>

Show ==
  /\ gui.at = "show"
  /\ GuiGoes(IF gui.of = "close" THEN "destroy" ELSE "idle")
  /\ status' = IF gui.of = "scan" THEN "scanning" ELSE "welcome"
  /\ UNCHANGED <<whattodo, semJob, reqAbort, destroyed, stop, worker, clicks>>

-----------------------------------------------------------------------------
(* The end *)

(* The window is closed: the application ends and deletes the job, which   *)
(* is a UIJob by the time ~UIJob calls abort.                              *)
Destroy ==
  /\ gui.at = "destroy"
  /\ GuiGoes("abort")
  /\ destroyed' = TRUE
  /\ UNCHANGED <<whattodo, semJob, reqAbort, stop, worker, status, clicks>>

(* abort sets m_reqAbort and calls OnExit; UIJob's does nothing.           *)
Abort ==
  /\ gui.at = "abort"
  /\ GuiGoes(IF destroyed THEN "wait" ELSE "testJob")
  /\ reqAbort' = TRUE
  /\ UNCHANGED <<whattodo, semJob, destroyed, stop, worker, status, clicks>>

Wait ==
  /\ gui.at = "wait"
  /\ worker = "finished"
  /\ GuiGoes("gone")
  /\ UNCHANGED <<jvars, clicks>>

GuiProceeds ==
  \/ Guard \/ Request \/ Release
  \/ TestJob \/ StopTaking \/ Reset \/ Show
  \/ Destroy \/ Abort \/ Wait

GuiNext == GuiProceeds \/ \E h \in Handlers : Click(h)

Work == WorkerNext /\ UNCHANGED <<gui, clicks>>

Next == Work \/ GuiNext

Spec == Init /\ [][Next]_vars

(* Both threads run: a handler goes on, and the worker goes on when it can.*)
(* Nobody has to click, and take_screen does not have to fail.             *)
Fairness ==
  /\ WF_vars(GuiProceeds)
  /\ WF_vars(WorkerProceeds /\ UNCHANGED <<gui, clicks>>)

FairSpec == Spec /\ Fairness

-----------------------------------------------------------------------------
(* Properties *)

(* The shared variables of the two threads keep their types.               *)
MainTypeOK ==
  /\ whattodo \in {DoNothing, Project, Scan}
  /\ semJob \in Nat
  /\ reqAbort \in BOOLEAN /\ destroyed \in BOOLEAN /\ stop \in BOOLEAN
  /\ worker \in WorkerSteps
  /\ status \in StatusTexts
  /\ gui \in [of : Handlers, at : GuiSteps]
  /\ clicks \in Nat

(* The window's thread has written a request and will release the          *)
(* semaphore next.                                                         *)
WakeUpDue == gui.at = "release" /\ gui.of \in {"project", "scan"}

(* No wake-up is lost: the worker never sleeps while m_whattodo holds a    *)
(* request, unless its release is on the way, although it reads m_whattodo *)
(* without a lock and goes to sleep after that.                            *)
NoLostWakeup == Asleep /\ whattodo # DoNothing => WakeUpDue

(* A projection that goes on when m_whattodo no longer says so has been    *)
(* told to stop: no handler can take the job away from a projection before *)
(* stopping it.  (Only when a stop is kept until take_screen sees it.)     *)
StopReaches ==
  worker \in {"takeScreen", "taking"} /\ whattodo # Project => stop

(* The worker does not spin: with nothing to do and nobody clicking, it    *)
(* uses up the releases of earlier clicks and falls asleep.                *)
Rests ==
  gui.at = "idle" /\ whattodo = DoNothing ~>
    Asleep \/ gui.at # "idle" \/ worker = "taking"

(* Closing the window ends the program.                                    *)
CloseEnds == gui.of = "close" ~> gui.at = "gone"

(* A request that is written while the worker sleeps is served, unless     *)
(* another click comes first: only the worker's own reset can lose one.    *)
AskedAsleepServed ==
  \A n \in 0 .. MaxClicks :
    gui.at = "request" /\ Asleep /\ clicks = n
      ~> worker \in {"taking", "scanning"} \/ clicks > n

=============================================================================

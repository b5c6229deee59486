------------------------------ MODULE FrontEnd -------------------------------
(***************************************************************************)
(* The Windows front end with what MainWindow leaves out: the list of      *)
(* devices, which the window's thread clears and the worker fills          *)
(* (OnBtnScanningClicked and OnGetDevices of src/win32/mainWindow.cpp),    *)
(* and the second job, MessageProcJob of src/win32/UIJob.cpp, a thread     *)
(* that polls for messages and writes them to the status bar.              *)
(*                                                                         *)
(* A scan finds the same devices each time: the list is known by how often *)
(* it holds them.  The queue of messages is not part of the repository.    *)
(***************************************************************************)
EXTENDS MainWindow

VARIABLES
  listed,     \* how often the list holds the devices
  proc,       \* what the message thread is about to do
  procAbort   \* its m_reqAbort

frontVars == <<vars, listed, proc, procAbort>>

FrontInit ==
  /\ Init
  /\ listed = 0
  /\ proc = "poll" /\ procAbort = FALSE

-----------------------------------------------------------------------------
(* The list *)

(* Mutant: the list is not cleared before a scan.                          *)
ClearList_Not == Guard /\ listed' = listed

(* Unless a projection is asked for, the handler clears the list.          *)
ClearList ==
  /\ Guard
  /\ listed' = IF whattodo = Project THEN listed ELSE 0

(* OnGetDevices adds the devices that were found.                          *)
AddDevices == EndScan /\ listed' = listed + 1 /\ UNCHANGED <<gui, clicks>>

(* What does not touch the list.                                           *)
Elsewhere ==
  /\ \/ Request \/ Release \/ TestJob \/ StopTaking \/ Reset \/ Show
     \/ Destroy \/ Abort \/ Wait
     \/ \E h \in Handlers : Click(h)
     \/ /\ \/ TestProject \/ EmptyJob \/ TestScan
           \/ BeginTaking \/ EndTaking \/ FailTaking \/ Finish
           \/ Acquire \/ TestAbort
        /\ UNCHANGED <<gui, clicks>>
  /\ UNCHANGED listed

JobStep == (ClearList \/ AddDevices \/ Elsewhere) /\ UNCHANGED <<proc, procAbort>>

-----------------------------------------------------------------------------
(* The message thread *)

ProcGoes(from, to) == proc = from /\ proc' = to

NoMessage ==
  /\ ProcGoes("poll", "sleep")
  /\ UNCHANGED <<vars, listed, procAbort>>

(* A message for the window: OnMessage shows its text.                     *)
GetMessage ==
  /\ ProcGoes("poll", "sleep")
  /\ status' = "message"
  /\ UNCHANGED <<whattodo, semJob, reqAbort, destroyed, stop, worker,
                 gui, clicks, listed, procAbort>>

(* doWork sleeps for 200 milliseconds, and ends when it is told to.        *)
ProcSleep ==
  /\ ProcGoes("sleep", IF procAbort THEN "finished" ELSE "poll")
  /\ UNCHANGED <<vars, listed, procAbort>>

ProcNext == NoMessage \/ GetMessage \/ ProcSleep

(* Mutant: only the first job is told to end.                              *)
ProcAborted_Not ==
  /\ gui.at = "gone" /\ ~ procAbort
  /\ UNCHANGED frontVars

(* Once the worker has ended, the message job is told to end as well; its  *)
(* OnExit does nothing.  The handler, or the destructor, waits for it.     *)
ProcAborted ==
  /\ gui.at = "gone" /\ ~ procAbort
  /\ procAbort' = TRUE
  /\ UNCHANGED <<vars, listed, proc>>

-----------------------------------------------------------------------------

FrontNext == JobStep \/ ProcNext \/ ProcAborted

FrontSpec == FrontInit /\ [][FrontNext]_frontVars

(* All three threads run; take_screen does not have to fail, and nobody    *)
(* has to click.                                                           *)
FrontFairness ==
  /\ WF_frontVars(ProcNext)
  /\ WF_frontVars(ProcAborted)
  /\ WF_frontVars(GuiProceeds /\ JobStep)
  /\ WF_frontVars(WorkerProceeds /\ JobStep)

FrontFairSpec == FrontSpec /\ FrontFairness

-----------------------------------------------------------------------------
(* Properties *)

(* However clicks and scans fall, the list never holds the devices more    *)
(* than twice: the clear and the request of a click are two steps, and     *)
(* only the scan that runs in between is added to.                         *)
ListedTwiceAtMost == listed <= 2

(* The Exit button ends all three threads, whatever the worker does and    *)
(* whatever was clicked before.  (Only when a stop is kept.)               *)
ExitEndsAll ==
  gui.of = "exit" ~>
    gui.at = "gone" /\ worker = "finished" /\ proc = "finished"

=============================================================================

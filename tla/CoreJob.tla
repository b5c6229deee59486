------------------------------- MODULE CoreJob -------------------------------
(***************************************************************************)
(* The worker thread of the Windows front end: src/win32/UIJob.cpp.        *)
(*                                                                         *)
(* A thread runs doWork, which calls OnJob until m_reqAbort is set.  The   *)
(* job to do is in m_whattodo, a plain int that the window's thread writes *)
(* too; with nothing to do, OnJob sleeps on the semaphore m_semJob.  Every *)
(* access to what the threads share is a step of its own.                  *)
(*                                                                         *)
(* take_screen and stop_taking_screen are not part of the repository.  All *)
(* that is known is that take_screen runs until it is stopped or fails.    *)
(***************************************************************************)
EXTENDS Integers

CONSTANT StopKept   \* a stop given before take_screen runs stops it later

ASSUME StopKeptType == StopKept \in BOOLEAN

VARIABLES
  whattodo,    \* m_whattodo
  semJob,      \* the count of m_semJob
  reqAbort,    \* m_reqAbort
  destroyed,   \* ~CoreJob has run: OnJob and OnExit are those of UIJob
  stop,        \* a stop that take_screen has not seen yet
  worker,      \* what the worker is about to do
  status       \* the text of the status bar

jvars == <<whattodo, semJob, reqAbort, destroyed, stop, worker, status>>

DoNothing == -1
Project == 1
Scan == 2

WorkerSteps == {"onJob", "testScan", "takeScreen", "taking", "scanning",
                "finish", "acquire", "testAbort", "finished"}

(* The texts of the status bar; "message" is any text of OnMessage.        *)
StatusTexts == {"welcome", "scanning", "message"}

JobInit ==
  /\ whattodo = DoNothing
  /\ semJob = 1
  /\ reqAbort = FALSE /\ destroyed = FALSE /\ stop = FALSE
  /\ worker = "onJob"
  /\ status = "welcome"

WorkerGoes(from, to) == worker = from /\ worker' = to

-----------------------------------------------------------------------------

(* OnJob reads m_whattodo twice.                                           *)
TestProject ==
  /\ ~ destroyed
  /\ WorkerGoes("onJob", IF whattodo = Project THEN "takeScreen" ELSE "testScan")
  /\ UNCHANGED <<whattodo, semJob, reqAbort, destroyed, stop, status>>

(* UIJob's OnJob does nothing.                                             *)
EmptyJob ==
  /\ destroyed
  /\ WorkerGoes("onJob", "testAbort")
  /\ UNCHANGED <<whattodo, semJob, reqAbort, destroyed, stop, status>>

TestScan ==
  /\ WorkerGoes("testScan", IF whattodo = Scan THEN "scanning" ELSE "acquire")
  /\ UNCHANGED <<whattodo, semJob, reqAbort, destroyed, stop, status>>

BeginTaking ==
  /\ WorkerGoes("takeScreen", "taking")
  /\ stop' = (StopKept /\ stop)
  /\ UNCHANGED <<whattodo, semJob, reqAbort, destroyed, status>>

EndTaking ==
  /\ stop
  /\ WorkerGoes("taking", "finish")
  /\ stop' = FALSE
  /\ UNCHANGED <<whattodo, semJob, reqAbort, destroyed, status>>

FailTaking ==
  /\ WorkerGoes("taking", "finish")
  /\ UNCHANGED <<whattodo, semJob, reqAbort, destroyed, stop, status>>

(* The devices are found and listed, by OnGetDevices.                      *)
EndScan ==
  /\ WorkerGoes("scanning", "finish")
  /\ status' = "welcome"
  /\ UNCHANGED <<whattodo, semJob, reqAbort, destroyed, stop>>

Finish ==
  /\ WorkerGoes("finish", "testAbort")
  /\ whattodo' = DoNothing
  /\ UNCHANGED <<semJob, reqAbort, destroyed, stop, status>>

(* Mutant: the worker does not wait for the semaphore.                     *)
Acquire_NoWait ==
  /\ WorkerGoes("acquire", "testAbort")
  /\ semJob' = semJob - 1
  /\ UNCHANGED <<whattodo, reqAbort, destroyed, stop, status>>

(* Mutant: the semaphore is only looked at.                                *)
Acquire_Peek ==
  /\ semJob > 0
  /\ WorkerGoes("acquire", "testAbort")
  /\ UNCHANGED <<whattodo, semJob, reqAbort, destroyed, stop, status>>

(* Mutant: the request is reset after the wait as well.                    *)
Acquire_Resets ==
  /\ semJob > 0
  /\ WorkerGoes("acquire", "testAbort")
  /\ semJob' = semJob - 1
  /\ whattodo' = DoNothing
  /\ UNCHANGED <<reqAbort, destroyed, stop, status>>

Acquire ==
  /\ semJob > 0
  /\ WorkerGoes("acquire", "testAbort")
  /\ semJob' = semJob - 1
  /\ UNCHANGED <<whattodo, reqAbort, destroyed, stop, status>>

TestAbort ==
  /\ WorkerGoes("testAbort", IF reqAbort THEN "finished" ELSE "onJob")
  /\ UNCHANGED <<whattodo, semJob, reqAbort, destroyed, stop, status>>

(* What the worker does once it is scheduled; a failure is never certain.  *)
WorkerProceeds ==
  \/ TestProject \/ EmptyJob \/ TestScan
  \/ BeginTaking \/ EndTaking \/ EndScan \/ Finish
  \/ Acquire \/ TestAbort

WorkerNext == WorkerProceeds \/ FailTaking

(* The worker sleeps on the semaphore.                                     *)
Asleep == worker = "acquire" /\ semJob = 0

=============================================================================

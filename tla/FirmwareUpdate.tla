--------------------------- MODULE FirmwareUpdate ---------------------------
(***************************************************************************)
(* An update of the firmware over HTTP (app/OTA.c, app/Main.c and          *)
(* HAPPlatformSyslog.c, over OTAFile).  The HTTP task asks the main task   *)
(* to leave the run loop and waits for its notification; the main task     *)
(* suspends the UART task, cleans up and notifies; the HTTP task receives  *)
(* the image and resets the device, which starts the new image under a     *)
(* watchdog timer; the main task of the new image accepts it when it has   *)
(* come up.  Power may fail at any time.                                   *)
(***************************************************************************)
EXTENDS OTAFile

CONSTANTS
  Working,       \* the images that come up when they are started
  MaxUploads,    \* bound: uploads
  MaxPowerCuts   \* bound: power cuts

ASSUME FirmwareUpdateAssumption ==
  /\ Working \subseteq Images
  /\ Factory \in Working
  /\ MaxUploads \in Nat
  /\ MaxPowerCuts \in Nat

VARIABLES
  remoteLogging,  \* the firmware is built with HAP_LOG_REMOTE: every log
                  \* entry goes through syslog
  running,        \* the image that runs
  watchdog,       \* the watchdog timer runs
  main,           \* where the main task is
  uart,           \* the UART task runs or is suspended
  mutex,          \* who holds syslog.mutex
  stopRequested,  \* a request to stop waits in the run loop's socket
  notified,       \* the HTTP task's pending notification
  upload,         \* the image the client sends
  uploads, cuts   \* how much of each bound is used

mainVars == <<main, uart, stopRequested, notified>>
imageVars == <<running, watchdog>>
outsideVars == <<remoteLogging, upload, uploads, cuts>>
vars == <<fileVars, imageVars, mainVars, mutex, outsideVars>>

Init ==
  /\ FileInit
  /\ remoteLogging \in BOOLEAN
  /\ running = Factory
  /\ watchdog = FALSE
  /\ main = "start"
  /\ uart = "running"
  /\ mutex = "free"
  /\ stopRequested = FALSE
  /\ notified = FALSE
  /\ upload = Factory
  /\ uploads = 0
  /\ cuts = 0

-----------------------------------------------------------------------------
(* The main task *)

RunLoopCreate ==
  /\ main = "start"
  /\ main' = "init"
  /\ UNCHANGED <<fileVars, imageVars, uart, stopRequested, notified, mutex, outsideVars>>

\* HAPPlatformOTASetImageState stops the watchdog timer, then commits; its
\* result is ignored.
Accept ==
  /\ watchdog' = FALSE
  /\ \/ committed' = image /\ fileState' = "none" /\ UNCHANGED failures
     \/ UNCHANGED <<committed, fileState>> /\ Fails

\* Mutant: the image is accepted before the accessory server has started.
AcceptEarly ==
  /\ main = "init"
  /\ IF fileState = "pending" THEN Accept ELSE UNCHANGED <<watchdog, committed, fileState, failures>>
  /\ main' = "loop"
  /\ UNCHANGED <<image, content, bootInfo, contextVars, http, running, uart, stopRequested, notified,
                 mutex, outsideVars>>

\* Only an image that works gets as far as this.
EnterLoop ==
  /\ main = "init"
  /\ running \in Working
  /\ IF fileState = "pending" THEN Accept ELSE UNCHANGED <<watchdog, committed, fileState, failures>>
  /\ main' = "loop"
  /\ UNCHANGED <<image, content, bootInfo, contextVars, http, running, uart, stopRequested,
                 notified, mutex, outsideVars>>

LeaveLoop ==
  /\ main = "loop"
  /\ stopRequested
  /\ stopRequested' = FALSE
  /\ main' = "stopped"
  /\ UNCHANGED <<fileVars, imageVars, uart, notified, mutex, outsideVars>>

\* vTaskSuspend(uartTaskHandle), wherever the UART task is.
SuspendUART ==
  /\ main = "stopped"
  /\ uart' = "suspended"
  /\ main' = "cleanup"
  /\ UNCHANGED <<fileVars, imageVars, stopRequested, notified, mutex, outsideVars>>

\* Mutant: the main task suspends itself first.
SuspendedBeforeNotifying ==
  /\ main = "cleanup"
  /\ main' = "suspended"
  /\ UNCHANGED <<fileVars, imageVars, uart, stopRequested, notified, mutex, outsideVars>>

\* What PlatformDeinitialize and the others release is not modelled here.
CleanUpAndNotify ==
  /\ main = "cleanup"
  /\ notified' = TRUE
  /\ main' = "suspended"
  /\ UNCHANGED <<fileVars, imageVars, uart, stopRequested, mutex, outsideVars>>

MainStep == RunLoopCreate \/ EnterLoop \/ LeaveLoop \/ SuspendUART \/ CleanUpAndNotify

-----------------------------------------------------------------------------
(* HAPPlatformSyslogCapture, in the UART task *)

CaptureStarts ==
  /\ remoteLogging
  /\ uart = "running"
  /\ main # "start"
  /\ mutex = "free"
  /\ mutex' = "uart"
  /\ UNCHANGED <<fileVars, imageVars, mainVars, outsideVars>>

CaptureEnds ==
  /\ uart = "running"
  /\ mutex = "uart"
  /\ mutex' = "free"
  /\ UNCHANGED <<fileVars, imageVars, mainVars, outsideVars>>

-----------------------------------------------------------------------------
(* The HTTP task: OTAPutCallback *)

\* A request without Content-Type is left without a response.  A request to
\* stop is lost while the run loop's socket does not exist.
ReceivePut(i) ==
  /\ http = "idle"
  /\ uploads < MaxUploads
  /\ uploads' = uploads + 1
  /\ upload' = i
  /\ \/ UNCHANGED <<http, stopRequested>>
     \/ http' = "await" /\ stopRequested' = (main # "start")
  /\ UNCHANGED <<flashVars, contextVars, failures, remoteLogging, imageVars, main, uart,
                 notified, mutex, cuts>>

\* Mutant: the HTTP task does not wait for the main task.
NotWaiting ==
  /\ http = "await"
  /\ notified' = FALSE
  /\ http' = "quiet"
  /\ UNCHANGED <<flashVars, contextVars, failures, imageVars, main, uart, stopRequested,
                 mutex, outsideVars>>

TakeNotification ==
  /\ http = "await"
  /\ notified
  /\ notified' = FALSE
  /\ http' = "quiet"
  /\ UNCHANGED <<flashVars, contextVars, failures, imageVars, main, uart, stopRequested,
                 mutex, outsideVars>>

SyslogSuspend ==
  /\ http = "quiet"
  /\ mutex = "free"
  /\ mutex' = "http"
  /\ http' = "create"
  /\ UNCHANGED <<flashVars, contextVars, failures, imageVars, mainVars, outsideVars>>

\* 201 Created, before the file is closed.
RespondCreated ==
  /\ http = "respond"
  /\ mutex' = "free"
  /\ http' = "close"
  /\ UNCHANGED <<flashVars, contextVars, failures, imageVars, mainVars, outsideVars>>

\* An abort resumes syslog, aborts the file and responds with 500.
FileStepOf ==
  /\ FileStep(upload)
  /\ mutex' = IF http = "abort" THEN "free" ELSE mutex
  /\ UNCHANGED <<imageVars, mainVars, outsideVars>>

-----------------------------------------------------------------------------
(* The device *)

\* It starts the image of a bundle that waits for a commit, under the
\* watchdog timer if the boot info file says so, or else the committed one.
Boot ==
  /\ running' = IF fileState' = "pending" THEN image ELSE committed
  /\ watchdog' = (fileState' = "pending" /\ bootInfo)
  /\ main' = "start"
  /\ uart' = "running"
  /\ mutex' = "free"
  /\ stopRequested' = FALSE
  /\ notified' = FALSE
  /\ FreshContext
  /\ UNCHANGED <<committed, image, content, bootInfo, failures, remoteLogging, upload, uploads>>

\* What becomes of the receive file.
AfterReset ==
  CASE fileState = "open" -> {"broken"}
    [] fileState = "pending" -> {"pending", "none"}
    [] OTHER -> {fileState}

\* HAPPlatformOTAResetDevice stops the network processor, which activates a
\* file that was closed.
ResetDevice ==
  /\ http = "reset"
  /\ fileState' \in IF fileState = "closed" THEN {"pending"} ELSE AfterReset
  /\ Boot
  /\ UNCHANGED cuts

PowerCut ==
  /\ cuts < MaxPowerCuts
  /\ cuts' = cuts + 1
  /\ fileState' \in IF fileState = "closed" THEN {"pending", "none"} ELSE AfterReset
  /\ Boot

\* The watchdog timer resets the device to the committed image.
WatchdogExpires ==
  /\ watchdog
  /\ fileState' = "none"
  /\ Boot
  /\ UNCHANGED cuts

Next ==
  \/ MainStep
  \/ CaptureStarts
  \/ CaptureEnds
  \/ \E i \in Images : ReceivePut(i)
  \/ TakeNotification
  \/ SyslogSuspend
  \/ RespondCreated
  \/ FileStepOf
  \/ ResetDevice
  \/ PowerCut
  \/ WatchdogExpires

Spec == Init /\ [][Next]_vars

HTTPStep == TakeNotification \/ SyslogSuspend \/ RespondCreated \/ FileStepOf \/ ResetDevice

\* Each task runs, the client sends its image or gives up, and an image that
\* does not come up runs into the watchdog timer.
Fairness ==
  /\ WF_vars(MainStep)
  /\ WF_vars(CaptureEnds)
  /\ WF_vars(HTTPStep)
  /\ WF_vars(WatchdogExpires)

FairSpec == Spec /\ Fairness

-----------------------------------------------------------------------------
(* Properties *)

TypeOK ==
  /\ FileTypeOK
  /\ remoteLogging \in BOOLEAN
  /\ running \in Images
  /\ watchdog \in BOOLEAN
  /\ main \in {"start", "init", "loop", "stopped", "cleanup", "suspended"}
  /\ uart \in {"running", "suspended"}
  /\ mutex \in {"free", "uart", "http"}
  /\ stopRequested \in BOOLEAN
  /\ notified \in BOOLEAN
  /\ upload \in Images
  /\ uploads \in 0..MaxUploads
  /\ cuts \in 0..MaxPowerCuts

\* An image is received while no other task runs that could use the flash or
\* the network.
UpdatesAlone == fileDescriptor => main = "suspended" /\ uart = "suspended"

\* The device can always go back to an image that works: only an image that
\* has come up is committed.
CommittedImageWorks == committed \in Working

\* An image that does not work runs only under the watchdog timer.
WatchdogGuards == running \notin Working => watchdog

\* A request to stop that reaches the run loop lets the update go through to
\* a reset of the device, whether it succeeds or not, as long as log entries
\* do not go through syslog.
UpdateEnds == http = "await" /\ stopRequested /\ ~remoteLogging ~> http = "idle"

\* The main task's notification unblocks the HTTP task for the update.
HTTPTaskUnblocked == http = "await" /\ notified ~> http \in {"create", "idle"}
=============================================================================

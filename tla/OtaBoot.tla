------------------------------- MODULE OtaBoot -------------------------------
(***************************************************************************)
(* The update of the application over the air, across resets: the boot     *)
(* loader (example/application_bootloader/main.c), the file commit library *)
(* (simplelink_extlib/flc) and the update state machine                    *)
(* (simplelink_extlib/ota).  Three programs share a file: the boot info    *)
(* names the active image and where the test of another one has got to.    *)
(* Each computes by itself which slot the other image is in.               *)
(*                                                                         *)
(* The serial flash is external.  Boot info and images are files with a    *)
(* mirror (_FS_FILE_OPEN_FLAG_COMMIT): what is written becomes visible at  *)
(* the close, and a reset or an abort before it leaves the old file.  So a *)
(* step is what happens up to one close, and a reset comes between steps.  *)
(* The network is external: any call that uses it may fail.                *)
(***************************************************************************)
EXTENDS Naturals, Sequences

CONSTANTS
  Images,         \* what an image file may hold
  NoImage,        \* the file does not exist
  UpdateLists,    \* lists of resources the server may offer
  FailingWrites   \* writes of the boot info that may fail

\* Slots: mcuimg1.bin is the factory default, mcuimg2.bin and mcuimg3.bin
\* take what is downloaded.
IMG_ACT_FACTORY == 0
IMG_ACT_USER1 == 1
IMG_ACT_USER2 == 2
Slots == {IMG_ACT_FACTORY, IMG_ACT_USER1, IMG_ACT_USER2}

\* A resource: the application image (mcuimgA.bin) or another file, and
\* whether its name asks for a reset (METADATA_FLAGS_RESET_MCU).
Resource == [mcu : BOOLEAN, reset : BOOLEAN]

ASSUME UpdateAssumption ==
  /\ NoImage \notin Images
  /\ UpdateLists \subseteq Seq(Resource) \ {<<>>}
  /\ FailingWrites \subseteq {"mark", "rollback", "commit", "test"}

VARIABLES
  image,           \* flash: the image in each slot
  bootInfo,        \* flash: /sys/mcubootinfo.bin
  pc,              \* what the processor is doing
  sBootInfo,       \* RAM: the copy of the boot info of the program that runs
  slot,            \* the slot the boot loader is about to load
  running,         \* the image that runs
  otaState,        \* state of sl_extLib_OtaRun
  updates,         \* resources not handled yet
  resource,        \* pResourceMetadata
  file,            \* the file open for writing
  resetMcu, isMCUAppUpdate

ota == <<otaState, updates, resource, file, resetMcu, isMCUAppUpdate>>
vars == <<image, bootInfo, pc, sBootInfo, slot, running, ota>>

Statuses == {"NOTEST", "TESTREADY", "TESTING"}
Info(active, status) == [ucActiveImg |-> active, ulImgStatus |-> status]
NoFile == Info(IMG_ACT_FACTORY, "NO_FILE")
Zeroed == Info(IMG_ACT_FACTORY, "ZERO")

\* What is open for writing: a slot, another file, or nothing.
OtherFile == 3
Closed == 4

OtaStates == {"IDLE", "CONNECT_SERVER", "RESOURCE_LIST", "METADATA", "CONNECT_CDN",
              "DOWNLOADING", "WAIT_CONFIRM"}
PCs == {"reset", "loader", "load", "stuck", "started", "pending", "ready", "reboot"}

Init ==
  /\ image \in [Slots -> Images \cup {NoImage}]
  /\ \E s \in Slots : image[s] # NoImage
  /\ bootInfo = NoFile
  /\ pc = "reset"
  /\ sBootInfo = Zeroed
  /\ slot = IMG_ACT_FACTORY
  /\ running = NoImage
  /\ otaState = "IDLE"
  /\ updates = <<>>
  /\ resource = [mcu |-> FALSE, reset |-> FALSE]
  /\ file = Closed
  /\ resetMcu = FALSE
  /\ isMCUAppUpdate = FALSE

-------------------------------------------------------------------------------
(* Boot info *)

\* _WriteBootInfo and BootInfoWrite: nobody looks at what they return.
WriteBootInfo(write, info) ==
  \/ bootInfo' = info
  \/ write \in FailingWrites /\ UNCHANGED bootInfo

\* _ReadBootInfo: the boot loader has made the file by then.
BootInfoRead == bootInfo

\* Where the image that is not active is: for a download, for a test and for
\* a commit, each written out in its place.
\* (a defective variant, to confirm that DownloadIsAlternate can fail)
McuImageGetNewIndexNoCase2(active) ==
  IF active = IMG_ACT_FACTORY THEN IMG_ACT_USER1 ELSE IMG_ACT_USER2

McuImageGetNewIndex(active) ==
  IF active = IMG_ACT_USER1 THEN IMG_ACT_USER2 ELSE IMG_ACT_USER1

TestSlot(active) ==
  IF active = IMG_ACT_USER1 THEN IMG_ACT_USER2 ELSE IMG_ACT_USER1

\* (a defective variant, to confirm that ImplementsUpdate can fail)
CommitSlotSwapped(active) ==
  IF active = IMG_ACT_USER2 THEN IMG_ACT_USER1 ELSE IMG_ACT_USER2

\* (a defective variant, to confirm that TypeOK can fail)
CommitSlotNext(active) == active + 1

CommitSlot(active) ==
  IF active = IMG_ACT_USER1 THEN IMG_ACT_USER2 ELSE IMG_ACT_USER1

-------------------------------------------------------------------------------
(* The boot loader *)

\* CreateDefaultBootInfo: the first image there is.
DefaultImg ==
  CHOOSE s \in Slots : image[s] # NoImage /\ \A r \in Slots : r < s => image[r] = NoImage

\* main: reads the boot info, or makes it when there is none.
BootRead ==
  /\ pc = "reset"
  /\ pc' = "loader"
  /\ IF bootInfo = NoFile
     THEN sBootInfo' = Info(DefaultImg, "NOTEST") /\ bootInfo' = sBootInfo'
     ELSE sBootInfo' = bootInfo /\ UNCHANGED bootInfo
  /\ UNCHANGED <<image, slot, running, ota>>

Load(s) == slot' = s /\ pc' = "load"

\* The status changes in RAM and in the file.
SetStatus(write, status) ==
  /\ sBootInfo' = [sBootInfo EXCEPT !.ulImgStatus = status]
  /\ WriteBootInfo(write, sBootInfo')

\* (a defective variant, to confirm that ReturnsToCommitted can fail)
ImageLoaderRepeatsTest ==
  /\ pc = "loader"
  /\ \/ /\ sBootInfo.ulImgStatus = "NOTEST"
        /\ Load(sBootInfo.ucActiveImg)
        /\ UNCHANGED <<bootInfo, sBootInfo>>
     \/ /\ sBootInfo.ulImgStatus \in {"TESTREADY", "TESTING"}
        /\ SetStatus("mark", "TESTING")
        /\ Load(TestSlot(sBootInfo.ucActiveImg))
  /\ UNCHANGED <<image, running, ota>>

\* ImageLoader: an image that waits for its test is marked before it is
\* loaded, and when the mark is found again the test has failed.
ImageLoader ==
  /\ pc = "loader"
  /\ \/ /\ sBootInfo.ulImgStatus = "NOTEST"
        /\ Load(sBootInfo.ucActiveImg)
        /\ UNCHANGED <<bootInfo, sBootInfo>>
     \/ /\ sBootInfo.ulImgStatus = "TESTREADY"
        /\ SetStatus("mark", "TESTING")
        /\ Load(TestSlot(sBootInfo.ucActiveImg))
     \/ /\ sBootInfo.ulImgStatus = "TESTING"
        /\ SetStatus("rollback", "NOTEST")
        /\ Load(sBootInfo.ucActiveImg)
  /\ UNCHANGED <<image, running, ota>>

\* LoadAndExecute: when the file is missing the boot loader ends in a loop.
LoadAndExecute ==
  /\ pc = "load"
  /\ IF image[slot] = NoImage
     THEN pc' = "stuck" /\ UNCHANGED <<sBootInfo, running>>
     ELSE pc' = "started" /\ running' = image[slot] /\ sBootInfo' = Zeroed
  /\ UNCHANGED <<image, bootInfo, slot, ota>>

-------------------------------------------------------------------------------
(* The application: at its start it commits or asks whether it has to, then *)
(* it runs the update, as the example application does.                     *)

CleanToIdle ==
  /\ otaState' = "IDLE"
  /\ resetMcu' = FALSE
  /\ isMCUAppUpdate' = FALSE

\* sl_extlib_FlcIsPendingCommit
FlcIsPendingCommit ==
  /\ pc = "started"
  /\ sBootInfo' = BootInfoRead
  /\ pc' = IF BootInfoRead.ulImgStatus = "TESTING" THEN "pending" ELSE "ready"
  /\ UNCHANGED <<image, bootInfo, slot, running, ota>>

\* sl_extLib_OtaSet(IMAGE_COMMIT), sl_extlib_FlcCommit(FLC_COMMITED). "No need
\* to reset the device": the application may go on.
FlcCommit ==
  /\ pc \in {"started", "pending"}
  /\ pc' = "ready"
  /\ IF BootInfoRead.ulImgStatus = "TESTING"
     THEN /\ sBootInfo' = Info(CommitSlot(BootInfoRead.ucActiveImg), "NOTEST")
          /\ WriteBootInfo("commit", sBootInfo')
     ELSE sBootInfo' = BootInfoRead /\ UNCHANGED bootInfo
  /\ CleanToIdle
  /\ UNCHANGED <<image, slot, running, updates, resource, file>>

\* sl_extlib_FlcCommit(FLC_NOT_COMMITED): a reset lets the boot loader roll back.
FlcNotCommitted ==
  /\ pc \in {"started", "pending"}
  /\ sBootInfo' = BootInfoRead
  /\ pc' = IF BootInfoRead.ulImgStatus = "TESTING" THEN "reboot" ELSE "ready"
  /\ CleanToIdle
  /\ UNCHANGED <<image, bootInfo, slot, running, updates, resource, file>>

\* (a defective variant, to confirm that NeverStuck can fail)
FlcTestAnyReset ==
  /\ pc = "ready"
  /\ otaState = "WAIT_CONFIRM"
  /\ pc' = IF resetMcu THEN "reboot" ELSE "ready"
  /\ IF resetMcu
     THEN /\ sBootInfo' = [BootInfoRead EXCEPT !.ulImgStatus = "TESTREADY"]
          /\ WriteBootInfo("test", sBootInfo')
     ELSE UNCHANGED <<sBootInfo, bootInfo>>
  /\ CleanToIdle
  /\ UNCHANGED <<image, slot, running, updates, resource, file>>

\* sl_extLib_OtaSet(IMAGE_TEST) once all is downloaded, sl_extlib_FlcTest: an
\* application image is to be tested after the reset that some file asked for.
FlcTest ==
  /\ pc = "ready"
  /\ otaState = "WAIT_CONFIRM"
  /\ pc' = IF resetMcu THEN "reboot" ELSE "ready"
  /\ IF resetMcu /\ isMCUAppUpdate
     THEN /\ sBootInfo' = [BootInfoRead EXCEPT !.ulImgStatus = "TESTREADY"]
          /\ WriteBootInfo("test", sBootInfo')
     ELSE UNCHANGED <<sBootInfo, bootInfo>>
  /\ CleanToIdle
  /\ UNCHANGED <<image, slot, running, updates, resource, file>>

-------------------------------------------------------------------------------
(* sl_extLib_OtaRun, one step per call *)

flash == <<image, bootInfo>>
host == <<pc, sBootInfo, slot, running>>

OtaIn(state) == pc = "ready" /\ otaState = state

\* A step to another state of the update, or with an error back to one.
OtaGoto(states) == \E s \in states : otaState' = s

\* OTA_STATE_IDLE
OtaConnectServer ==
  /\ OtaIn("IDLE")
  /\ \/ otaState' = "CONNECT_SERVER" /\ UNCHANGED <<resetMcu, isMCUAppUpdate>>
     \/ CleanToIdle
  /\ UNCHANGED <<flash, host, updates, resource, file>>

\* OTA_STATE_CONNECT_SERVER: the list of resources, or an error.
OtaUpdateCheck ==
  /\ OtaIn("CONNECT_SERVER")
  /\ \/ /\ otaState' = "RESOURCE_LIST"
        /\ updates' \in UpdateLists
        /\ UNCHANGED <<resetMcu, isMCUAppUpdate>>
     \/ CleanToIdle /\ UNCHANGED updates
  /\ UNCHANGED <<flash, host, resource, file>>

\* OTA_STATE_RESOURCE_LIST: the next resource, skipped when its metadata cannot
\* be had; after the last one the application confirms.
OtaNextResource ==
  /\ OtaIn("RESOURCE_LIST")
  /\ IF updates = <<>>
     THEN otaState' = "WAIT_CONFIRM" /\ UNCHANGED <<updates, resource>>
     ELSE /\ resource' = Head(updates)
          /\ updates' = Tail(updates)
          /\ OtaGoto({"METADATA", "RESOURCE_LIST"})
  /\ UNCHANGED <<flash, host, file, resetMcu, isMCUAppUpdate>>

\* OTA_STATE_METADATA
OtaConnectCdn ==
  /\ OtaIn("METADATA")
  /\ OtaGoto({"CONNECT_CDN", "RESOURCE_LIST"})
  /\ UNCHANGED <<flash, host, updates, resource, file, resetMcu, isMCUAppUpdate>>

\* OTA_STATE_CONNECT_CDN: sl_extlib_FlcOpenFile turns mcuimgA.bin into the slot
\* that the copy of the boot info in RAM says is not active.
OtaOpenFile ==
  /\ OtaIn("CONNECT_CDN")
  /\ \/ /\ otaState' = "DOWNLOADING"
        /\ file' = IF resource.mcu THEN McuImageGetNewIndex(sBootInfo.ucActiveImg)
                   ELSE OtherFile
     \/ otaState' = "RESOURCE_LIST" /\ UNCHANGED file
  /\ UNCHANGED <<flash, host, updates, resource, resetMcu, isMCUAppUpdate>>

\* OTA_STATE_DOWNLOADING: a chunk, an error (the file is aborted), or the last
\* chunk and the close. The reset is asked for even when the file failed.
OtaDownload ==
  /\ OtaIn("DOWNLOADING")
  /\ resetMcu' = (resetMcu \/ resource.reset)
  /\ \/ UNCHANGED <<image, otaState, file, isMCUAppUpdate>>
     \/ /\ otaState' = "RESOURCE_LIST"
        /\ file' = Closed
        /\ UNCHANGED <<image, isMCUAppUpdate>>
     \/ /\ otaState' = "RESOURCE_LIST"
        /\ file' = Closed
        /\ IF file \in Slots THEN \E i \in Images : image' = [image EXCEPT ![file] = i]
           ELSE UNCHANGED image
        /\ isMCUAppUpdate' = (isMCUAppUpdate \/ resource.mcu)
  /\ UNCHANGED <<bootInfo, host, updates, resource>>

OtaRun ==
  \/ OtaConnectServer \/ OtaUpdateCheck \/ OtaNextResource \/ OtaConnectCdn
  \/ OtaOpenFile \/ OtaDownload

-------------------------------------------------------------------------------
\* A reset, wanted or not: RAM is lost, and with it the file that was open.
Reset ==
  /\ pc # "reset"
  /\ pc' = "reset"
  /\ running' = NoImage
  /\ sBootInfo' = Zeroed
  /\ slot' = IMG_ACT_FACTORY
  /\ otaState' = "IDLE"
  /\ updates' = <<>>
  /\ resource' = [mcu |-> FALSE, reset |-> FALSE]
  /\ file' = Closed
  /\ resetMcu' = FALSE
  /\ isMCUAppUpdate' = FALSE
  /\ UNCHANGED flash

Next ==
  \/ BootRead \/ ImageLoader \/ LoadAndExecute
  \/ FlcIsPendingCommit \/ FlcCommit \/ FlcNotCommitted \/ FlcTest
  \/ OtaRun
  \/ Reset

Spec == Init /\ [][Next]_vars

\* The slot the device has committed to.
ActiveSlot == IF bootInfo = NoFile THEN DefaultImg ELSE bootInfo.ucActiveImg
Committed == image[ActiveSlot]

\* An image runs that the device has not committed to.
OnTrial == running \notin {NoImage, Committed}

(***************************************************************************)
(* The boot loader runs, and resets do not come at the same point of every *)
(* boot (strong fairness: a reset disables the steps).  The test of an     *)
(* image that does not commit ends in a reset, by a watchdog or by hand,   *)
(* and a reset that the update asked for is done.                          *)
(***************************************************************************)
FairSpec ==
  /\ Spec
  /\ WF_vars(BootRead)
  /\ SF_vars(ImageLoader)
  /\ SF_vars(LoadAndExecute)
  /\ WF_vars((OnTrial \/ pc = "reboot") /\ Reset)

-------------------------------------------------------------------------------
(* Properties *)

\* The variables hold what flash and RAM can hold.
TypeOK ==
  /\ image \in [Slots -> Images \cup {NoImage}]
  /\ bootInfo \in [ucActiveImg : Slots, ulImgStatus : Statuses] \cup {NoFile}
  /\ pc \in PCs
  /\ sBootInfo \in [ucActiveImg : Slots, ulImgStatus : Statuses] \cup {Zeroed}
  /\ slot \in Slots
  /\ running \in Images \cup {NoImage}
  /\ otaState \in OtaStates
  /\ updates \in Seq(Resource)
  /\ resource \in Resource
  /\ file \in Slots \cup {OtherFile, Closed}
  /\ resetMcu \in BOOLEAN
  /\ isMCUAppUpdate \in BOOLEAN

\* The image that is being downloaded does not replace the one the boot loader
\* falls back to ("mcuimgA.bin ... renaming it to alternate image", flc_api.h).
DownloadIsAlternate == file \in Slots => file # ActiveSlot

\* The boot loader never ends in its loop: what it decides to load is there.
NeverStuck == pc # "stuck"

(***************************************************************************)
(* The state as ImageUpdate sees it: the commitment is the content of the  *)
(* active slot, the trial that of the other slot while the status is       *)
(* TESTREADY.                                                              *)
(***************************************************************************)
Update == INSTANCE ImageUpdate WITH
  current <- Committed,
  trial <- IF bootInfo.ulImgStatus = "TESTREADY"
           THEN image[TestSlot(bootInfo.ucActiveImg)] ELSE NoImage,
  chosen <- IF pc = "load" THEN image[slot] ELSE NoImage

\* The three programs together implement ImageUpdate: whatever resets come in
\* between, only what ran is committed to, no download or failed test changes
\* the commitment, and a test is done once.
ImplementsUpdate == Update!Spec

\* A device that tests an image which never commits returns to the committed
\* one.
ReturnsToCommitted == OnTrial ~> (running # NoImage /\ ~ OnTrial)
===============================================================================

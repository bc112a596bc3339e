---------------------------- MODULE OtaBootProofs ----------------------------
(***************************************************************************)
(* Proofs about OtaBoot, for any images and any updates, when the writes   *)
(* of the boot info that mark, roll back and commit do not fail.           *)
(***************************************************************************)
EXTENDS OtaBoot, TLAPS

WritesDone == FailingWrites \subseteq {"test"}

-------------------------------------------------------------------------------
(* Types *)

\* Every program but the boot loader's start finds the boot info.
FileExists == pc # "reset" => bootInfo # NoFile

LEMMA DefaultImgExists ==
  ASSUME TypeOK, \E s \in Slots : image[s] # NoImage
  PROVE  DefaultImg \in Slots /\ image[DefaultImg] # NoImage
<1> DEFINE First(s) == image[s] # NoImage /\ \A r \in Slots : r < s => image[r] = NoImage
<1>1. \E s \in Slots : First(s)
  BY DEF Slots, IMG_ACT_FACTORY, IMG_ACT_USER1, IMG_ACT_USER2
<1>2. DefaultImg \in Slots /\ First(DefaultImg)
  <2> HIDE DEF First
  <2>1. DefaultImg = CHOOSE s \in Slots : First(s)
    BY DEF DefaultImg, First
  <2> QED
    BY <1>1, <2>1
<1> QED
  BY <1>2

LEMMA SlotFacts ==
  ASSUME NEW a \in Slots
  PROVE  /\ TestSlot(a) \in Slots \ {a}
         /\ CommitSlot(a) = TestSlot(a)
         /\ McuImageGetNewIndex(a) = TestSlot(a)
BY DEF TestSlot, CommitSlot, McuImageGetNewIndex, Slots, IMG_ACT_FACTORY, IMG_ACT_USER1,
       IMG_ACT_USER2

BootInfos == [ucActiveImg : Slots, ulImgStatus : Statuses]

LEMMA InfoFacts ==
  /\ NoFile \notin BootInfos
  /\ \A a \in Slots, s \in Statuses : Info(a, s) \in BootInfos
  /\ NoFile.ulImgStatus = "NO_FILE"
  /\ Zeroed \notin BootInfos
BY DEF NoFile, Zeroed, BootInfos, Info, Statuses

LEMMA TypeInit == Init => TypeOK /\ FileExists
<1> SUFFICES ASSUME Init
             PROVE  TypeOK /\ FileExists
  OBVIOUS
<1>1. resource \in Resource /\ updates \in Seq(Resource)
  BY DEF Init, Resource
<1>2. slot \in Slots
  BY DEF Init, Slots
<1> QED
  BY <1>1, <1>2 DEF Init, TypeOK, FileExists, PCs, OtaStates

\* The images and the boot info stay in their types, whatever fails.
LEMMA TypeStep ==
  ASSUME TypeOK, FileExists, (\E s \in Slots : image[s] # NoImage), [Next]_vars
  PROVE  TypeOK' /\ FileExists'
<1> USE InfoFacts DEF TypeOK, FileExists, PCs
<1> USE DEF BootInfos
<1>1. CASE BootRead
  <2>1. DefaultImg \in Slots
    BY DefaultImgExists
  <2>2. bootInfo' \in BootInfos /\ sBootInfo' \in BootInfos
    BY <1>1, <2>1 DEF BootRead, Statuses
  <2> QED
    BY <1>1, <2>2 DEF BootRead, ota
<1>2. CASE ImageLoader
  <2>1. sBootInfo \in BootInfos
    BY <1>2 DEF ImageLoader, Zeroed, Info
  <2>2. bootInfo' \in BootInfos /\ sBootInfo' \in BootInfos
    BY <1>2, <2>1 DEF ImageLoader, SetStatus, WriteBootInfo, Statuses
  <2>3. slot' \in Slots /\ pc' = "load"
    BY <1>2, <2>1, SlotFacts DEF ImageLoader, Load
  <2> QED
    BY <1>2, <2>2, <2>3 DEF ImageLoader, ota
<1>3. CASE LoadAndExecute
  BY <1>3 DEF LoadAndExecute, ota
<1>4. CASE FlcIsPendingCommit
  BY <1>4 DEF FlcIsPendingCommit, BootInfoRead, ota
<1>5. CASE FlcCommit
  <2>1. bootInfo \in BootInfos
    BY <1>5 DEF FlcCommit
  <2>2. bootInfo' \in BootInfos /\ sBootInfo' \in BootInfos
    BY <1>5, <2>1, SlotFacts DEF FlcCommit, WriteBootInfo, BootInfoRead, Statuses
  <2> QED
    BY <1>5, <2>2 DEF FlcCommit, CleanToIdle, OtaStates
<1>6. CASE FlcNotCommitted
  BY <1>6 DEF FlcNotCommitted, BootInfoRead, CleanToIdle, OtaStates
<1>7. CASE FlcTest
  <2>1. bootInfo \in BootInfos
    BY <1>7 DEF FlcTest
  <2>2. bootInfo' \in BootInfos /\ (sBootInfo' \in BootInfos \/ UNCHANGED sBootInfo)
    BY <1>7, <2>1 DEF FlcTest, WriteBootInfo, BootInfoRead, Statuses
  <2> QED
    BY <1>7, <2>2 DEF FlcTest, CleanToIdle, OtaStates
<1>8. CASE OtaRun
  <2>1. CASE OtaConnectServer
    BY <2>1 DEF OtaConnectServer, OtaIn, CleanToIdle, OtaStates, flash, host
  <2>2. CASE OtaUpdateCheck
    BY <2>2, UpdateAssumption DEF UpdateAssumption, OtaUpdateCheck, OtaIn, CleanToIdle, OtaStates,
       flash, host
  <2>3. CASE OtaNextResource
    <3>1. updates' \in Seq(Resource) /\ resource' \in Resource
      BY <2>3 DEF OtaNextResource
    <3> QED
      BY <2>3, <3>1 DEF OtaNextResource, OtaIn, OtaGoto, OtaStates, flash, host
  <2>4. CASE OtaConnectCdn
    BY <2>4 DEF OtaConnectCdn, OtaIn, OtaGoto, OtaStates, flash, host
  <2>5. CASE OtaOpenFile
    <3>1. bootInfo # NoFile
      BY <2>5 DEF OtaOpenFile, OtaIn
    <3>2. McuImageGetNewIndex(sBootInfo.ucActiveImg) \in Slots
      BY DEF McuImageGetNewIndex, Slots
    <3> QED
      BY <2>5, <3>2 DEF OtaOpenFile, OtaIn, OtaStates, flash, host
  <2>6. CASE OtaDownload
    <3>1. resetMcu' \in BOOLEAN /\ isMCUAppUpdate' \in BOOLEAN
      BY <2>6 DEF OtaDownload, Resource
    <3>2. image' \in [Slots -> Images \cup {NoImage}]
      BY <2>6 DEF OtaDownload
    <3> QED
      BY <2>6, <3>1, <3>2 DEF OtaDownload, OtaIn, OtaStates, host
  <2> QED
    BY <1>8, <2>1, <2>2, <2>3, <2>4, <2>5, <2>6 DEF OtaRun
<1>9. CASE Reset
  <2>1. resource' \in Resource /\ updates' \in Seq(Resource) /\ slot' \in Slots
    BY <1>9 DEF Reset, Resource, Slots
  <2> QED
    BY <1>9, <2>1 DEF Reset, flash, OtaStates
<1>10. CASE UNCHANGED vars
  BY <1>10 DEF vars, ota
<1> QED
  BY <1>1, <1>2, <1>3, <1>4, <1>5, <1>6, <1>7, <1>8, <1>9, <1>10 DEF Next

-------------------------------------------------------------------------------
(* The invariant *)

Active == bootInfo.ucActiveImg

\* What is in RAM is what is in the file, while the application may download.
RamIsFile == pc \in {"loader", "pending", "ready"} => sBootInfo = bootInfo

\* What is loaded or runs is what the status says.
StatusFits ==
  /\ pc = "load" =>
       \/ bootInfo.ulImgStatus = "TESTING" /\ slot = TestSlot(Active)
       \/ bootInfo.ulImgStatus = "NOTEST" /\ slot = Active
  /\ pc \in {"started", "pending"} =>
       \/ bootInfo.ulImgStatus = "TESTING" /\ running = image[TestSlot(Active)]
       \/ bootInfo.ulImgStatus = "NOTEST"
  /\ pc = "ready" => bootInfo.ulImgStatus = "NOTEST"

\* An application runs exactly while the boot loader does not.
AppRuns == running # NoImage <=> pc \in {"started", "pending", "ready", "reboot"}

\* There is an image wherever one may be loaded from.
ImagesExist ==
  /\ \E s \in Slots : image[s] # NoImage
  /\ bootInfo # NoFile => image[Active] # NoImage
  /\ bootInfo.ulImgStatus \in {"TESTREADY", "TESTING"} => image[TestSlot(Active)] # NoImage
  /\ isMCUAppUpdate => pc = "ready" /\ image[TestSlot(Active)] # NoImage

\* A file that is being downloaded is the one that is not active.
FileIsAlternate ==
  /\ file \in Slots => pc = "ready" /\ otaState = "DOWNLOADING" /\ file = TestSlot(Active)
  /\ otaState = "DOWNLOADING" /\ resource.mcu => file \in Slots

UpdateInv ==
  /\ TypeOK
  /\ FileExists
  /\ RamIsFile
  /\ StatusFits
  /\ AppRuns
  /\ ImagesExist
  /\ FileIsAlternate
  /\ NeverStuck

LEMMA UpdateInvInit == Init => UpdateInv
<1> SUFFICES ASSUME Init
             PROVE  UpdateInv
  OBVIOUS
<1>1. TypeOK /\ FileExists
  BY TypeInit
<1>2. ImagesExist
  BY InfoFacts DEF Init, ImagesExist
<1>3. FileIsAlternate
  BY DEF Init, FileIsAlternate, Closed, Slots, IMG_ACT_FACTORY, IMG_ACT_USER1, IMG_ACT_USER2
<1> QED
  BY <1>1, <1>2, <1>3 DEF Init, UpdateInv, RamIsFile, StatusFits, AppRuns, NeverStuck

\* The boot loader's steps.
LEMMA BootStep ==
  ASSUME WritesDone, UpdateInv, BootRead \/ ImageLoader \/ LoadAndExecute, TypeOK', FileExists'
  PROVE  UpdateInv'
<1> USE InfoFacts DEF UpdateInv, TypeOK, FileExists, BootInfos
<1>1. CASE BootRead
  <2>1. /\ bootInfo' \in BootInfos /\ sBootInfo' = bootInfo'
        /\ image[bootInfo'.ucActiveImg] # NoImage
        /\ bootInfo = NoFile => bootInfo'.ulImgStatus = "NOTEST"
        /\ bootInfo # NoFile => bootInfo' = bootInfo
    BY <1>1, DefaultImgExists DEF BootRead, Info, Statuses, ImagesExist, Active
  <2>2. ImagesExist'
    BY <1>1, <2>1 DEF BootRead, ImagesExist, Active, ota
  <2>3. FileIsAlternate'
    BY <1>1, <2>1 DEF BootRead, FileIsAlternate, ota
  <2> QED
    BY <1>1, <2>1, <2>2, <2>3 DEF BootRead, RamIsFile, StatusFits, AppRuns, NeverStuck
<1>2. CASE ImageLoader
  <2>1. bootInfo \in BootInfos /\ sBootInfo = bootInfo
    BY <1>2 DEF ImageLoader, RamIsFile
  <2>2. /\ bootInfo' \in BootInfos /\ Active' = Active
        /\ \/ /\ bootInfo.ulImgStatus \in {"NOTEST", "TESTING"}
              /\ bootInfo'.ulImgStatus = "NOTEST" /\ slot' = Active
           \/ /\ bootInfo.ulImgStatus = "TESTREADY"
              /\ bootInfo'.ulImgStatus = "TESTING" /\ slot' = TestSlot(Active)
    BY <1>2, <2>1 DEF ImageLoader, SetStatus, WriteBootInfo, WritesDone, Load, Statuses, Active
  <2>3. ImagesExist'
    BY <1>2, <2>2 DEF ImageLoader, Load, ImagesExist, ota, Active
  <2>4. FileIsAlternate'
    BY <1>2, <2>2 DEF ImageLoader, Load, FileIsAlternate, ota
  <2> QED
    BY <1>2, <2>2, <2>3, <2>4
    DEF ImageLoader, Load, RamIsFile, StatusFits, AppRuns, NeverStuck
<1>3. CASE LoadAndExecute
  <2>1. image[slot] # NoImage
    BY <1>3 DEF LoadAndExecute, StatusFits, ImagesExist, Active
  <2>2. pc' = "started" /\ running' = image[slot] /\ UNCHANGED <<image, bootInfo, slot, ota>>
    BY <1>3, <2>1 DEF LoadAndExecute
  <2>3. ImagesExist' /\ FileIsAlternate'
    BY <1>3, <2>2 DEF LoadAndExecute, ImagesExist, FileIsAlternate, ota, Active
  <2> QED
    BY <1>3, <2>1, <2>2, <2>3
    DEF LoadAndExecute, RamIsFile, StatusFits, AppRuns, NeverStuck, Active
<1> QED
  BY <1>1, <1>2, <1>3

\* The file commit library's steps.
LEMMA FlcStep ==
  ASSUME WritesDone, UpdateInv, FlcIsPendingCommit \/ FlcCommit \/ FlcNotCommitted \/ FlcTest,
         TypeOK', FileExists'
  PROVE  UpdateInv'
<1> USE InfoFacts DEF UpdateInv, TypeOK, FileExists, BootInfos
<1>1. CASE FlcIsPendingCommit
  <2>1. ImagesExist' /\ FileIsAlternate'
    BY <1>1 DEF FlcIsPendingCommit, ImagesExist, FileIsAlternate, ota, Active
  <2> QED
    BY <1>1, <2>1
    DEF FlcIsPendingCommit, BootInfoRead, RamIsFile, StatusFits, AppRuns, NeverStuck, Active
<1>2. CASE FlcCommit
  <2>1. bootInfo \in BootInfos
    BY <1>2 DEF FlcCommit
  <2>2. CASE bootInfo.ulImgStatus = "TESTING"
    <3>1. /\ sBootInfo' = Info(TestSlot(Active), "NOTEST") /\ bootInfo' = sBootInfo'
          /\ Active' = TestSlot(Active) /\ bootInfo'.ulImgStatus = "NOTEST"
      BY <1>2, <2>1, <2>2, SlotFacts
      DEF FlcCommit, WriteBootInfo, WritesDone, BootInfoRead, Info, Active
    <3>2. ImagesExist' /\ FileIsAlternate'
      BY <1>2, <2>2, <3>1 DEF FlcCommit, CleanToIdle, ImagesExist, FileIsAlternate, Active
    <3> QED
      BY <1>2, <3>1, <3>2 DEF FlcCommit, RamIsFile, StatusFits, AppRuns, NeverStuck
  <2>3. CASE bootInfo.ulImgStatus # "TESTING"
    <3>1. sBootInfo' = bootInfo /\ UNCHANGED bootInfo
      BY <1>2, <2>3 DEF FlcCommit, BootInfoRead
    <3>2. ImagesExist' /\ FileIsAlternate'
      BY <1>2, <3>1 DEF FlcCommit, CleanToIdle, ImagesExist, FileIsAlternate, Active
    <3> QED
      BY <1>2, <2>3, <3>1, <3>2 DEF FlcCommit, RamIsFile, StatusFits, AppRuns, NeverStuck
  <2> QED
    BY <2>2, <2>3
<1>3. CASE FlcNotCommitted
  <2>1. ImagesExist' /\ FileIsAlternate'
    BY <1>3 DEF FlcNotCommitted, CleanToIdle, ImagesExist, FileIsAlternate, Active
  <2> QED
    BY <1>3, <2>1
    DEF FlcNotCommitted, BootInfoRead, RamIsFile, StatusFits, AppRuns, NeverStuck, Active
<1>4. CASE FlcTest
  <2>1. bootInfo \in BootInfos /\ sBootInfo = bootInfo
    BY <1>4 DEF FlcTest, RamIsFile
  <2>2. Active' = Active /\ bootInfo' \in BootInfos
    BY <1>4, <2>1 DEF FlcTest, WriteBootInfo, BootInfoRead, Active, Statuses
  <2>3. pc' = "reboot" \/ (pc' = "ready" /\ UNCHANGED <<sBootInfo, bootInfo>>)
    BY <1>4 DEF FlcTest
  <2>4. UNCHANGED bootInfo \/ isMCUAppUpdate
    BY <1>4 DEF FlcTest
  <2>5. ImagesExist'
    BY <1>4, <2>1, <2>2, <2>4 DEF FlcTest, CleanToIdle, ImagesExist, StatusFits, Active
  <2>6. FileIsAlternate'
    BY <1>4, <2>2 DEF FlcTest, CleanToIdle, FileIsAlternate
  <2> QED
    BY <1>4, <2>1, <2>3, <2>5, <2>6 DEF FlcTest, RamIsFile, StatusFits, AppRuns, NeverStuck
<1> QED
  BY <1>1, <1>2, <1>3, <1>4

\* The steps of the update, and a reset.
LEMMA OtaStep ==
  ASSUME UpdateInv, OtaRun \/ Reset, TypeOK', FileExists'
  PROVE  UpdateInv'
<1> USE InfoFacts DEF UpdateInv, TypeOK, FileExists, BootInfos
<1>1. CASE OtaConnectServer \/ OtaUpdateCheck \/ OtaNextResource \/ OtaConnectCdn
  <2>1. /\ UNCHANGED <<image, bootInfo, pc, sBootInfo, slot, running, file>>
        /\ isMCUAppUpdate' => isMCUAppUpdate
        /\ otaState # "DOWNLOADING" /\ otaState' # "DOWNLOADING"
    BY <1>1 DEF OtaConnectServer, OtaUpdateCheck, OtaNextResource, OtaConnectCdn, OtaIn,
                OtaGoto, CleanToIdle, flash, host
  <2> QED
    BY <2>1 DEF RamIsFile, StatusFits, AppRuns, ImagesExist, FileIsAlternate, NeverStuck, Active
<1>2. CASE OtaOpenFile
  <2>1. bootInfo \in BootInfos /\ sBootInfo = bootInfo /\ pc = "ready"
    BY <1>2 DEF OtaOpenFile, OtaIn, RamIsFile
  <2>2. FileIsAlternate'
    BY <1>2, <2>1, SlotFacts
    DEF OtaOpenFile, OtaIn, FileIsAlternate, flash, host, Active, OtherFile, Slots,
        IMG_ACT_FACTORY, IMG_ACT_USER1, IMG_ACT_USER2
  <2> QED
    BY <1>2, <2>2
    DEF OtaOpenFile, flash, host, RamIsFile, StatusFits, AppRuns, ImagesExist, NeverStuck, Active
<1>3. CASE OtaDownload
  <2>1. bootInfo \in BootInfos /\ pc = "ready" /\ bootInfo.ulImgStatus = "NOTEST"
    BY <1>3 DEF OtaDownload, OtaIn, StatusFits
  <2>2. UNCHANGED <<bootInfo, pc, sBootInfo, slot, running>>
    BY <1>3 DEF OtaDownload, host
  <2>3. image'[Active] = image[Active]
    BY <1>3, <2>1, SlotFacts DEF OtaDownload, FileIsAlternate, Active
  <2>4. /\ \A s \in Slots : image[s] # NoImage => image'[s] # NoImage
        /\ isMCUAppUpdate' => image'[TestSlot(Active)] # NoImage
    <3>1. TestSlot(Active) \in Slots
      BY <2>1, SlotFacts DEF Active
    <3>2. \A s \in Slots : image[s] # NoImage => image'[s] # NoImage
      BY <1>3, UpdateAssumption DEF UpdateAssumption, OtaDownload
    <3>3. ASSUME isMCUAppUpdate', ~ isMCUAppUpdate
          PROVE  image'[TestSlot(Active)] # NoImage
      <4>1. resource.mcu /\ file \in Slots /\ file = TestSlot(Active)
        BY <1>3, <3>3 DEF OtaDownload, OtaIn, FileIsAlternate
      <4>2. \E i \in Images : image' = [image EXCEPT ![file] = i]
        BY <1>3, <3>3, <4>1 DEF OtaDownload
      <4> QED
        BY <3>1, <4>1, <4>2, UpdateAssumption DEF UpdateAssumption
    <3> QED
      BY <3>1, <3>2, <3>3 DEF ImagesExist
  <2>5. FileIsAlternate'
    BY <1>3, <2>1, <2>2 DEF OtaDownload, FileIsAlternate, Closed, Active, Slots,
       IMG_ACT_FACTORY, IMG_ACT_USER1, IMG_ACT_USER2
  <2> QED
    BY <2>1, <2>2, <2>3, <2>4, <2>5
    DEF RamIsFile, StatusFits, AppRuns, ImagesExist, NeverStuck, Active
<1>4. CASE Reset
  <2>1. FileIsAlternate'
    BY <1>4 DEF Reset, FileIsAlternate, Closed, Slots, IMG_ACT_FACTORY, IMG_ACT_USER1,
       IMG_ACT_USER2
  <2> QED
    BY <1>4, <2>1
    DEF Reset, flash, RamIsFile, StatusFits, AppRuns, ImagesExist, NeverStuck, Active
<1> QED
  BY <1>1, <1>2, <1>3, <1>4 DEF OtaRun

LEMMA UpdateInvStep ==
  ASSUME WritesDone, UpdateInv, [Next]_vars
  PROVE  UpdateInv'
<1>1. TypeOK' /\ FileExists'
  BY TypeStep DEF UpdateInv, ImagesExist
<1>2. CASE UNCHANGED vars
  BY <1>2 DEF vars, ota, UpdateInv, TypeOK, FileExists, RamIsFile, StatusFits, AppRuns,
              ImagesExist, FileIsAlternate, NeverStuck, Active
<1> QED
  BY <1>1, <1>2, BootStep, FlcStep, OtaStep DEF Next

THEOREM UpdateCorrect ==
  ASSUME WritesDone
  PROVE  Spec => []UpdateInv
<1>1. UpdateInv /\ [Next]_vars => UpdateInv'
  BY UpdateInvStep
<1> QED
  BY UpdateInvInit, <1>1, PTL DEF Spec

-------------------------------------------------------------------------------
(* What follows for flash *)

\* flash and RAM hold what they can hold.
THEOREM TypeCorrect ==
  ASSUME WritesDone
  PROVE  Spec => []TypeOK
<1>1. UpdateInv => TypeOK
  BY DEF UpdateInv
<1> QED
  BY UpdateCorrect, <1>1, PTL

\* A download never replaces the image that the boot loader falls back to,
\* although the slot is computed from a copy of the boot info in RAM.
THEOREM DownloadsGoElsewhere ==
  ASSUME WritesDone
  PROVE  Spec => []DownloadIsAlternate
<1>1. UpdateInv => DownloadIsAlternate
  BY SlotFacts
  DEF UpdateInv, TypeOK, FileExists, FileIsAlternate, DownloadIsAlternate, ActiveSlot, Active
<1> QED
  BY UpdateCorrect, <1>1, PTL

\* Whatever is downloaded and whenever the device is reset, the boot loader
\* finds the image it decides to load.
THEOREM AlwaysBoots ==
  ASSUME WritesDone
  PROVE  Spec => []NeverStuck
<1>1. UpdateInv => NeverStuck
  BY DEF UpdateInv
<1> QED
  BY UpdateCorrect, <1>1, PTL

-------------------------------------------------------------------------------
(* Refinement *)

Trial == IF bootInfo.ulImgStatus = "TESTREADY" THEN image[TestSlot(Active)] ELSE NoImage
Chosen == IF pc = "load" THEN image[slot] ELSE NoImage

LEMMA InitRefines == Init => Update!Init
<1> SUFFICES ASSUME Init
             PROVE  Update!Init
  OBVIOUS
<1>1. TypeOK /\ bootInfo = NoFile /\ \E s \in Slots : image[s] # NoImage
  BY TypeInit DEF Init
<1>2. Committed \in Images
  BY <1>1, DefaultImgExists DEF TypeOK, Committed, ActiveSlot
<1>3. bootInfo.ulImgStatus # "TESTREADY"
  BY <1>1, InfoFacts
<1> QED
  BY <1>2, <1>3 DEF Init, Update!Init

\* A step that keeps the commitment, the trial, the decision and what runs is
\* no step of the abstract specification.
LEMMA Stutter ==
  ASSUME UNCHANGED <<Committed, Trial, Chosen, running>>
  PROVE  UNCHANGED Update!vars
BY DEF Update!vars, Trial, Chosen, Active

LEMMA BootRefines ==
  ASSUME WritesDone, UpdateInv, BootRead \/ ImageLoader \/ LoadAndExecute
  PROVE  [Update!Next]_Update!vars
<1> USE InfoFacts DEF UpdateInv, TypeOK, FileExists, BootInfos
<1>1. CASE BootRead
  <2>1. CASE bootInfo = NoFile
    <3>1. bootInfo' = Info(DefaultImg, "NOTEST") /\ DefaultImg' = DefaultImg
      BY <1>1, <2>1 DEF BootRead, DefaultImg
    <3>2. UNCHANGED <<Committed, Trial, Chosen, running>>
      BY <1>1, <2>1, <3>1 DEF BootRead, Committed, ActiveSlot, Trial, Chosen, Info, NoFile
    <3> QED
      BY <3>2, Stutter
  <2>2. CASE bootInfo # NoFile
    <3>1. UNCHANGED <<Committed, Trial, Chosen, running>>
      BY <1>1, <2>2 DEF BootRead, Committed, ActiveSlot, Trial, Chosen, Active
    <3> QED
      BY <3>1, Stutter
  <2> QED
    BY <2>1, <2>2
<1>2. CASE ImageLoader
  <2>1. bootInfo \in BootInfos /\ sBootInfo = bootInfo /\ Committed = image[Active]
    BY <1>2 DEF ImageLoader, RamIsFile, Committed, ActiveSlot, Active
  <2>2. /\ bootInfo' \in BootInfos /\ Active' = Active /\ bootInfo'.ulImgStatus # "TESTREADY"
        /\ slot' = IF bootInfo.ulImgStatus = "TESTREADY" THEN TestSlot(Active) ELSE Active
        /\ pc' = "load" /\ pc = "loader" /\ UNCHANGED <<image, running>>
    BY <1>2, <2>1 DEF ImageLoader, SetStatus, WriteBootInfo, WritesDone, Load, Statuses, Active
  <2>3. Committed' = Committed
    BY <2>1, <2>2 DEF Committed, ActiveSlot, Active
  <2>4. bootInfo.ulImgStatus = "TESTREADY" => image[TestSlot(Active)] # NoImage
    BY DEF ImagesExist
  <2>5. Update!Choose
    BY <2>1, <2>2, <2>3, <2>4 DEF Update!Choose, AppRuns, Active
  <2> QED
    BY <2>5 DEF Update!Next
<1>3. CASE LoadAndExecute
  <2>1. image[slot] # NoImage
    BY <1>3 DEF LoadAndExecute, StatusFits, ImagesExist, Active
  <2>2. UNCHANGED <<Committed, Trial>>
    BY <1>3 DEF LoadAndExecute, Committed, ActiveSlot, DefaultImg, Trial, Active
  <2>3. Update!Run
    BY <1>3, <2>1, <2>2 DEF LoadAndExecute, Update!Run, Trial, Active
  <2> QED
    BY <2>3 DEF Update!Next
<1> QED
  BY <1>1, <1>2, <1>3

LEMMA FlcRefines ==
  ASSUME WritesDone, UpdateInv, FlcIsPendingCommit \/ FlcCommit \/ FlcNotCommitted \/ FlcTest
  PROVE  [Update!Next]_Update!vars
<1> USE InfoFacts DEF UpdateInv, TypeOK, FileExists, BootInfos
<1>1. CASE FlcIsPendingCommit \/ FlcNotCommitted
  <2>1. UNCHANGED <<Committed, Trial, Chosen, running>>
    BY <1>1 DEF FlcIsPendingCommit, FlcNotCommitted, Committed, ActiveSlot, DefaultImg, Trial,
                Chosen, Active
  <2> QED
    BY <2>1, Stutter
<1>2. CASE FlcCommit
  <2>1. bootInfo \in BootInfos /\ Chosen' = NoImage /\ Chosen = NoImage
    BY <1>2 DEF FlcCommit, Chosen
  <2>2. CASE bootInfo.ulImgStatus = "TESTING"
    <3>1. /\ bootInfo' = Info(TestSlot(Active), "NOTEST")
          /\ UNCHANGED <<image, running>> /\ running # NoImage
          /\ running = image[TestSlot(Active)]
      BY <1>2, <2>1, <2>2, SlotFacts
      DEF FlcCommit, WriteBootInfo, WritesDone, BootInfoRead, AppRuns, StatusFits, Active
    <3>2. Committed' = running /\ Trial' = NoImage /\ Trial = NoImage
      BY <2>1, <2>2, <3>1, SlotFacts DEF Committed, ActiveSlot, Trial, Info, Active, Statuses
    <3>3. Update!Commit
      BY <2>1, <3>1, <3>2 DEF Update!Commit, Trial, Chosen, Active
    <3> QED
      BY <3>3 DEF Update!Next
  <2>3. CASE bootInfo.ulImgStatus # "TESTING"
    <3>1. UNCHANGED <<Committed, Trial, Chosen, running>>
      BY <1>2, <2>1, <2>3 DEF FlcCommit, BootInfoRead, Committed, ActiveSlot, DefaultImg, Trial,
                              Active
    <3> QED
      BY <3>1, Stutter
  <2> QED
    BY <2>2, <2>3
<1>3. CASE FlcTest
  <2>1. /\ bootInfo \in BootInfos /\ sBootInfo = bootInfo /\ running # NoImage
        /\ Chosen' = NoImage /\ Chosen = NoImage /\ UNCHANGED <<image, running>>
    BY <1>3 DEF FlcTest, RamIsFile, AppRuns, Chosen
  <2>2. CASE UNCHANGED bootInfo
    <3>1. UNCHANGED <<Committed, Trial>>
      BY <2>1, <2>2 DEF Committed, ActiveSlot, DefaultImg, Trial, Active
    <3> QED
      BY <2>1, <3>1, Stutter
  <2>3. CASE ~ UNCHANGED bootInfo
    <3>1. isMCUAppUpdate /\ bootInfo' = [bootInfo EXCEPT !.ulImgStatus = "TESTREADY"]
      BY <1>3, <2>1, <2>3 DEF FlcTest, WriteBootInfo, BootInfoRead
    <3>2. /\ Active' = Active /\ bootInfo'.ulImgStatus = "TESTREADY"
          /\ bootInfo' \in BootInfos /\ TestSlot(Active) \in Slots
      BY <2>1, <3>1, SlotFacts DEF Active, Statuses
    <3>3. Committed' = Committed
      BY <2>1, <3>2 DEF Committed, ActiveSlot, Active
    <3>4. Trial' \in Images
      BY <2>1, <3>1, <3>2 DEF Trial, ImagesExist
    <3>5. Update!Arm
      BY <2>1, <3>3, <3>4 DEF Update!Arm, Trial, Chosen, Active
    <3> QED
      BY <3>5 DEF Update!Next
  <2> QED
    BY <2>2, <2>3
<1> QED
  BY <1>1, <1>2, <1>3

LEMMA OtaRefines ==
  ASSUME UpdateInv, OtaRun
  PROVE  UNCHANGED Update!vars
<1> USE InfoFacts DEF UpdateInv, TypeOK, FileExists, BootInfos
<1>1. UNCHANGED <<bootInfo, pc, slot, running>> /\ pc = "ready"
  BY DEF OtaRun, OtaConnectServer, OtaUpdateCheck, OtaNextResource, OtaConnectCdn, OtaOpenFile,
         OtaDownload, OtaIn, flash, host
<1>2. bootInfo \in BootInfos /\ bootInfo.ulImgStatus = "NOTEST"
  BY <1>1 DEF StatusFits
<1>3. image'[Active] = image[Active]
  <2>1. CASE OtaDownload
    BY <1>2, <2>1, SlotFacts DEF OtaDownload, FileIsAlternate, Active
  <2>2. CASE ~ OtaDownload
    BY <2>2 DEF OtaRun, OtaConnectServer, OtaUpdateCheck, OtaNextResource, OtaConnectCdn,
                OtaOpenFile, flash
  <2> QED
    BY <2>1, <2>2
<1>4. UNCHANGED <<Committed, Trial, Chosen, running>>
  BY <1>1, <1>2, <1>3 DEF Committed, ActiveSlot, Trial, Chosen, Active
<1> QED
  BY <1>4, Stutter

LEMMA ResetRefines ==
  ASSUME UpdateInv, Reset
  PROVE  Update!Next
<1>1. UNCHANGED <<Committed, Trial>>
  BY DEF Reset, flash, Committed, ActiveSlot, DefaultImg, Trial, Active
<1>2. Update!Reset
  BY <1>1 DEF Reset, Update!Reset, Trial, Active
<1> QED
  BY <1>2 DEF Update!Next

\* The boot loader, the file commit library and the update implement
\* ImageUpdate: only what ran is committed to, only what was asked for is
\* tested, and once, with a reset before, between or after any steps.
THEOREM UpdateRefines ==
  ASSUME WritesDone
  PROVE  Spec => ImplementsUpdate
<1>1. UpdateInv /\ [Next]_vars => [Update!Next]_Update!vars
  <2> SUFFICES ASSUME UpdateInv, [Next]_vars
               PROVE  [Update!Next]_Update!vars
    OBVIOUS
  <2>1. CASE UNCHANGED vars
    <3>1. UNCHANGED <<Committed, Trial, Chosen, running>>
      BY <2>1 DEF vars, Committed, ActiveSlot, DefaultImg, Trial, Chosen, Active
    <3> QED
      BY <3>1, Stutter
  <2> QED
    BY <2>1, BootRefines, FlcRefines, OtaRefines, ResetRefines DEF Next
<1> QED
  BY InitRefines, UpdateCorrect, <1>1, PTL DEF Spec, ImplementsUpdate, Update!Spec
=============================================================================

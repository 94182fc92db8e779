------------------------------ MODULE OtaProofs ------------------------------
(***************************************************************************)
(* Proofs about Ota: the device can always boot, for images of any number  *)
(* and size, any number of restarts, faults and releases; what is erased   *)
(* and written stays inside the partition, for images that leave room; and *)
(* an upgrade that is reported was done, if reports can be published.      *)
(***************************************************************************)
EXTENDS Ota, TLAPS

\* Where the partition to update is being written and read back, ...
Downloading == {"erase", "fetch", "write", "save", "verify"}

\* ... and where its content was found to be the image announced.
Upgrading == {"begin", "beginWait", "success", "successWait", "number", "flag"}

Places == {"off", "connect", "normal", "construct", "init", "listen"}
            \cup Downloading \cup Upgrading

Whole(slot) == \E f \in Images : Holds(slot, f)

SlotType ==
  /\ boot \in Slots /\ running \in Slots /\ target \in Slots \cup {NoSlot}
  /\ flash = [s \in Slots |-> flash[s]]
  /\ pc \in Places
  /\ ota_over \in BOOLEAN

\* A download goes to the partition that is not booted.
DownloadInv ==
  pc \in Downloading => boot = running /\ target = NextUpdate(running)

\* ota_over: the image was verified in this session, and another offer is not
\* taken.
OverInv ==
  /\ ota_over => pc \in {"listen"} \cup Upgrading /\ state = "fetched"
  /\ pc \in Upgrading => ota_over
  /\ pc = "verify" => state = "fetched"

\* Another partition than the running one is chosen after that only.
ChosenInv == pc = "off" \/ ota_over \/ boot = running

\* The partition a verified session may choose.
TargetInv == pc \notin Downloading /\ target # NoSlot => Whole(target)

IInv ==
  /\ SlotType /\ DownloadInv /\ OverInv /\ ChosenInv /\ TargetInv
  /\ BootableAlways

-----------------------------------------------------------------------------
\* The contents of the partitions are looked at only through Holds.
LEMMA WholeKept ==
  ASSUME flash' = flash, NEW slot, Whole(slot)
  PROVE  Whole(slot)'
BY DEF Whole, Holds

\* What is written to one partition is not seen in another.
LEMMA OtherKept ==
  ASSUME SlotType, NEW slot \in Slots, NEW bytes,
         flash' = [flash EXCEPT ![target] = bytes],
         slot # target, Whole(slot)
  PROVE  /\ flash' = [s \in Slots |-> flash'[s]]
         /\ Whole(slot)'
<1>1. flash' = [s \in Slots |-> flash'[s]]
  BY DEF SlotType
<1>2. flash'[slot] = flash[slot]
  BY DEF SlotType
<1> QED
  BY <1>1, <1>2 DEF Whole, Holds

\* A restart of a device whose flash is left alone.
LEMMA RestartKeeps ==
  ASSUME IInv, Restart, UNCHANGED <<flash, boot>>
  PROVE  IInv'
<1>1. SlotType' /\ pc' = "off" /\ target' = NoSlot /\ ota_over' = FALSE
  BY DEF IInv, SlotType, Restart, Places
<1>2. DownloadInv' /\ OverInv' /\ ChosenInv' /\ TargetInv'
  BY <1>1 DEF DownloadInv, OverInv, ChosenInv, TargetInv, Downloading, Upgrading
<1>3. BootableAlways'
  BY WholeKept DEF IInv, BootableAlways, Whole
<1> QED
  BY <1>1, <1>2, <1>3 DEF IInv

\* A step before or between downloads that leaves both partitions alone.
LEMMA QuietKeeps ==
  ASSUME IInv, UNCHANGED <<flash, boot, running, target, ota_over>>,
         pc \notin Downloading, pc' \in Places \ Downloading,
         pc' # "off" => pc # "off",
         ota_over => pc' \in {"listen"} \cup Upgrading /\ state' = "fetched",
         pc' \in Upgrading => ota_over
  PROVE  IInv'
<1>1. SlotType' /\ DownloadInv' /\ OverInv' /\ ChosenInv'
  BY DEF IInv, SlotType, DownloadInv, OverInv, ChosenInv, Downloading
<1>2. TargetInv'
  BY WholeKept DEF IInv, TargetInv
<1>3. BootableAlways'
  BY WholeKept DEF IInv, BootableAlways, Whole
<1> QED
  BY <1>1, <1>2, <1>3 DEF IInv

\* A step of a download that leaves both partitions alone.
LEMMA DownloadKeeps ==
  ASSUME IInv, UNCHANGED <<flash, boot, running, target, ota_over>>,
         pc \in Downloading, pc' \in Downloading,
         pc' = "verify" => state' = "fetched"
  PROVE  IInv'
<1>1. SlotType' /\ DownloadInv' /\ OverInv' /\ ChosenInv' /\ TargetInv'
  BY DEF IInv, SlotType, DownloadInv, OverInv, ChosenInv, TargetInv,
         Downloading, Upgrading, Places
<1>2. BootableAlways'
  BY WholeKept DEF IInv, BootableAlways, Whole
<1> QED
  BY <1>1, <1>2 DEF IInv

\* A step of a download that changes the partition that is updated.
LEMMA WritingKeeps ==
  ASSUME IInv, NEW bytes, flash' = [flash EXCEPT ![target] = bytes],
         UNCHANGED <<boot, running, target, ota_over>>,
         pc \in {"erase", "write"}, pc' \in {"fetch", "save"}
  PROVE  IInv'
<1>1. boot \in Slots /\ boot # target
  BY DEF IInv, SlotType, DownloadInv, Downloading, NextUpdate, Slots
<1>2. flash' = [s \in Slots |-> flash'[s]] /\ Whole(boot)'
  BY <1>1, OtherKept DEF IInv, BootableAlways, Whole
<1>3. SlotType' /\ DownloadInv' /\ OverInv' /\ ChosenInv' /\ TargetInv'
  BY <1>2 DEF IInv, SlotType, DownloadInv, OverInv, ChosenInv, TargetInv,
         Downloading, Upgrading, Places
<1>4. BootableAlways'
  BY <1>2 DEF BootableAlways, Whole
<1> QED
  BY <1>3, <1>4 DEF IInv

-----------------------------------------------------------------------------
LEMMA InitHolds == Init => IInv
<1> SUFFICES ASSUME Init PROVE IInv
  OBVIOUS
<1>1. SlotType /\ DownloadInv /\ OverInv /\ ChosenInv /\ TargetInv
  BY DEF Init, SlotType, DownloadInv, OverInv, ChosenInv, TargetInv, Slots,
         Places, Downloading, Upgrading, NoSlot
<1>2. Holds(0, Factory)
  <2> SUFFICES ASSUME NEW i \in 0 .. Size[Factory] - 1
               PROVE  i \in Offsets /\ flash[0][i] = Byte(Factory, i)
    BY DEF Holds
  <2>1. Size[Factory] \in Nat /\ Size[Factory] <= PARTITION /\ PARTITION \in Nat
    BY OtaAssumption DEF Factory
  <2>2. i \in Offsets /\ i < Size[Factory]
    BY <2>1 DEF Offsets
  <2> QED
    BY <2>2 DEF Init, Slots
<1>3. boot = 0 /\ Factory \in Images
  BY OtaAssumption DEF Init, Factory, Images
<1> QED
  BY <1>1, <1>2, <1>3 DEF IInv, BootableAlways

\* Restart, boot, the ordinary demo.
LEMMA NormalKeeps ==
  ASSUME IInv,
         Boot \/ Crash \/ Watchdog \/ publish_to_ota_topic_info \/ OnUpdate
  PROVE  IInv'
<1>1. CASE Boot
  <2>1. pc' \in {"connect", "construct"} /\ running' = boot
        /\ UNCHANGED <<flash, boot, target, ota_over>>
    BY <1>1 DEF Boot, flashVars
  <2>2. SlotType' /\ DownloadInv' /\ OverInv' /\ ChosenInv'
    BY <1>1, <2>1 DEF Boot, IInv, SlotType, DownloadInv, OverInv, ChosenInv,
                      Downloading, Upgrading, Places
  <2>3. TargetInv'
    BY <1>1, <2>1, WholeKept DEF Boot, IInv, TargetInv, Downloading
  <2>4. BootableAlways'
    BY <2>1, WholeKept DEF IInv, BootableAlways, Whole
  <2> QED
    BY <2>2, <2>3, <2>4 DEF IInv
<1>2. CASE Crash \/ Watchdog \/ OnUpdate
  BY <1>2, RestartKeeps DEF Crash, Watchdog, OnUpdate, flashVars
<1>3. CASE publish_to_ota_topic_info
  <2>1. CASE Restart
    BY <1>3, <2>1, RestartKeeps DEF publish_to_ota_topic_info, flashVars
  <2>2. CASE pc' = "normal" /\ UNCHANGED <<running, target, ota_over, otaVars>>
    BY <1>3, <2>2, QuietKeeps
    DEF publish_to_ota_topic_info, flashVars, otaVars, IInv, OverInv,
        Downloading, Upgrading, Places
  <2> QED
    BY <1>3, <2>1, <2>2 DEF publish_to_ota_topic_info
<1> QED
  BY <1>1, <1>2, <1>3

\* The beginning of a session in OTA mode.
LEMMA ListenKeeps ==
  ASSUME IInv, Construct \/ ReportVersion \/ OtaCallback
  PROVE  IInv'
<1>1. CASE Construct
  <2>1. CASE Restart
    BY <1>1, <2>1, RestartKeeps DEF Construct, flashVars
  <2>2. CASE pc' = "init" /\ UNCHANGED <<running, target, ota_over>>
    BY <1>1, <2>2, QuietKeeps
    DEF Construct, flashVars, IInv, OverInv, Downloading, Upgrading, Places
  <2> QED
    BY <1>1, <2>1, <2>2 DEF Construct
<1>2. CASE ReportVersion
  BY <1>2, QuietKeeps
  DEF ReportVersion, flashVars, otaVars, IInv, OverInv, Downloading, Upgrading,
      Places
<1>3. CASE OtaCallback
  BY <1>3, QuietKeeps
  DEF OtaCallback, Yields, flashVars, taskVars, IInv, OverInv, Downloading,
      Upgrading, Places
<1> QED
  BY <1>1, <1>2, <1>3

\* The download.
LEMMA DealKeeps ==
  ASSUME IInv, StartDownload \/ StartFails \/ Erase \/ Fetch \/ FetchFails
                 \/ Write \/ Save \/ Verify
  PROVE  IInv'
<1>1. CASE StartDownload
  <2>1. ~ota_over /\ boot = running
    BY <1>1 DEF StartDownload, IOT_OTA_IsFetching, IInv, OverInv, ChosenInv
  <2>2. /\ target' = NextUpdate(running) /\ pc' = "erase"
        /\ UNCHANGED <<flash, boot, running, ota_over>>
    BY <1>1 DEF StartDownload, flashVars
  <2>3. SlotType' /\ DownloadInv' /\ OverInv' /\ ChosenInv' /\ TargetInv'
    BY <2>1, <2>2 DEF IInv, SlotType, DownloadInv, OverInv, ChosenInv,
      TargetInv, Downloading, Upgrading, Places, NextUpdate, Slots
  <2>4. BootableAlways'
    BY <2>2, WholeKept DEF IInv, BootableAlways, Whole
  <2> QED
    BY <2>3, <2>4 DEF IInv
<1>2. CASE StartFails \/ FetchFails
  BY <1>2, RestartKeeps DEF StartFails, FetchFails, flashVars
<1>3. CASE Erase
  <2>1. CASE UNCHANGED flash
    BY <1>3, <2>1, DownloadKeeps DEF Erase, Downloading
  <2>2. CASE ~UNCHANGED flash
    BY <1>3, <2>2, WritingKeeps DEF Erase
  <2> QED
    BY <2>1, <2>2
<1>4. CASE Fetch
  BY <1>4, DownloadKeeps DEF Fetch, flashVars, Downloading
<1>5. CASE Write
  <2>1. CASE UNCHANGED flash
    BY <1>5, <2>1, DownloadKeeps DEF Write, Downloading
  <2>2. CASE ~UNCHANGED flash
    BY <1>5, <2>2, WritingKeeps DEF Write
  <2> QED
    BY <2>1, <2>2
<1>6. CASE Save
  BY <1>6, DownloadKeeps
  DEF Save, flashVars, otaVars, IOT_OTA_IsFetchFinish, Downloading
<1>7. CASE Verify
  <2>1. CASE Restart
    BY <1>7, <2>1, RestartKeeps DEF Verify, flashVars
  <2>2. CASE Digested /\ ota_over' = TRUE /\ pc' = "begin"
             /\ UNCHANGED <<otaVars, running, target>>
    <3>1. Whole(target) /\ boot = running /\ state = "fetched"
          /\ UNCHANGED <<flash, boot>>
      BY <1>7, <2>2 DEF Verify, Digested, Whole, flashVars, IInv, DownloadInv,
                        OverInv, Downloading
    <3>2. SlotType' /\ DownloadInv' /\ OverInv' /\ ChosenInv'
      BY <2>2, <3>1 DEF IInv, SlotType, DownloadInv, OverInv, ChosenInv,
        Downloading, Upgrading, Places, otaVars
    <3>3. TargetInv' /\ BootableAlways'
      BY <2>2, <3>1, WholeKept DEF IInv, TargetInv, BootableAlways, Whole
    <3> QED
      BY <3>2, <3>3 DEF IInv
  <2> QED
    BY <1>7, <2>1, <2>2 DEF Verify
<1> QED
  BY <1>1, <1>2, <1>3, <1>4, <1>5, <1>6, <1>7

\* A report that is published, or fails and sends the task back to the loop.
LEMMA ReportKeeps ==
  ASSUME IInv, NEW type, NEW next \in {"beginWait", "successWait"},
         ReportUpgradeResult(type, next), pc \in Upgrading,
         UNCHANGED <<flash, boot, otaVars, running, ota_over>>
  PROVE  IInv'
<1>1. CASE pc' = next /\ UNCHANGED target
  BY <1>1, QuietKeeps
  DEF IInv, OverInv, otaVars, Downloading, Upgrading, Places
<1>2. CASE pc' = "listen" /\ target' = NoSlot
  <2>1. SlotType' /\ DownloadInv' /\ OverInv' /\ ChosenInv' /\ TargetInv'
    BY <1>2 DEF IInv, SlotType, DownloadInv, OverInv, ChosenInv, TargetInv,
      Downloading, Upgrading, Places, otaVars
  <2>2. BootableAlways'
    BY WholeKept DEF IInv, BootableAlways, Whole
  <2> QED
    BY <2>1, <2>2 DEF IInv
<1> QED
  BY <1>1, <1>2 DEF ReportUpgradeResult

\* The upgrade is reported and the partition chosen.
LEMMA UpgradeKeeps ==
  ASSUME IInv, ReportBegin \/ BeginAgain \/ SetBoot \/ ReportSuccess
                 \/ SuccessAcked \/ ResetNumber \/ ResetFlag
  PROVE  IInv'
<1>1. CASE ReportBegin \/ ReportSuccess
  BY <1>1, ReportKeeps DEF ReportBegin, ReportSuccess, flashVars, Upgrading
<1>2. CASE BeginAgain
  BY <1>2, QuietKeeps
  DEF BeginAgain, flashVars, otaVars, IInv, OverInv, Downloading, Upgrading,
      Places
<1>3. CASE SetBoot
  <2>1. /\ pc' = "success" /\ boot' = IF target = NoSlot THEN boot ELSE target
        /\ UNCHANGED <<flash, state, running, target, ota_over>>
        /\ pc = "beginWait"
    BY <1>3 DEF SetBoot, otaVars
  <2>2. SlotType' /\ DownloadInv' /\ OverInv' /\ ChosenInv'
    BY <2>1 DEF IInv, SlotType, DownloadInv, OverInv, ChosenInv,
      Downloading, Upgrading, Places
  <2>3. TargetInv'
    BY <2>1, WholeKept DEF IInv, TargetInv, Downloading
  <2>4. Whole(IF target = NoSlot THEN boot ELSE target)
    BY <2>1 DEF IInv, TargetInv, Downloading, BootableAlways, Whole
  <2>5. BootableAlways'
    BY <2>1, <2>4 DEF BootableAlways, Whole, Holds
  <2> QED
    BY <2>2, <2>3, <2>5 DEF IInv
<1>4. CASE SuccessAcked \/ ResetNumber
  BY <1>4, QuietKeeps
  DEF SuccessAcked, ResetNumber, flashVars, otaVars, IInv, OverInv, Downloading,
      Upgrading, Places
<1>5. CASE ResetFlag
  BY <1>5, RestartKeeps DEF ResetFlag, flashVars
<1> QED
  BY <1>1, <1>2, <1>3, <1>4, <1>5

LEMMA NextKeeps == IInv /\ [Next]_vars => IInv'
<1> SUFFICES ASSUME IInv, [Next]_vars PROVE IInv'
  OBVIOUS
<1>1. CASE Boot \/ Crash \/ Watchdog \/ publish_to_ota_topic_info \/ OnUpdate
  BY <1>1, NormalKeeps
<1>2. CASE Construct \/ ReportVersion \/ OtaCallback
  BY <1>2, ListenKeeps
<1>3. CASE StartFails \/ FetchFails \/ Deal
  BY <1>3, DealKeeps, UpgradeKeeps DEF Deal
<1>4. CASE Release \/ UNCHANGED vars
  <2>1. UNCHANGED <<flash, boot, running, target, ota_over, pc, state>>
    BY <1>4 DEF Release, vars, flashVars, taskVars, otaVars
  <2>2. SlotType' /\ DownloadInv' /\ OverInv' /\ ChosenInv'
    BY <2>1 DEF IInv, SlotType, DownloadInv, OverInv, ChosenInv
  <2>3. TargetInv' /\ BootableAlways'
    BY <2>1, WholeKept DEF IInv, TargetInv, BootableAlways, Whole
  <2> QED
    BY <2>2, <2>3 DEF IInv
<1> QED
  BY <1>1, <1>2, <1>3, <1>4 DEF Next

\* IInv is an invariant, for any images and any numbers of restarts, faults and
\* releases.
THEOREM Invariance == Spec => []IInv
BY InitHolds, NextKeeps, PTL DEF Spec

\* Wherever the device restarts, the partition the boot loader will start holds
\* a whole image (device_ota.c:284-423): what is written is never booted, and
\* what is chosen was verified.
THEOREM AlwaysBootable == Spec => []BootableAlways
<1>1. IInv => BootableAlways
  BY DEF IInv
<1> QED
  BY Invariance, <1>1, PTL

-----------------------------------------------------------------------------
(***************************************************************************)
(* The offset that is saved.  It passes the end of an image by one chunk   *)
(* at most, unless the device restarts between the save and the check of   *)
(* the digest: then the next download starts from there, and may pass it   *)
(* by another.  So there has to be a chunk for every restart.              *)
(***************************************************************************)
Slack(r) == CHUNK * (MaxRestarts - r)

\* The offset of the session that is verified, and of any other.
Late  == ota_over \/ pc = "verify"
Limit == PARTITION - Slack(restarts)

CountType ==
  /\ outside = FALSE
  /\ number \in Nat /\ offset_tmp \in Nat
  /\ buf \in 0 .. CHUNK /\ restarts \in 0 .. MaxRestarts
  /\ released \in Images

NumberInv ==
  /\ number <= Limit
  /\ ~Late => number + CHUNK <= Limit
  /\ pc = "flag" => number = 0

\* What is downloaded is an image that was announced.
AnnouncedInv ==
  state = "fetching" \/ pc \in Downloading =>
    \E f \in Images : fw.size_file = Size[f]

OffsetInv ==
  /\ pc \in {"erase", "fetch", "write"} => offset_tmp + CHUNK <= Limit
  /\ pc = "write" => state = "fetched" \/ offset_tmp + buf < fw.size_file
  /\ pc = "save" => /\ offset_tmp <= Limit
                    /\ state = "fetched" \/ offset_tmp < fw.size_file

RoomInv == CountType /\ NumberInv /\ AnnouncedInv /\ OffsetInv

-----------------------------------------------------------------------------
LEMMA SlackFacts ==
  ASSUME NEW r \in 0 .. MaxRestarts
  PROVE  /\ Slack(r) \in Nat
         /\ Slack(r) + CHUNK <= CHUNK * (MaxRestarts + 1)
         /\ r < MaxRestarts => Slack(r) = Slack(r + 1) + CHUNK
<1>1. CHUNK \in Nat /\ MaxRestarts \in Nat /\ r \in Nat /\ MaxRestarts - r \in Nat
  BY OtaAssumption
<1>2. \A m, n \in Nat : m * n \in Nat
  OBVIOUS
<1>3. CHUNK * (MaxRestarts - r) \in Nat /\ CHUNK * r \in Nat
  BY <1>1, <1>2
<1>4. CHUNK * (MaxRestarts + 1) = CHUNK * (MaxRestarts - r) + CHUNK + CHUNK * r
  BY <1>1
<1>5. CHUNK * (MaxRestarts - r) = CHUNK * (MaxRestarts - (r + 1)) + CHUNK
  BY <1>1
<1> QED
  BY <1>1, <1>3, <1>4, <1>5 DEF Slack

\* Images leave room behind them.
LEMMA ImageFits ==
  ASSUME ImagesFit, CountType, NEW f \in Images
  PROVE  /\ Size[f] \in Nat \ {0} /\ Size[f] + SECTOR <= PARTITION
         /\ Size[f] + CHUNK <= Limit
         /\ Limit \in Int /\ Limit <= PARTITION /\ PARTITION \in Nat
<1>1. /\ Size[f] \in Nat \ {0} /\ PARTITION \in Nat /\ CHUNK \in Nat
      /\ Size[f] + SECTOR <= PARTITION
      /\ Size[f] + CHUNK * (MaxRestarts + 1) <= PARTITION
  BY OtaAssumption DEF ImagesFit, Images
<1>2. Slack(restarts) \in Nat
      /\ Slack(restarts) + CHUNK <= CHUNK * (MaxRestarts + 1)
  BY SlackFacts DEF CountType
<1>3. CHUNK * (MaxRestarts + 1) \in Nat
  BY OtaAssumption
<1> QED
  BY <1>1, <1>2, <1>3 DEF Limit

LEMMA Sectors ==
  ASSUME NEW n \in Nat
  PROVE  SectorOf(n) \in Nat /\ SectorOf(n) <= n
<1>1. SECTOR \in Nat \ {0}
  BY OtaAssumption
<1>2. n \div SECTOR \in Nat /\ (n \div SECTOR) * SECTOR <= n
  BY <1>1
<1> QED
  BY <1>1, <1>2 DEF SectorOf

LEMMA EraseEnds ==
  ASSUME NEW size \in Nat, NEW from \in 0 .. size
  PROVE  from + EraseLength(size, from) <= size + SECTOR
<1>1. SECTOR \in Nat \ {0} /\ size - from \in Nat
  BY OtaAssumption
<1>2. SectorOf(size - from) \in Nat /\ SectorOf(size - from) <= size - from
  BY <1>1, Sectors
<1>3. EraseLength(size, from) = SectorOf(size - from) + SECTOR
  <2>1. (size - from) \div SECTOR \in Nat
    BY <1>1
  <2> QED
    BY <1>1, <2>1 DEF EraseLength, SectorOf
<1> QED
  BY <1>1, <1>2, <1>3

-----------------------------------------------------------------------------
LEMMA RoomInit == ImagesFit /\ Init => RoomInv
<1> SUFFICES ASSUME ImagesFit, Init PROVE RoomInv
  OBVIOUS
<1>1. CountType
  <2>1. CHUNK \in Nat /\ MaxRestarts \in Nat /\ Factory \in Images
    BY OtaAssumption DEF Factory, Images
  <2>2. /\ outside = FALSE /\ number = 0 /\ offset_tmp = 0 /\ buf = 0
        /\ restarts = 0 /\ released = Factory
    BY DEF Init
  <2> QED
    BY <2>1, <2>2 DEF CountType
<1>2. Factory \in Images
  BY OtaAssumption DEF Factory, Images
<1>3. 0 <= Limit /\ 0 + CHUNK <= Limit
  <2>1. /\ Size[Factory] \in Nat \ {0} /\ Size[Factory] + CHUNK <= Limit
        /\ Limit \in Int /\ CHUNK \in Nat
    BY <1>1, <1>2, ImageFits, OtaAssumption
  <2> QED
    BY <2>1
<1>4. NumberInv /\ AnnouncedInv /\ OffsetInv
  BY <1>3 DEF Init, NumberInv, AnnouncedInv, OffsetInv, Downloading
<1> QED
  BY <1>1, <1>4 DEF RoomInv

\* A restart at a place where the digest does not matter.
LEMMA RestartRoom ==
  ASSUME ImagesFit, RoomInv, Restart, UNCHANGED <<outside, restarts, released>>,
         \/ number' = number /\ (~Late \/ pc = "flag")
         \/ number' = 0
  PROVE  RoomInv'
<1>1. /\ pc' = "off" /\ state' = "uninited" /\ offset_tmp' = 0 /\ buf' = 0
      /\ ota_over' = FALSE
  BY DEF Restart
<1>2. Limit' = Limit
  BY DEF Limit
<1>3. CHUNK \in Nat
  BY OtaAssumption
<1>4. CountType'
  BY <1>1, <1>3 DEF RoomInv, CountType
<1>5. 0 + CHUNK <= Limit /\ Limit \in Int
  <2>1. Size[released] \in Nat \ {0} /\ Size[released] + CHUNK <= Limit
        /\ Limit \in Int
    BY ImageFits DEF RoomInv, CountType
  <2> QED
    BY <1>3, <2>1
<1>6. /\ number' \in {number, 0} /\ number \in Nat
      /\ number' = number => number + CHUNK <= Limit
  BY <1>5 DEF RoomInv, NumberInv, CountType
<1>7. NumberInv'
  <2>1. number' <= Limit /\ number' + CHUNK <= Limit
    <3>1. \A n \in Nat : n + CHUNK <= Limit => n <= Limit
      BY <1>3, <1>5
    <3>2. CASE number' = number
      BY <1>6, <3>1, <3>2
    <3>3. CASE number' = 0
      BY <1>5, <3>1, <3>3
    <3> QED
      BY <1>6, <3>2, <3>3
  <2> QED
    BY <1>1, <1>2, <2>1 DEF NumberInv
<1>8. AnnouncedInv' /\ OffsetInv'
  BY <1>1 DEF AnnouncedInv, OffsetInv, Downloading
<1> QED
  BY <1>4, <1>7, <1>8 DEF RoomInv

\* A restart anywhere is one of those that were counted.
LEMMA CrashRoom ==
  ASSUME RoomInv, Crash
  PROVE  RoomInv'
<1>1. /\ pc' = "off" /\ state' = "uninited" /\ offset_tmp' = 0 /\ buf' = 0
      /\ ota_over' = FALSE /\ restarts' = restarts + 1
      /\ restarts < MaxRestarts
      /\ UNCHANGED <<number, outside, released>>
  BY DEF Crash, Restart, nvsVars, flashVars, cloudVars
<1>2. CHUNK \in Nat /\ MaxRestarts \in Nat /\ PARTITION \in Nat
  BY OtaAssumption
<1>3. Limit' = Limit + CHUNK /\ Limit \in Int
  <2>1. /\ Slack(restarts) = Slack(restarts + 1) + CHUNK
        /\ Slack(restarts) \in Nat /\ Slack(restarts + 1) \in Nat
    <3>1. restarts \in 0 .. MaxRestarts /\ restarts + 1 \in 0 .. MaxRestarts
      BY <1>1, <1>2 DEF RoomInv, CountType
    <3> QED
      BY <1>1, <3>1, SlackFacts
  <2>2. Limit' = PARTITION - Slack(restarts + 1)
    BY <1>1 DEF Limit, Slack
  <2> QED
    BY <1>2, <2>1, <2>2 DEF Limit
<1>4. CountType'
  BY <1>1, <1>2 DEF RoomInv, CountType
<1>5. NumberInv'
  BY <1>1, <1>2, <1>3, <1>4 DEF RoomInv, NumberInv, CountType
<1>6. AnnouncedInv' /\ OffsetInv'
  BY <1>1 DEF AnnouncedInv, OffsetInv, Downloading
<1> QED
  BY <1>4, <1>5, <1>6 DEF RoomInv

\* A step that touches none of the numbers.
LEMMA QuietRoom ==
  ASSUME RoomInv,
         UNCHANGED <<outside, number, offset_tmp, buf, restarts, fw>>,
         released' \in Images,
         pc' \notin Downloading \cup {"flag"}, Late => Late',
         state' = "fetching" => state = "fetching"
  PROVE  RoomInv'
<1>1. Limit' = Limit
  BY DEF Limit
<1>2. CountType'
  BY DEF RoomInv, CountType
<1>3. NumberInv'
  BY <1>1 DEF RoomInv, NumberInv
<1>4. AnnouncedInv' /\ OffsetInv'
  BY DEF RoomInv, AnnouncedInv, OffsetInv, Downloading
<1> QED
  BY <1>2, <1>3, <1>4 DEF RoomInv

\* Outside the download.
LEMMA NormalRoom ==
  ASSUME ImagesFit, IInv, RoomInv,
         Boot \/ Watchdog \/ publish_to_ota_topic_info \/ OnUpdate
           \/ Construct \/ ReportVersion \/ Release
  PROVE  RoomInv'
<1>1. CASE Boot
  BY <1>1, QuietRoom
  DEF Boot, nvsVars, flashVars, otaVars, cloudVars, countVars, Downloading,
      Late, RoomInv, CountType
<1>2. CASE Watchdog \/ OnUpdate
  BY <1>2, RestartRoom
  DEF Watchdog, OnUpdate, nvsVars, flashVars, cloudVars, countVars, IInv,
      OverInv, Late, Upgrading
<1>3. CASE publish_to_ota_topic_info
  <2>1. CASE Restart
    BY <1>3, <2>1, RestartRoom
    DEF publish_to_ota_topic_info, nvsVars, flashVars, IInv, OverInv, Late,
        Upgrading
  <2>2. CASE pc' = "normal"
             /\ UNCHANGED <<otaVars, ota_over, offset_tmp, buf>>
    BY <1>3, <2>2, QuietRoom
    DEF publish_to_ota_topic_info, nvsVars, flashVars, otaVars, Downloading,
        Late, RoomInv, CountType
  <2> QED
    BY <1>3, <2>1, <2>2 DEF publish_to_ota_topic_info
<1>4. CASE Construct
  <2>1. CASE Restart
    BY <1>4, <2>1, RestartRoom
    DEF Construct, nvsVars, flashVars, cloudVars, IInv, OverInv, Late, Upgrading
  <2>2. CASE pc' = "init"
             /\ state' \in {state, "inited"}
             /\ UNCHANGED <<fw, ota_over, offset_tmp, buf>>
    BY <1>4, <2>2, QuietRoom
    DEF Construct, nvsVars, flashVars, cloudVars, Downloading, Late, RoomInv,
        CountType
  <2> QED
    BY <1>4, <2>1, <2>2 DEF Construct
<1>5. CASE ReportVersion
  BY <1>5, QuietRoom
  DEF ReportVersion, nvsVars, flashVars, otaVars, Downloading, Late, RoomInv,
      CountType
<1>6. CASE Release
  <2>1. /\ UNCHANGED <<outside, number, offset_tmp, buf, restarts, fw, pc, state,
                       ota_over>>
        /\ released' \in Images
    BY <1>6 DEF Release, nvsVars, flashVars, taskVars, otaVars, countVars
  <2>2. CountType'
    BY <2>1 DEF RoomInv, CountType
  <2>3. NumberInv' /\ AnnouncedInv' /\ OffsetInv'
    BY <2>1 DEF RoomInv, NumberInv, AnnouncedInv, OffsetInv, Late, Limit
  <2> QED
    BY <2>2, <2>3 DEF RoomInv
<1> QED
  BY <1>1, <1>2, <1>3, <1>4, <1>5, <1>6

\* An offer: what is read of it is what the cloud wrote.
LEMMA OfferRoom ==
  ASSUME AnnouncementsRead, IInv, RoomInv, OtaCallback
  PROVE  RoomInv'
<1>1. UNCHANGED <<outside, number, offset_tmp, buf, restarts, released, pc,
                  ota_over>> /\ pc \in Yields
  BY DEF OtaCallback, nvsVars, flashVars, taskVars, cloudVars
<1>2. CountType' /\ NumberInv' /\ OffsetInv'
  BY <1>1 DEF RoomInv, CountType, NumberInv, OffsetInv, Late, Limit, Yields
<1>3. CASE state' = "fetching" /\ fw' \in Read[Update(released)].params
  <2>1. fw'.size_file = Size[released] /\ released \in Images
    BY <1>3 DEF AnnouncementsRead, Firmware, RoomInv, CountType
  <2> QED
    BY <1>2, <2>1 DEF AnnouncedInv, RoomInv
<1>4. CASE state' # "fetching"
  BY <1>1, <1>2, <1>4 DEF AnnouncedInv, RoomInv, Yields, Downloading
<1> QED
  BY <1>3, <1>4 DEF OtaCallback

\* The download starts at the sector of the saved offset.
LEMMA StartRoom ==
  ASSUME ImagesFit, IInv, RoomInv, StartDownload
  PROVE  RoomInv'
<1>1. /\ state = "fetching" /\ pc = "listen" /\ ~ota_over
      /\ offset_tmp' = SectorOf(number) /\ pc' = "erase" /\ buf' = 0
      /\ UNCHANGED <<outside, number, state, fw, released, restarts, ota_over>>
  BY DEF StartDownload, IOT_OTA_IsFetching, nvsVars, flashVars, otaVars,
         cloudVars, IInv, OverInv
<1>2. CHUNK \in Nat /\ Limit \in Int /\ Limit' = Limit
  BY <1>1, ImageFits, OtaAssumption DEF RoomInv, CountType, Limit
<1>3. /\ SectorOf(number) \in Nat /\ SectorOf(number) <= number
      /\ number \in Nat /\ number + CHUNK <= Limit
  BY <1>1, Sectors DEF RoomInv, CountType, NumberInv, Late
<1>4. CountType'
  BY <1>1, <1>2, <1>3 DEF RoomInv, CountType
<1>5. NumberInv' /\ AnnouncedInv'
  BY <1>1, <1>2 DEF RoomInv, NumberInv, AnnouncedInv, Late
<1>6. SectorOf(number) + CHUNK <= Limit
  BY <1>2, <1>3
<1>7. OffsetInv'
  BY <1>1, <1>2, <1>6 DEF OffsetInv
<1> QED
  BY <1>4, <1>5, <1>7 DEF RoomInv

\* A sector more than the rest of the image is erased.
LEMMA EraseRoom ==
  ASSUME ImagesFit, IInv, RoomInv, Erase
  PROVE  RoomInv'
<1>1. /\ pc = "erase" /\ pc' = "fetch"
      /\ UNCHANGED <<number, offset_tmp, buf, state, fw, released, restarts,
                     ota_over>>
  BY DEF Erase, nvsVars, otaVars, cloudVars
<1>2. PICK f \in Images : fw.size_file = Size[f]
  BY <1>1 DEF RoomInv, AnnouncedInv, Downloading
<1>3. /\ Size[f] \in Nat /\ Size[f] + SECTOR <= PARTITION /\ PARTITION \in Nat
      /\ SECTOR \in Nat
  BY ImageFits, OtaAssumption DEF RoomInv
<1>4. outside' = FALSE
  <2>1. CASE UNCHANGED outside
    BY <2>1 DEF RoomInv, CountType
  <2>2. CASE ~UNCHANGED outside
    <3> DEFINE to == offset_tmp + EraseLength(Size[f], offset_tmp)
    <3>1. offset_tmp <= Size[f] /\ outside' = (outside \/ to > PARTITION)
      BY <1>2, <2>2 DEF Erase
    <3>2. to <= Size[f] + SECTOR
      BY <1>3, <3>1, EraseEnds DEF RoomInv, CountType
    <3>3. to \in Int
      <4>1. SECTOR \in Nat \ {0} /\ Size[f] - offset_tmp \in Nat
            /\ offset_tmp \in Nat
        BY <1>3, <3>1, OtaAssumption DEF RoomInv, CountType
      <4> QED
        BY <4>1 DEF EraseLength
    <3>4. ~(to > PARTITION)
      <4> HIDE DEF to
      <4> QED
        BY <1>3, <3>2, <3>3
    <3> QED
      BY <3>1, <3>4 DEF RoomInv, CountType
  <2> QED
    BY <2>1, <2>2
<1>5. Limit' = Limit
  BY <1>1 DEF Limit
<1>6. CountType' /\ NumberInv' /\ AnnouncedInv' /\ OffsetInv'
  BY <1>1, <1>4, <1>5 DEF RoomInv, CountType, NumberInv, AnnouncedInv, OffsetInv,
     Late, Downloading
<1> QED
  BY <1>6 DEF RoomInv

\* A fetch that does not end the download leaves something of the image.
LEMMA FetchRoom ==
  ASSUME ImagesFit, IInv, RoomInv, Fetch
  PROVE  RoomInv'
<1>1. PICK n \in 1 .. CHUNK :
        /\ buf' = n
        /\ state' = IF offset_tmp + n >= fw.size_file THEN "fetched" ELSE state
  BY DEF Fetch
<1>2. /\ pc = "fetch" /\ pc' = "write"
      /\ UNCHANGED <<outside, number, offset_tmp, fw, released, restarts,
                     ota_over>>
  BY DEF Fetch, nvsVars, flashVars, cloudVars, countVars
<1>3. CHUNK \in Nat /\ Limit' = Limit
  BY <1>2, OtaAssumption DEF Limit
<1>4. CountType'
  BY <1>1, <1>2, <1>3 DEF RoomInv, CountType
<1>5. NumberInv' /\ AnnouncedInv'
  BY <1>2, <1>3 DEF RoomInv, NumberInv, AnnouncedInv, Late, Downloading
<1>6. PICK f \in Images : fw.size_file = Size[f]
  BY <1>2 DEF RoomInv, AnnouncedInv, Downloading
<1>7. Size[f] \in Nat /\ offset_tmp \in Nat
  BY ImageFits DEF RoomInv, CountType
<1>8. state' = "fetched" \/ offset_tmp + n < Size[f]
  BY <1>1, <1>6, <1>7
<1>9. OffsetInv'
  BY <1>1, <1>2, <1>3, <1>6, <1>8 DEF RoomInv, OffsetInv
<1> QED
  BY <1>4, <1>5, <1>9 DEF RoomInv

\* A chunk is written.
LEMMA WriteRoom ==
  ASSUME ImagesFit, IInv, RoomInv, Write
  PROVE  RoomInv'
<1>1. /\ pc = "write" /\ pc' = "save" /\ offset_tmp' = offset_tmp + buf /\ buf' = 0
      /\ UNCHANGED <<number, state, fw, released, restarts, ota_over>>
  BY DEF Write, nvsVars, otaVars, cloudVars
<1>2. /\ CHUNK \in Nat /\ Limit \in Int /\ Limit <= PARTITION /\ Limit' = Limit
      /\ PARTITION \in Nat
  BY <1>1, ImageFits, OtaAssumption DEF RoomInv, CountType, Limit
<1>3. /\ offset_tmp \in Nat /\ buf \in Nat /\ buf <= CHUNK
      /\ offset_tmp + CHUNK <= Limit
  BY <1>1, <1>2 DEF RoomInv, CountType, OffsetInv
<1>4. offset_tmp + buf \in Nat /\ offset_tmp + buf <= Limit
  BY <1>2, <1>3
<1>5. outside' = FALSE
  <2>1. offset_tmp .. offset_tmp + buf - 1 \subseteq Offsets
    BY <1>2, <1>3, <1>4 DEF Offsets
  <2> QED
    BY <2>1 DEF Write, RoomInv, CountType
<1>6. CountType'
  BY <1>1, <1>2, <1>4, <1>5 DEF RoomInv, CountType
<1>7. NumberInv' /\ AnnouncedInv'
  BY <1>1, <1>2 DEF RoomInv, NumberInv, AnnouncedInv, Late, Downloading
<1>8. OffsetInv'
  BY <1>1, <1>2, <1>4 DEF RoomInv, OffsetInv
<1> QED
  BY <1>6, <1>7, <1>8 DEF RoomInv

\* The offset is saved.
LEMMA SaveRoom ==
  ASSUME ImagesFit, IInv, RoomInv, Save
  PROVE  RoomInv'
<1>1. /\ pc = "save" /\ number' = offset_tmp
      /\ pc' = IF state = "fetched" THEN "verify" ELSE "fetch"
      /\ UNCHANGED <<outside, offset_tmp, buf, state, fw, released, restarts,
                     ota_over>>
  BY DEF Save, IOT_OTA_IsFetchFinish, flashVars, otaVars, countVars
<1>2. PICK f \in Images : fw.size_file = Size[f]
  BY <1>1 DEF RoomInv, AnnouncedInv, Downloading
<1>3. /\ Size[f] \in Nat /\ Size[f] + CHUNK <= Limit /\ Limit \in Int
      /\ CHUNK \in Nat /\ Limit' = Limit
  BY <1>1, ImageFits, OtaAssumption DEF RoomInv, Limit
<1>4. offset_tmp \in Nat /\ offset_tmp <= Limit
      /\ (state = "fetched" \/ offset_tmp < Size[f])
  BY <1>1, <1>2 DEF RoomInv, CountType, OffsetInv
<1>5. state # "fetched" => offset_tmp + CHUNK <= Limit
  BY <1>3, <1>4
<1>6. CountType' /\ AnnouncedInv'
  BY <1>1 DEF RoomInv, CountType, AnnouncedInv, Downloading
<1>7. NumberInv' /\ OffsetInv'
  BY <1>1, <1>3, <1>4, <1>5 DEF NumberInv, OffsetInv, Late
<1> QED
  BY <1>6, <1>7 DEF RoomInv

\* The digest, and the failures of a download.
LEMMA VerifyRoom ==
  ASSUME ImagesFit, IInv, RoomInv, Verify \/ StartFails \/ FetchFails
  PROVE  RoomInv'
<1>1. CASE StartFails \/ FetchFails
  BY <1>1, RestartRoom
  DEF StartFails, FetchFails, IOT_OTA_IsFetching, nvsVars, flashVars, cloudVars,
      IInv, OverInv, Late, Upgrading
<1>2. CASE Verify /\ Restart
  <2>1. number' = 0 /\ UNCHANGED <<outside, restarts, released>>
    BY <1>2 DEF Verify, Restart, flashVars, cloudVars, countVars
  <2> QED
    BY <1>2, <2>1, RestartRoom
<1>3. CASE Verify /\ ~Restart
  BY <1>3, QuietRoom
  DEF Verify, nvsVars, flashVars, otaVars, cloudVars, countVars, Late,
      Downloading, RoomInv, CountType
<1> QED
  BY <1>1, <1>2, <1>3

\* After the download.
LEMMA UpgradeRoom ==
  ASSUME ImagesFit, IInv, RoomInv,
         ReportBegin \/ BeginAgain \/ SetBoot \/ ReportSuccess
           \/ SuccessAcked \/ ResetNumber \/ ResetFlag
  PROVE  RoomInv'
<1>1. CASE ReportBegin \/ ReportSuccess
  <2>1. /\ pc' \in {"listen", "beginWait", "successWait"}
        /\ UNCHANGED <<outside, number, offset_tmp, buf, restarts, released,
                       otaVars, ota_over>>
        /\ pc \in {"begin", "success"}
    BY <1>1 DEF ReportBegin, ReportSuccess, ReportUpgradeResult, nvsVars,
                flashVars
  <2> QED
    BY <2>1, QuietRoom DEF otaVars, Late, Downloading, RoomInv, CountType
<1>2. CASE BeginAgain \/ SetBoot \/ SuccessAcked
  <2>1. /\ pc' \in {"begin", "success", "number"} /\ pc # "verify"
        /\ UNCHANGED <<outside, number, offset_tmp, buf, restarts, released,
                       otaVars, ota_over>>
    BY <1>2 DEF BeginAgain, SetBoot, SuccessAcked, nvsVars, flashVars, cloudVars,
                countVars
  <2> QED
    BY <2>1, QuietRoom DEF otaVars, Late, Downloading, RoomInv, CountType
<1>3. CASE ResetNumber
  <2>1. /\ number' = 0 /\ pc' = "flag" /\ pc = "number"
        /\ UNCHANGED <<outside, offset_tmp, buf, restarts, released, state, fw,
                       ota_over>>
    BY <1>3 DEF ResetNumber, flashVars, otaVars, cloudVars, countVars
  <2>2. CHUNK \in Nat /\ Limit' = Limit /\ 0 + CHUNK <= Limit /\ 0 <= Limit
    <3>1. Size[released] \in Nat /\ Size[released] + CHUNK <= Limit
          /\ Limit \in Int /\ CHUNK \in Nat
      BY ImageFits, OtaAssumption DEF RoomInv, CountType
    <3> QED
      BY <2>1, <3>1 DEF Limit
  <2>3. CountType' /\ AnnouncedInv' /\ OffsetInv'
    BY <2>1 DEF RoomInv, CountType, AnnouncedInv, OffsetInv, Downloading
  <2>4. NumberInv'
    BY <2>1, <2>2 DEF NumberInv
  <2> QED
    BY <2>3, <2>4 DEF RoomInv
<1>4. CASE ResetFlag
  BY <1>4, RestartRoom DEF ResetFlag, flashVars, cloudVars, countVars
<1> QED
  BY <1>1, <1>2, <1>3, <1>4

LEMMA NextRoom ==
  ASSUME ImagesFit, AnnouncementsRead
  PROVE  IInv /\ RoomInv /\ [Next]_vars => RoomInv'
<1> SUFFICES ASSUME IInv, RoomInv, [Next]_vars PROVE RoomInv'
  OBVIOUS
<1>1. CASE Boot \/ Watchdog \/ publish_to_ota_topic_info \/ OnUpdate
             \/ Construct \/ ReportVersion \/ Release
  BY <1>1, NormalRoom
<1>2. CASE Crash
  BY <1>2, CrashRoom
<1>3. CASE OtaCallback
  BY <1>3, OfferRoom
<1>4. CASE StartFails \/ FetchFails \/ Deal
  BY <1>4, StartRoom, EraseRoom, FetchRoom, WriteRoom, SaveRoom, VerifyRoom,
     UpgradeRoom DEF Deal
<1>5. CASE UNCHANGED vars
  BY <1>5 DEF vars, nvsVars, flashVars, taskVars, otaVars, cloudVars, countVars,
     RoomInv, CountType, NumberInv, AnnouncedInv, OffsetInv, Late, Limit
<1> QED
  BY <1>1, <1>2, <1>3, <1>4, <1>5 DEF Next

\* Erasing and writing stay inside the partition that is updated
\* (device_ota.c:284-306), if images leave a sector, and a chunk for the last
\* fetch of every attempt, free, and announcements are read as written.
THEOREM PartitionKept ==
  ASSUME ImagesFit, AnnouncementsRead
  PROVE  Spec => []OwnPartition
<1>1. Init => RoomInv
  BY RoomInit
<1>2. IInv /\ RoomInv /\ [Next]_vars => RoomInv'
  BY NextRoom
<1>3. RoomInv => OwnPartition
  BY DEF RoomInv, CountType, OwnPartition
<1> QED
  BY Invariance, <1>1, <1>2, <1>3, PTL DEF Spec

-----------------------------------------------------------------------------
(***************************************************************************)
(* The rest of the state: what was announced is an image, and the cloud    *)
(* hears of images only.                                                   *)
(***************************************************************************)
Versions  == {Version(f) : f \in Images}
Firmwares == {Firmware(f) : f \in Images}

StateType ==
  /\ flag \in {0, 1} /\ acked \in BOOLEAN
  /\ state \in {"uninited", "inited", "fetching", "fetched"}
  /\ released \in Images /\ version \in Versions
  /\ claimed \in Versions \cup {""}
  /\ releases \in 0 .. MaxReleases /\ faults \in 0 .. MaxFaults

FwInv ==
  /\ fw \in {NoFw} \cup Firmwares
  /\ state = "fetching" \/ pc \in Downloading \cup Upgrading \/ ota_over =>
       fw \in Firmwares

CloudInv == StateType /\ FwInv

LEMMA CloudInit == Init => CloudInv
<1> SUFFICES ASSUME Init PROVE CloudInv
  OBVIOUS
<1>1. Factory \in Images /\ MaxReleases \in Nat /\ MaxFaults \in Nat
  BY OtaAssumption DEF Factory, Images
<1>2. StateType
  <2>1. version \in Versions
    BY <1>1 DEF Init, Versions
  <2>2. 0 \in 0 .. MaxReleases /\ 0 \in 0 .. MaxFaults
    BY <1>1
  <2>3. /\ flag = 0 /\ acked = FALSE /\ state = "uninited" /\ released = Factory
        /\ claimed = "" /\ releases = 0 /\ faults = 0
    BY DEF Init
  <2> QED
    BY <1>1, <2>1, <2>2, <2>3 DEF StateType
<1>3. FwInv
  BY DEF Init, FwInv, Downloading, Upgrading
<1> QED
  BY <1>2, <1>3 DEF CloudInv

\* The running image is one of those there are, wherever it is reported.
LEMMA RunsAnImage ==
  ASSUME IInv, pc \in {"connect", "init"}
  PROVE  RunningImage \in Images /\ Holds(running, RunningImage)
<1>1. boot = running
  BY DEF IInv, ChosenInv, OverInv, Upgrading
<1> QED
  BY <1>1 DEF IInv, BootableAlways, RunningImage

\* What the cloud hears is a version there is.
LEMMA HearsVersion ==
  ASSUME ReportsRead, StateType, NEW f \in Images,
         NEW doc \in {gen_info_msg(Version(f))} \cup
                     {gen_report_msg(Version(f), type) : type \in ReportTypes},
         Hears(doc)
  PROVE  version' \in Versions /\ claimed' \in Versions \cup {""}
<1>1. Heard[doc].runs \subseteq Versions /\ Heard[doc].became \subseteq Versions
  <2>1. Heard[doc].runs \subseteq {Version(f)} /\ Heard[doc].became \subseteq {Version(f)}
    <3>1. CASE doc = gen_info_msg(Version(f))
      <4>1. Heard[doc] = [runs |-> {Version(f)}, became |-> {}]
        BY <3>1 DEF ReportsRead
      <4> QED
        BY <4>1
    <3>2. CASE \E type \in ReportTypes : doc = gen_report_msg(Version(f), type)
      <4>1. PICK type \in ReportTypes : doc = gen_report_msg(Version(f), type)
        BY <3>2
      <4>2. Heard[doc] = [runs |-> {}, became |-> IF type = "UPGRADE_SUCCESS"
                                                  THEN {Version(f)} ELSE {}]
        BY <4>1 DEF ReportsRead
      <4> QED
        BY <4>2
    <3> QED
      BY <3>1, <3>2
  <2>2. Version(f) \in Versions
    BY DEF Versions
  <2> QED
    BY <2>1, <2>2
<1> QED
  BY <1>1 DEF Hears, StateType

\* One more fault, or none.
LEMMA FaultCounts ==
  ASSUME StateType, Fault \/ UNCHANGED faults
  PROVE  faults' \in 0 .. MaxFaults
<1>1. MaxFaults \in Nat /\ faults \in 0 .. MaxFaults
  BY OtaAssumption DEF StateType
<1> QED
  BY <1>1 DEF Fault

\* A restart, and nothing else but a fault, the flag, or a report.
LEMMA RestartCloud ==
  ASSUME CloudInv, Restart, flag' \in {0, 1}, Fault \/ UNCHANGED faults,
         UNCHANGED <<released, releases>>,
         version' \in Versions /\ claimed' \in Versions \cup {""}
  PROVE  CloudInv'
<1>1. StateType'
  BY FaultCounts DEF CloudInv, StateType, Restart
<1>2. FwInv'
  BY DEF Restart, FwInv, Downloading, Upgrading
<1> QED
  BY <1>1, <1>2 DEF CloudInv

LEMMA BootCloud ==
  ASSUME CloudInv, Boot \/ Crash \/ Watchdog \/ OnUpdate \/ StartFails \/ ResetFlag
  PROVE  CloudInv'
<1>1. CASE Boot
  BY <1>1 DEF Boot, nvsVars, flashVars, otaVars, cloudVars, countVars, CloudInv,
              StateType, FwInv, Downloading, Upgrading
<1>2. CASE Crash \/ Watchdog \/ OnUpdate \/ StartFails \/ ResetFlag
  <2>1. /\ Restart /\ flag' \in {flag, 0, 1} /\ (Fault \/ UNCHANGED faults)
        /\ UNCHANGED cloudVars
    BY <1>2 DEF Crash, Watchdog, OnUpdate, StartFails, ResetFlag, nvsVars, countVars
  <2> QED
    BY <2>1, RestartCloud DEF cloudVars, CloudInv, StateType
<1> QED
  BY <1>1, <1>2

\* The version is reported.
LEMMA ReportCloud ==
  ASSUME ReportsRead, IInv, CloudInv, publish_to_ota_topic_info \/ ReportVersion
  PROVE  CloudInv'
<1>1. pc \in {"connect", "init"} /\ UNCHANGED <<flag, released, releases>>
  BY DEF publish_to_ota_topic_info, ReportVersion, nvsVars
<1>2. version' \in Versions /\ claimed' \in Versions \cup {""}
  <2>1. CASE Hears(gen_info_msg(fwVer))
    BY <1>1, <2>1, RunsAnImage, HearsVersion DEF fwVer, CloudInv
  <2>2. CASE HearsNothing
    BY <2>2 DEF HearsNothing, CloudInv, StateType
  <2> QED
    BY <2>1, <2>2
    DEF publish_to_ota_topic_info, ReportVersion, otamqtt_publish, PublishError
<1>3. Fault \/ UNCHANGED faults
  BY DEF publish_to_ota_topic_info, ReportVersion, otamqtt_publish, PublishError
<1>4. CASE Restart
  BY <1>1, <1>2, <1>3, <1>4, RestartCloud DEF CloudInv, StateType
<1>5. CASE /\ UNCHANGED <<otaVars, ota_over, acked>>
           /\ pc' \in {"normal", "listen"} /\ faults' \in 0 .. MaxFaults
  BY <1>1, <1>2, <1>5 DEF otaVars, CloudInv, StateType, FwInv, Downloading, Upgrading
<1>6. faults' \in 0 .. MaxFaults
  BY <1>3, FaultCounts DEF CloudInv
<1> QED
  BY <1>4, <1>5, <1>6 DEF publish_to_ota_topic_info, ReportVersion

LEMMA ListenCloud ==
  ASSUME AnnouncementsRead, CloudInv, Construct \/ OtaCallback \/ Release
  PROVE  CloudInv'
<1>1. CASE Construct /\ Restart
  <2>1. flag' = flag /\ UNCHANGED cloudVars /\ (Fault \/ UNCHANGED faults)
    BY <1>1 DEF Construct, nvsVars
  <2> QED
    BY <1>1, <2>1, RestartCloud DEF cloudVars, CloudInv, StateType
<1>2. CASE Construct /\ ~Restart
  <2>1. /\ pc' = "init" /\ state' \in {state, "inited"} /\ (Fault \/ UNCHANGED faults)
        /\ UNCHANGED <<flag, cloudVars, fw, ota_over, acked>>
    BY <1>2 DEF Construct, nvsVars
  <2>2. faults' \in 0 .. MaxFaults
    BY <2>1, FaultCounts DEF CloudInv
  <2> QED
    BY <2>1, <2>2 DEF cloudVars, CloudInv, StateType, FwInv, Downloading, Upgrading
<1>3. CASE OtaCallback
  <2>1. /\ UNCHANGED <<flag, acked, pc, ota_over, cloudVars>>
        /\ state' \in {state, "fetching", "fetched"} /\ state = "inited"
        /\ (Fault \/ UNCHANGED faults)
    BY <1>3 DEF OtaCallback, nvsVars, taskVars
  <2>2. faults' \in 0 .. MaxFaults
    BY <2>1, FaultCounts DEF CloudInv
  <2>3. StateType'
    BY <2>1, <2>2 DEF cloudVars, CloudInv, StateType
  <2>4. fw' \in Firmwares \/ (fw' = fw /\ state' # "fetching")
    BY <1>3 DEF OtaCallback, AnnouncementsRead, Firmwares, CloudInv, StateType
  <2>5. FwInv'
    BY <2>1, <2>4 DEF CloudInv, FwInv
  <2> QED
    BY <2>3, <2>5 DEF CloudInv
<1>4. CASE Release
  <2>1. releases' \in 0 .. MaxReleases /\ released' \in Images
    <3>1. MaxReleases \in Nat /\ releases \in 0 .. MaxReleases
      BY OtaAssumption DEF CloudInv, StateType
    <3> QED
      BY <1>4, <3>1 DEF Release
  <2> QED
    BY <1>4, <2>1
    DEF Release, nvsVars, flashVars, taskVars, otaVars, countVars, CloudInv, StateType,
        FwInv
<1> QED
  BY <1>1, <1>2, <1>3, <1>4

\* The download.
LEMMA DownloadCloud ==
  ASSUME ReportsRead, IInv, CloudInv,
         StartDownload \/ Erase \/ Fetch \/ Write \/ Save \/ FetchFails \/ Verify
  PROVE  CloudInv'
<1>1. fw \in Firmwares
  BY DEF StartDownload, Erase, Fetch, Write, Save, FetchFails, Verify,
         IOT_OTA_IsFetching, CloudInv, FwInv, Downloading
<1>2. PICK f \in Images : fw.version = Version(f)
  BY <1>1 DEF Firmwares, Firmware
<1>3. version' \in Versions /\ claimed' \in Versions \cup {""}
  <2>1. CASE \E type \in ReportTypes : Hears(gen_report_msg(fw.version, type))
    BY <1>2, <2>1, HearsVersion DEF CloudInv
  <2>2. CASE UNCHANGED cloudVars
    BY <2>2 DEF cloudVars, CloudInv, StateType
  <2> QED
    BY <2>1, <2>2
    DEF StartDownload, Erase, Fetch, Write, Save, FetchFails, Verify, ReportTypes
<1>4. UNCHANGED <<flag, released, releases>> /\ (Fault \/ UNCHANGED faults)
  BY DEF StartDownload, Erase, Fetch, Write, Save, FetchFails, Verify, nvsVars,
         cloudVars, countVars
<1>5. CASE Restart
  BY <1>3, <1>4, <1>5, RestartCloud DEF CloudInv, StateType
<1>6. CASE ~Restart
  <2>1. /\ UNCHANGED <<fw, acked>> /\ state' \in {state, "fetched"}
    BY <1>6 DEF StartDownload, Erase, Fetch, Write, Save, FetchFails, Verify, otaVars
  <2>2. faults' \in 0 .. MaxFaults
    BY <1>4, FaultCounts DEF CloudInv
  <2> QED
    BY <1>1, <1>3, <1>4, <2>1, <2>2 DEF CloudInv, StateType, FwInv
<1> QED
  BY <1>5, <1>6

\* After the download.
LEMMA UpgradeCloud ==
  ASSUME ReportsRead, IInv, CloudInv,
         ReportBegin \/ BeginAgain \/ SetBoot \/ ReportSuccess \/ SuccessAcked
           \/ ResetNumber
  PROVE  CloudInv'
<1>1. fw \in Firmwares
  BY DEF ReportBegin, BeginAgain, SetBoot, ReportSuccess, SuccessAcked, ResetNumber,
         CloudInv, FwInv, Upgrading
<1>2. PICK f \in Images : fw.version = Version(f)
  BY <1>1 DEF Firmwares, Firmware
<1>3. version' \in Versions /\ claimed' \in Versions \cup {""}
  <2>1. CASE \E type \in ReportTypes : Hears(gen_report_msg(fw.version, type))
    BY <1>2, <2>1, HearsVersion DEF CloudInv
  <2>2. CASE HearsNothing \/ UNCHANGED cloudVars
    BY <2>2 DEF HearsNothing, cloudVars, CloudInv, StateType
  <2> QED
    BY <2>1, <2>2
    DEF ReportBegin, BeginAgain, SetBoot, ReportSuccess, SuccessAcked, ResetNumber,
        ReportUpgradeResult, otamqtt_publish, PublishError, ReportTypes
<1>4. /\ UNCHANGED <<flag, released, releases, fw, state>>
      /\ (Fault \/ UNCHANGED faults)
      /\ acked' \in BOOLEAN
  BY DEF ReportBegin, BeginAgain, SetBoot, ReportSuccess, SuccessAcked, ResetNumber,
         ReportUpgradeResult, otamqtt_publish, PublishError, nvsVars, otaVars,
         cloudVars, countVars, CloudInv, StateType
<1>5. faults' \in 0 .. MaxFaults
  BY <1>4, FaultCounts DEF CloudInv
<1> QED
  BY <1>1, <1>3, <1>4, <1>5 DEF CloudInv, StateType, FwInv

LEMMA CloudNext ==
  ASSUME AnnouncementsRead, ReportsRead
  PROVE  IInv /\ CloudInv /\ [Next]_vars => CloudInv'
<1> SUFFICES ASSUME IInv, CloudInv, [Next]_vars PROVE CloudInv'
  OBVIOUS
<1>1. CASE UNCHANGED vars
  BY <1>1 DEF vars, nvsVars, flashVars, taskVars, otaVars, cloudVars, countVars,
     CloudInv, StateType, FwInv
<1> QED
  BY <1>1, BootCloud, ReportCloud, ListenCloud, DownloadCloud, UpgradeCloud DEF Next, Deal

LEMMA CloudInvariance ==
  ASSUME AnnouncementsRead, ReportsRead
  PROVE  Spec => [](IInv /\ CloudInv)
<1>1. IInv /\ CloudInv /\ [Next]_vars => CloudInv'
  BY CloudNext
<1> QED
  BY <1>1, CloudInit, Invariance, PTL DEF Spec

-----------------------------------------------------------------------------
(***************************************************************************)
(* The content of the partitions: a body begins before the offset at which *)
(* it is written, so that what is written are bytes of the image.          *)
(***************************************************************************)
Contents == (Images \X (0 .. PARTITION)) \cup {Erased, Junk}

FlashInv ==
  /\ flash \in [Slots -> [Offsets -> Contents]]
  /\ content \in {JunkBody} \cup 0 .. PARTITION
  /\ offset_tmp <= PARTITION
  /\ pc \in Downloading => content <= offset_tmp

LEMMA FlashInit == Init => FlashInv
<1> SUFFICES ASSUME Init PROVE FlashInv
  OBVIOUS
<1>1. Factory \in Images /\ PARTITION \in Nat
  BY OtaAssumption DEF Factory, Images
<1>2. ASSUME NEW s \in Slots, NEW i \in Offsets
      PROVE  (IF s = 0 /\ i < Size[Factory] THEN Byte(Factory, i) ELSE Erased) \in Contents
  BY <1>1 DEF Offsets, Byte, Contents
<1>3. flash \in [Slots -> [Offsets -> Contents]]
  BY <1>2 DEF Init
<1>4. 0 \in 0 .. PARTITION /\ 0 <= PARTITION
  BY <1>1
<1> QED
  BY <1>3, <1>4 DEF Init, FlashInv, Downloading

\* The image that is fetched is one of those there are.
LEMMA FetchesAnImage ==
  ASSUME fw \in Firmwares
  PROVE  ImageAt(fw.purl) \in Images
BY DEF Firmwares, Firmware, ImageAt

\* A step that writes nothing.
LEMMA FlashStays ==
  ASSUME FlashInv, flash' = flash,
         \/ content' = 0 /\ offset_tmp' = 0 /\ pc' \notin Downloading
         \/ UNCHANGED <<content, offset_tmp>> /\ (pc' \in Downloading => pc \in Downloading)
  PROVE  FlashInv'
<1>1. 0 \in 0 .. PARTITION /\ 0 <= PARTITION
  BY OtaAssumption
<1> QED
  BY <1>1 DEF FlashInv

LEMMA StartFlash ==
  ASSUME ImagesFit, IInv, RoomInv, FlashInv, StartDownload
  PROVE  FlashInv'
<1>1. SectorOf(number) \in Nat /\ SectorOf(number) <= number /\ number \in Nat
  BY Sectors DEF RoomInv, CountType
<1>2. number <= PARTITION /\ PARTITION \in Nat
  <2>1. Limit \in Int /\ Limit <= PARTITION /\ PARTITION \in Nat
    BY ImageFits DEF RoomInv, CountType
  <2> QED
    BY <1>1, <2>1 DEF RoomInv, NumberInv
<1>3. /\ flash' = flash /\ pc' = "erase" /\ offset_tmp' = SectorOf(number)
      /\ content' \in {0, SectorOf(number), JunkBody}
  BY DEF StartDownload, flashVars
<1>4. content' \in {JunkBody} \cup 0 .. PARTITION /\ content' <= offset_tmp'
      /\ offset_tmp' <= PARTITION
  BY <1>1, <1>2, <1>3 DEF JunkBody
<1> QED
  BY <1>3, <1>4 DEF FlashInv

LEMMA EraseFlash ==
  ASSUME IInv, FlashInv, Erase
  PROVE  FlashInv'
<1>1. UNCHANGED <<content, offset_tmp>> /\ pc \in Downloading
  BY DEF Erase, Downloading
<1>2. ASSUME NEW to, flash' = [flash EXCEPT ![target] = [i \in Offsets |->
               IF i \in offset_tmp .. to - 1 THEN Erased ELSE @[i]]]
      PROVE  FlashInv'
  <2> DEFINE part == [i \in Offsets |->
               IF i \in offset_tmp .. to - 1 THEN Erased ELSE flash[target][i]]
  <2>1. target \in Slots
    BY <1>1 DEF IInv, SlotType, DownloadInv, NextUpdate, Slots
  <2>2. part \in [Offsets -> Contents]
    BY <2>1 DEF FlashInv, Contents
  <2>3. flash' = [flash EXCEPT ![target] = part]
    BY <1>2
  <2> HIDE DEF part
  <2>4. flash' \in [Slots -> [Offsets -> Contents]]
    BY <2>2, <2>3 DEF FlashInv
  <2> QED
    BY <1>1, <2>4 DEF FlashInv
<1>3. CASE flash' = flash
  BY <1>1, <1>3, FlashStays
<1> QED
  BY <1>2, <1>3 DEF Erase

LEMMA WriteFlash ==
  ASSUME ImagesFit, IInv, RoomInv, CloudInv, FlashInv, Write
  PROVE  FlashInv'
<1>1. /\ content' = content /\ offset_tmp' = offset_tmp + buf
      /\ pc = "write" /\ pc \in Downloading
  BY DEF Write, Downloading
<1>2. offset_tmp \in Nat /\ buf \in Nat /\ content \in Int /\ content <= offset_tmp
  BY <1>1, OtaAssumption DEF RoomInv, CountType, FlashInv, JunkBody
<1>3. content' <= offset_tmp' /\ offset_tmp' <= PARTITION
  <2>1. Limit \in Int /\ Limit <= PARTITION /\ PARTITION \in Nat
    BY ImageFits DEF RoomInv, CountType
  <2>2. buf <= CHUNK /\ CHUNK \in Nat /\ offset_tmp + CHUNK <= Limit
    BY <1>1, OtaAssumption DEF RoomInv, CountType, OffsetInv
  <2> QED
    BY <1>1, <1>2, <2>1, <2>2
<1>4. ASSUME NEW i \in Offsets, i \in offset_tmp .. offset_tmp + buf - 1
      PROVE  Received(i) \in Contents
  <2>1. CASE content = JunkBody
    BY <2>1 DEF Received, Contents
  <2>2. CASE content # JunkBody
    <3>1. content \in 0 .. PARTITION /\ PARTITION \in Nat
      BY <2>2, OtaAssumption DEF FlashInv
    <3>2. i - content \in 0 .. PARTITION
      BY <1>2, <1>4, <3>1 DEF Offsets
    <3>3. ImageAt(fw.purl) \in Images
      BY <1>1, FetchesAnImage DEF CloudInv, FwInv
    <3> QED
      BY <2>2, <3>2, <3>3 DEF Received, Contents, Byte
  <2> QED
    BY <2>1, <2>2
<1>5. CASE flash' = [flash EXCEPT ![target] = [i \in Offsets |->
               IF i \in offset_tmp .. offset_tmp + buf - 1
               THEN Programmed(@[i], Received(i)) ELSE @[i]]]
  <2> DEFINE part == [i \in Offsets |->
               IF i \in offset_tmp .. offset_tmp + buf - 1
               THEN Programmed(flash[target][i], Received(i)) ELSE flash[target][i]]
  <2>1. target \in Slots
    BY <1>1 DEF IInv, SlotType, DownloadInv, NextUpdate, Slots
  <2>2. \A old, new : new \in Contents => Programmed(old, new) \in Contents
    BY DEF Programmed, Contents
  <2>3. flash[target] \in [Offsets -> Contents]
    BY <2>1 DEF FlashInv
  <2>4. part \in [Offsets -> Contents]
    BY <1>4, <2>2, <2>3
  <2>5. flash' = [flash EXCEPT ![target] = part]
    BY <1>5
  <2> HIDE DEF part
  <2>6. flash' \in [Slots -> [Offsets -> Contents]]
    BY <2>4, <2>5 DEF FlashInv
  <2> QED
    BY <1>1, <1>3, <2>6 DEF FlashInv
<1>6. CASE flash' = flash
  BY <1>1, <1>3, <1>6 DEF FlashInv
<1> QED
  BY <1>5, <1>6 DEF Write

LEMMA FlashNext ==
  ASSUME ImagesFit
  PROVE  IInv /\ RoomInv /\ CloudInv /\ FlashInv /\ [Next]_vars => FlashInv'
<1> SUFFICES ASSUME IInv, RoomInv, CloudInv, FlashInv, [Next]_vars PROVE FlashInv'
  OBVIOUS
<1>1. CASE Boot \/ Crash \/ Watchdog \/ OnUpdate \/ StartFails \/ ResetFlag
  BY <1>1, FlashStays
  DEF Boot, Crash, Watchdog, OnUpdate, StartFails, ResetFlag, Restart, flashVars,
      Downloading
<1>2. CASE publish_to_ota_topic_info \/ ReportVersion \/ Construct
  BY <1>2, FlashStays
  DEF publish_to_ota_topic_info, ReportVersion, Construct, Restart, flashVars,
      Downloading
<1>3. CASE OtaCallback \/ Release \/ UNCHANGED vars
  BY <1>3, FlashStays DEF OtaCallback, Release, vars, flashVars, taskVars
<1>4. CASE Fetch \/ Save \/ FetchFails \/ Verify
  BY <1>4, FlashStays
  DEF Fetch, Save, FetchFails, Verify, Restart, flashVars, Downloading
<1>5. CASE ReportBegin \/ BeginAgain \/ SetBoot \/ ReportSuccess \/ SuccessAcked
             \/ ResetNumber
  BY <1>5, FlashStays
  DEF ReportBegin, BeginAgain, SetBoot, ReportSuccess, SuccessAcked, ResetNumber,
      ReportUpgradeResult, flashVars, Downloading
<1> QED
  BY <1>1, <1>2, <1>3, <1>4, <1>5, StartFlash, EraseFlash, WriteFlash DEF Next, Deal

\* The type invariant: offsets never pass the end of a partition by more than a
\* chunk, what is written are bytes of images or junk, and the cloud hears of
\* versions there are, if images leave room and messages are read as written.
THEOREM TypeCorrect ==
  ASSUME ImagesFit, AnnouncementsRead, ReportsRead
  PROVE  Spec => []TypeOK
<1>1. IInv /\ RoomInv /\ [Next]_vars => RoomInv'
  BY NextRoom
<1>2. IInv /\ RoomInv /\ CloudInv /\ FlashInv /\ [Next]_vars => FlashInv'
  BY FlashNext
<1>3. Init => RoomInv
  BY RoomInit
<1>4. Spec => [](IInv /\ CloudInv)
  BY CloudInvariance
<1>5. IInv /\ RoomInv /\ CloudInv /\ FlashInv => TypeOK
  <2> SUFFICES ASSUME IInv, RoomInv, CloudInv, FlashInv
               PROVE  TypeOK
    OBVIOUS
  <2>1. number \in 0 .. PARTITION + CHUNK /\ offset_tmp \in 0 .. PARTITION + CHUNK
    <3>1. Limit \in Int /\ Limit <= PARTITION /\ PARTITION \in Nat /\ CHUNK \in Nat
      BY ImageFits, OtaAssumption DEF RoomInv, CountType
    <3>2. /\ number \in Nat /\ number <= Limit
          /\ offset_tmp \in Nat /\ offset_tmp <= PARTITION
      BY DEF RoomInv, CountType, NumberInv, FlashInv
    <3> QED
      BY <3>1, <3>2
  <2>2. fw \in {NoFw} \cup
       [purl : {Url(f) : f \in Images}, version : {Version(f) : f \in Images},
        md5sum : {Md5(f) : f \in Images}, size_file : {Size[f] : f \in Images}]
    BY DEF CloudInv, FwInv, Firmwares, Firmware
  <2>3. /\ flash \in [Slots -> [Offsets ->
            (Images \X (0 .. PARTITION)) \cup {Erased, Junk}]]
        /\ content \in {JunkBody} \cup 0 .. PARTITION
    BY DEF FlashInv, Contents
  <2>4. /\ pc \in {"off", "connect", "normal", "construct", "init", "listen", "erase",
                   "fetch", "write", "save", "verify", "begin", "beginWait",
                   "success", "successWait", "number", "flag"}
        /\ boot \in Slots /\ running \in Slots /\ target \in Slots \cup {NoSlot}
        /\ ota_over \in BOOLEAN
    BY DEF IInv, SlotType, Places, Downloading, Upgrading
  <2>5. outside \in BOOLEAN /\ buf \in 0 .. CHUNK /\ restarts \in 0 .. MaxRestarts
    BY DEF RoomInv, CountType
  <2> QED
    BY <2>1, <2>2, <2>3, <2>4, <2>5 DEF CloudInv, StateType, Versions, TypeOK
<1> QED
  BY <1>1, <1>2, <1>3, <1>4, <1>5, FlashInit, PTL DEF Spec

-----------------------------------------------------------------------------
(***************************************************************************)
(* ReportedIsBooted, when reports can be published: then the partition     *)
(* that was verified is not forgotten.                                     *)
(***************************************************************************)
Chosen(slot) == \E f \in Images : fw = Firmware(f) /\ Holds(slot, f)

ReportInv ==
  /\ pc = "listen" => ~ota_over
  /\ pc \in {"begin", "beginWait", "success", "successWait"} =>
       target # NoSlot /\ Chosen(target)
  /\ pc \in {"success", "successWait"} => boot = target
  /\ pc = "successWait" => claimed = fw.version

\* Steps from anywhere to where nothing is said.
LEMMA ReportElsewhere ==
  ASSUME pc' \notin {"listen", "begin", "beginWait", "success", "successWait"}
  PROVE  ReportInv'
BY DEF ReportInv

\* Steps that leave it all alone.
LEMMA ReportStays ==
  ASSUME ReportInv, UNCHANGED <<pc, ota_over, target, fw, flash, boot, claimed>>
  PROVE  ReportInv'
BY DEF ReportInv, Chosen, Holds

\* The download that was verified is of the image that was announced.
LEMMA VerifyReport ==
  ASSUME ImagesDiffer, IInv, CloudInv, Verify
  PROVE  ReportInv'
<1>1. CASE Restart
  BY <1>1, ReportElsewhere DEF Restart
<1>2. CASE ~Restart
  <2>1. /\ Digested /\ pc = "verify" /\ pc' = "begin"
        /\ UNCHANGED <<fw, target, flash>>
    BY <1>2 DEF Verify, otaVars, flashVars
  <2>2. PICK f \in Images : fw = Firmware(f)
    BY <2>1 DEF CloudInv, FwInv, Downloading, Firmwares
  <2>3. PICK g \in Images : Md5(g) = fw.md5sum /\ Holds(target, g)
    BY <2>1 DEF Digested
  <2>4. f = g
    BY <2>2, <2>3 DEF ImagesDiffer, Firmware
  <2>5. Holds(target, f)'
    BY <2>1, <2>3, <2>4 DEF Holds
  <2>6. target # NoSlot
    BY <2>1 DEF IInv, SlotType, DownloadInv, Downloading, NextUpdate, Slots, NoSlot
  <2> QED
    BY <2>1, <2>2, <2>5, <2>6 DEF ReportInv, Chosen
<1> QED
  BY <1>1, <1>2

\* The reports, when they are published, and the choice of the partition.
LEMMA UpgradeReport ==
  ASSUME ~PublishFails, ReportsRead, IInv, CloudInv, ReportInv,
         ReportBegin \/ BeginAgain \/ SetBoot \/ ReportSuccess \/ SuccessAcked
           \/ ResetNumber
  PROVE  ReportInv'
<1>1. CASE BeginAgain
  BY <1>1 DEF BeginAgain, ReportInv
<1>2. CASE SuccessAcked \/ ResetNumber
  BY <1>2, ReportElsewhere DEF SuccessAcked, ResetNumber
<1>3. UNCHANGED <<fw, flash>>
  BY DEF ReportBegin, BeginAgain, SetBoot, ReportSuccess, SuccessAcked, ResetNumber,
         otaVars, flashVars
<1>4. target' = target /\ Chosen(target) => Chosen(target)'
  BY <1>3 DEF Chosen, Holds
<1>5. CASE ReportBegin
  BY <1>4, <1>5 DEF ReportBegin, ReportUpgradeResult, PublishError, ReportInv
<1>6. CASE SetBoot
  BY <1>4, <1>6 DEF SetBoot, ReportInv
<1>7. CASE ReportSuccess
  <2>1. /\ pc = "success" /\ pc' = "successWait" /\ UNCHANGED <<target, boot>>
        /\ Hears(gen_report_msg(fw.version, "UPGRADE_SUCCESS"))
    BY <1>7 DEF ReportSuccess, ReportUpgradeResult, PublishError, otamqtt_publish,
                flashVars
  <2>2. PICK f \in Images : fw = Firmware(f)
    BY <2>1 DEF CloudInv, FwInv, Upgrading, Firmwares
  <2>3. fw.version = Version(f)
    BY <2>2 DEF Firmware
  <2>4. Heard[gen_report_msg(fw.version, "UPGRADE_SUCCESS")] =
          [runs |-> {}, became |-> {fw.version}]
    BY <2>3 DEF ReportsRead, ReportTypes
  <2>5. claimed' = fw.version
    BY <2>1, <2>4 DEF Hears
  <2> QED
    BY <1>3, <1>4, <2>1, <2>5 DEF ReportInv
<1> QED
  BY <1>1, <1>2, <1>5, <1>6, <1>7

LEMMA ReportNext ==
  ASSUME ~PublishFails, AnnouncementsRead, ReportsRead, ImagesDiffer
  PROVE  IInv /\ CloudInv /\ ReportInv /\ [Next]_vars => ReportInv'
<1> SUFFICES ASSUME IInv, CloudInv, ReportInv, [Next]_vars PROVE ReportInv'
  OBVIOUS
<1>1. CASE Boot \/ Crash \/ Watchdog \/ OnUpdate \/ StartFails \/ FetchFails \/ ResetFlag
  BY <1>1, ReportElsewhere
  DEF Boot, Crash, Watchdog, OnUpdate, StartFails, FetchFails, ResetFlag, Restart
<1>2. CASE publish_to_ota_topic_info \/ Construct
  BY <1>2, ReportElsewhere DEF publish_to_ota_topic_info, Construct, Restart
<1>3. CASE ReportVersion
  BY <1>3 DEF ReportVersion, ReportInv, IInv, OverInv, Upgrading
<1>4. CASE OtaCallback
  <2>1. UNCHANGED <<pc, ota_over, target, flash, boot, claimed>> /\ state = "inited"
    BY <1>4 DEF OtaCallback, taskVars, flashVars, cloudVars
  <2>2. pc \notin {"begin", "beginWait", "success", "successWait"}
    BY <2>1 DEF IInv, OverInv, Upgrading
  <2> QED
    BY <2>1, <2>2 DEF ReportInv
<1>5. CASE Release \/ UNCHANGED vars
  BY <1>5, ReportStays
  DEF Release, vars, flashVars, taskVars, otaVars, cloudVars
<1>6. CASE StartDownload \/ Erase \/ Fetch \/ Write \/ Save
  BY <1>6, ReportElsewhere DEF StartDownload, Erase, Fetch, Write, Save
<1> QED
  BY <1>1, <1>2, <1>3, <1>4, <1>5, <1>6, VerifyReport, UpgradeReport DEF Next, Deal

\* An upgrade that is reported as done was done (device_ota.c:423-425), whatever
\* restarts, faults and withdrawn releases there are, if reports can be
\* published; OtaReport.cfg shows what happens when one cannot.
THEOREM SuccessIsBooted ==
  ASSUME ~PublishFails, AnnouncementsRead, ReportsRead, ImagesDiffer
  PROVE  Spec => []ReportedIsBooted
<1>1. Init => ReportInv
  BY ReportElsewhere DEF Init, ReportInv
<1>2. IInv /\ CloudInv /\ ReportInv /\ [Next]_vars => ReportInv'
  BY ReportNext
<1>3. IInv /\ CloudInv /\ ReportInv => ReportedIsBooted
  <2> SUFFICES ASSUME ReportInv, pc = "successWait",
                      NEW g \in Images, claimed = Version(g)
               PROVE  Holds(boot, g)
    BY DEF ReportedIsBooted
  <2>1. PICK f \in Images : fw = Firmware(f) /\ Holds(target, f)
    BY DEF ReportInv, Chosen
  <2>2. boot = target /\ Version(g) = Version(f)
    BY <2>1 DEF ReportInv, Firmware
  <2> QED
    BY <2>1, <2>2 DEF ImagesDiffer
<1> QED
  BY <1>1, <1>2, <1>3, CloudInvariance, PTL DEF Spec
=============================================================================

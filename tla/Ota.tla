-------------------------------- MODULE Ota --------------------------------
(***************************************************************************)
(* Firmware upgrade: the demo's OTA task (device_ota.c) over the OTA       *)
(* client (ota_client.c, ota_mqtt.c, ota_fetch.c), with what survives a    *)
(* restart: two partitions, the choice of the one to boot, and in NVS the  *)
(* flag "start in OTA mode" and the number of bytes already written.  The  *)
(* messages are those of OtaDoc.                                           *)
(*                                                                         *)
(* A byte stands for a unit of flash; an image is known by its name, and   *)
(* MD5 tells every two contents apart.  The loss of Wi-Fi, the watchdog of *)
(* app_main and every error path of the download end in esp_restart, so a  *)
(* restart may come between any two steps.                                 *)
(***************************************************************************)
EXTENDS OtaDoc

CONSTANTS
  Size,          \* bytes of each image, in the order of their versions
  SECTOR,        \* SPI_FLASH_SEC_SIZE
  PARTITION,     \* bytes of a partition
  CHUNK,         \* bytes one fetch returns at most: OTA_BUF_LEN - 1
  MaxReleases,   \* bound: new images released
  MaxRestarts,   \* bound: restarts by a crash or a lost connection
  MaxFaults,     \* bound: failed requests, bad answers, flash errors
  PublishFails,  \* a report may fail to be published (counts as a fault)
  AckLoss,       \* the PUBACK of a report may never come
  Withdrawn,     \* a release may be taken back and an older one offered
  LateRestart    \* a crash may come after the boot partition was chosen

ASSUME OtaAssumption ==
  /\ DOMAIN Size = 1 .. Cardinality(DOMAIN Size)
  /\ 1 \in DOMAIN Size /\ \A f \in DOMAIN Size : Size[f] \in Nat \ {0}
  /\ SECTOR \in Nat \ {0} /\ CHUNK \in Nat \ {0} /\ PARTITION \in Nat
  /\ Size[1] <= PARTITION     \* the device is delivered with an image
  /\ MaxReleases \in Nat /\ MaxRestarts \in Nat /\ MaxFaults \in Nat
  /\ PublishFails \in BOOLEAN /\ AckLoss \in BOOLEAN /\ LateRestart \in BOOLEAN
  /\ Withdrawn \in BOOLEAN

Images  == DOMAIN Size    \* in the order of their versions
Factory == 1              \* the one the device is delivered with
Slots == {0, 1}
None  == 0
NoSlot == -1
Offsets == 0 .. PARTITION - 1

VARIABLES
  \* kept over a restart
  flash,        \* content of each partition
  outside,      \* bytes outside the partition were erased or written
  boot,         \* the partition to boot: otadata
  flag, number, \* NVS "otaflag" and "otanumber"
  \* the running program
  running,      \* the partition it runs from
  pc,
  state,        \* of the OTA client
  fw,           \* what was announced: purl, version, md5sum, size_file
  target,       \* update_partition
  ota_over,     \* the image was verified in this session
  offset_tmp,   \* next byte to write, also the client's size_fetched
  content,      \* where the image would begin for the body to be written at
                \* offset_tmp: 0, or the resume point if the server ignores
                \* the range; JunkBody for an error page
  buf,          \* length of the chunk that was fetched
  acked,        \* the PUBACK waited for will come
  \* the cloud
  released,     \* the image every device should run
  version,      \* the version the device reported last
  claimed,      \* it reported the upgrade to this version as done
  releases, restarts, faults

nvsVars   == <<flag, number>>
flashVars == <<flash, outside, boot>>
taskVars  == <<running, pc, target, ota_over, offset_tmp, content, buf, acked>>
otaVars   == <<state, fw>>
cloudVars == <<released, version, claimed, releases>>
countVars == <<restarts, faults>>
vars == <<nvsVars, flashVars, taskVars, otaVars, cloudVars, countVars>>

Byte(f, i) == <<f, i>>
Erased == Byte(None, 0)
Junk   == Byte(None, 1)
JunkBody == -1

Holds(slot, f) ==
  \A i \in 0 .. Size[f] - 1 : i \in Offsets /\ flash[slot][i] = Byte(f, i)

\* What is said of an image: its name, its place on the server, its digest.
Version(f) == ToString(f)
Url(f)     == "url" \o ToString(f)
Md5(f)     == "md5-" \o ToString(f)
NoFw       == [purl |-> "", version |-> "", md5sum |-> "", size_file |-> 0]
ImageAt(purl) == CHOOSE f \in Images : Url(f) = purl
atoi(digits)  == CHOOSE n \in {Size[f] : f \in Images} : ToString(n) = digits

RunningImage == CHOOSE f \in Images : Holds(running, f)
fwVer        == Version(RunningImage)

IOT_OTA_IsFetching    == state = "fetching"
IOT_OTA_IsFetchFinish == state = "fetched"

NextUpdate(slot) == 1 - slot      \* esp_ota_get_next_update_partition(NULL)

Fault == faults < MaxFaults /\ faults' = faults + 1

Init ==
  /\ flash = [s \in Slots |-> [i \in Offsets |->
       IF s = 0 /\ i < Size[Factory] THEN Byte(Factory, i) ELSE Erased]]
  /\ outside = FALSE
  /\ boot = 0 /\ running = 0
  /\ flag = 0 /\ number = 0
  /\ pc = "off" /\ state = "uninited" /\ fw = NoFw
  /\ target = NoSlot /\ ota_over = FALSE
  /\ offset_tmp = 0 /\ content = 0 /\ buf = 0 /\ acked = FALSE
  /\ released = Factory /\ version = Version(Factory) /\ claimed = ""
  /\ releases = 0 /\ restarts = 0 /\ faults = 0

-----------------------------------------------------------------------------
(***************************************************************************)
(* Restart and boot.                                                       *)
(***************************************************************************)

\* esp_restart: the RAM is lost.
Restart ==
  /\ pc' = "off" /\ state' = "uninited" /\ fw' = NoFw
  /\ target' = NoSlot /\ ota_over' = FALSE
  /\ offset_tmp' = 0 /\ content' = 0 /\ buf' = 0 /\ acked' = FALSE
  /\ UNCHANGED running

\* The boot loader starts the chosen partition; the flag in NVS decides
\* whether the OTA task or the ordinary demo is started.
Boot ==
  /\ pc = "off"
  /\ running' = boot
  /\ pc' = IF flag = 0 THEN "connect" ELSE "construct"
  /\ UNCHANGED <<nvsVars, flashVars, otaVars, cloudVars, countVars, target,
                 ota_over, offset_tmp, content, buf, acked>>

\* Power fails, or Wi-Fi is lost and the event handler restarts.
Crash ==
  /\ pc # "off" /\ restarts < MaxRestarts
  /\ ~LateRestart => boot = running
  /\ restarts' = restarts + 1
  /\ Restart
  /\ UNCHANGED <<nvsVars, flashVars, cloudVars, faults>>

\* app_main restarts a device that was started in OTA mode and has heap to
\* spare, which it has while no download is open.
Watchdog ==
  /\ pc = "listen" /\ ~IOT_OTA_IsFetching /\ ~ota_over
  /\ Restart
  /\ UNCHANGED <<nvsVars, flashVars, cloudVars, countVars>>

-----------------------------------------------------------------------------
(***************************************************************************)
(* Reports to the cloud.                                                   *)
(***************************************************************************)
ReportTypes == {"DOWNLOADING", "DOWNLOAD_TIMEOUT", "AUTH_FAIL",
                "FILE_NOT_EXIST", "UPGRADE_BEGIN", "UPGRADE_SUCCESS"}
Reports ==
  {gen_info_msg(Version(f)) : f \in Images}
  \cup {gen_report_msg(Version(f), type) : f \in Images, type \in ReportTypes}

\* What the cloud takes from a report.
Heard == [doc \in Reports |-> [runs   |-> SaysItRuns(doc),
                               became |-> SaysItBecame(doc)]]
Hears(doc) ==
  LET heard == Heard[doc] IN
  /\ version' \in IF heard.runs = {} THEN {version} ELSE heard.runs
  /\ claimed' \in IF heard.became = {} THEN {claimed} ELSE heard.became

HearsNothing == UNCHANGED <<version, claimed>>

\* At QoS 1: published, or the publish call returns an error.
otamqtt_publish(doc) == Hears(doc) /\ UNCHANGED faults
PublishError         == PublishFails /\ Fault /\ HearsNothing

-----------------------------------------------------------------------------
(***************************************************************************)
(* The ordinary demo.                                                      *)
(***************************************************************************)

\* Both topics are subscribed and the version is reported; one of the calls
\* that fails, or a wait of more than five rounds, restarts the device.
publish_to_ota_topic_info ==
  /\ pc = "connect"
  /\ \/ /\ otamqtt_publish(gen_info_msg(fwVer))
        /\ pc' = "normal"
        /\ UNCHANGED <<otaVars, running, target, ota_over, offset_tmp,
                       content, buf, acked>>
     \/ /\ PublishError /\ Restart
  /\ UNCHANGED <<nvsVars, flashVars, restarts, released, releases>>

\* The cloud offers an image to a device whose version is another.
Offered == Version(released) # version

Update(f) == update_firmware(Url(f), Version(f), Md5(f), ToString(Size[f]))
Messages  ==
  {Update(f) : f \in Images} \cup {report_version_rsp(c) : c \in {"0", "1"}}

\* What the device takes from a message.
Read == [doc \in Messages |->
           [type   |-> get_firmware_type(doc),
            result |-> get_report_version_result(doc),
            params |-> {[p EXCEPT !.size_file = atoi(@)] : p \in get_params(doc)},
            url    |-> Tells(doc, <<"url">>)]]

\* on_message_callback: an update with a URL.
OnUpdate ==
  /\ pc = "normal" /\ Offered
  /\ Read[Update(released)].url # {}
  /\ flag' = 1
  /\ Restart
  /\ UNCHANGED <<number, flashVars, cloudVars, countVars>>

-----------------------------------------------------------------------------
(***************************************************************************)
(* OTA mode.  dooya_qcloud_ota_all constructs the clients, reports the     *)
(* version, then yields and calls dooya_qcloud_ota_deal in turns.          *)
(***************************************************************************)

\* The device restarts when the MQTT client cannot be made, and goes on
\* without an OTA client when that one cannot: the topic is not subscribed.
Construct ==
  /\ pc = "construct"
  /\ \/ /\ \/ state' = "inited" /\ UNCHANGED faults
           \/ Fault /\ UNCHANGED state
        /\ pc' = "init"
        /\ UNCHANGED <<fw, running, target, ota_over, offset_tmp, content, buf,
                       acked>>
     \/ Fault /\ Restart
  /\ UNCHANGED <<nvsVars, flashVars, cloudVars, restarts>>

\* A report that fails is only logged.
ReportVersion ==
  /\ pc = "init"
  /\ \/ state # "uninited" /\ otamqtt_publish(gen_info_msg(fwVer))
     \/ state # "uninited" /\ PublishError
     \/ state = "uninited" /\ HearsNothing /\ UNCHANGED faults
  /\ pc' = "listen"
  /\ UNCHANGED <<nvsVars, flashVars, otaVars, restarts, running, target,
                 ota_over, offset_tmp, content, buf, acked, released, releases>>

Yields == {"init", "listen", "beginWait", "successWait"}

\* Mutant: an offer is taken in every state.
OtaCallbackAlways ==
  /\ pc \in Yields /\ state # "uninited" /\ Offered
  /\ fw' \in Read[Update(released)].params /\ state' = "fetching"
  /\ UNCHANGED <<nvsVars, flashVars, taskVars, cloudVars, countVars>>

\* _ota_callback, from inside a yield: an offer is taken unless one was taken
\* before; the refusal of the reported version ends the session's fetching.
OtaCallback ==
  /\ pc \in Yields
  /\ state = "inited"
  /\ \/ /\ Offered
        /\ Read[Update(released)].type = <<"update_firmware">>
        /\ fw' \in Read[Update(released)].params
        /\ state' = "fetching"
        /\ UNCHANGED faults
     \/ \E code \in {"0", "1"} :
          LET rsp == Read[report_version_rsp(code)] IN
          /\ rsp.type = <<"report_version_rsp">>
          /\ IF code = "0" THEN UNCHANGED faults ELSE Fault
          /\ state' = IF rsp.result THEN state ELSE "fetched"
          /\ UNCHANGED fw
  /\ UNCHANGED <<nvsVars, flashVars, taskVars, cloudVars, restarts>>

SectorOf(n) == (n \div SECTOR) * SECTOR

\* offset_all.  size_file - offset_tmp is unsigned: a resume point past the
\* end of a smaller image makes it wrap, and the erase is refused.
EraseLength(size, from) == ((size - from) \div SECTOR + 1) * SECTOR

\* IOT_OTA_GetSize, IOT_OTA_StartDownload: the answer begins at the offset, or
\* the server ignores the range, or it answers with an error page, the body of
\* which is taken for data (only 403 and 404 are told apart).
StartDownload ==
  /\ pc = "listen" /\ IOT_OTA_IsFetching
  /\ LET from == SectorOf(number) IN
       /\ target' = NextUpdate(running) /\ offset_tmp' = from
       /\ \/ /\ from < Size[ImageAt(fw.purl)]
             /\ content' = 0 /\ UNCHANGED faults
          \/ /\ from >= Size[ImageAt(fw.purl)]
             /\ content' = JunkBody /\ UNCHANGED faults
          \/ /\ Fault /\ content' \in {from, JunkBody}
  /\ pc' = "erase" /\ buf' = 0
  /\ UNCHANGED <<nvsVars, flashVars, otaVars, cloudVars, restarts, running,
                 ota_over, acked>>

\* The connection cannot be made: the task returns -1, and restarts.
StartFails ==
  /\ pc = "listen" /\ IOT_OTA_IsFetching
  /\ Fault
  /\ Restart
  /\ UNCHANGED <<nvsVars, flashVars, cloudVars, restarts>>

\* An erase that fails is only logged.
Erase ==
  /\ pc = "erase"
  /\ LET to == offset_tmp + EraseLength(fw.size_file, offset_tmp) IN
       \/ /\ offset_tmp <= fw.size_file
          /\ flash' = [flash EXCEPT ![target] = [i \in Offsets |->
               IF i \in offset_tmp .. to - 1 THEN Erased ELSE @[i]]]
          /\ outside' = (outside \/ to > PARTITION)
          /\ UNCHANGED faults
       \/ /\ IF offset_tmp > fw.size_file THEN UNCHANGED faults ELSE Fault
          /\ UNCHANGED <<flash, outside>>
  /\ pc' = "fetch"
  /\ UNCHANGED <<nvsVars, boot, otaVars, cloudVars, restarts, running, target,
                 ota_over, offset_tmp, content, buf, acked>>

\* IOT_OTA_FetchYield: some bytes of the body.  Its progress reports tell the
\* cloud no more than the one of Save.
Fetch ==
  /\ pc = "fetch"
  /\ \E n \in 1 .. CHUNK :
       /\ content # JunkBody => offset_tmp + n <= content + Size[ImageAt(fw.purl)]
       /\ buf' = n
       /\ state' = IF offset_tmp + n >= fw.size_file THEN "fetched" ELSE state
  /\ pc' = "write"
  /\ UNCHANGED <<nvsVars, flashVars, fw, cloudVars, countVars, running, target,
                 ota_over, offset_tmp, content, acked>>

\* A time-out, a closed connection, 403 or 404: the failure is reported, which
\* may fail in its turn, and the task returns -1.
FetchFails ==
  /\ pc = "fetch"
  /\ Fault
  /\ \E type \in {"DOWNLOAD_TIMEOUT", "AUTH_FAIL", "FILE_NOT_EXIST"} :
       Hears(gen_report_msg(fw.version, type))
  /\ Restart
  /\ UNCHANGED <<nvsVars, flashVars, released, releases, restarts>>

\* The byte of the body that is to be written at offset i.
Received(i) ==
  IF content = JunkBody THEN Junk ELSE Byte(ImageAt(fw.purl), i - content)

\* Writing flash that is not erased clears bits only.
Programmed(old, new) == IF old \in {Erased, new} THEN new ELSE Junk

\* A write that fails is only logged.
Write ==
  /\ pc = "write"
  /\ LET here == offset_tmp .. offset_tmp + buf - 1 IN
       \/ /\ flash' = [flash EXCEPT ![target] = [i \in Offsets |->
               IF i \in here THEN Programmed(@[i], Received(i)) ELSE @[i]]]
          /\ outside' = (outside \/ ~(here \subseteq Offsets))
          /\ UNCHANGED faults
       \/ /\ Fault /\ UNCHANGED <<flash, outside>>
  /\ offset_tmp' = offset_tmp + buf
  /\ buf' = 0
  /\ pc' = "save"
  /\ UNCHANGED <<nvsVars, boot, otaVars, cloudVars, restarts, running, target,
                 ota_over, content, acked>>

\* The progress is reported at QoS 0 and the offset saved.
Save ==
  /\ pc = "save"
  /\ Hears(gen_report_msg(fw.version, "DOWNLOADING"))
  /\ number' = offset_tmp
  /\ pc' = IF IOT_OTA_IsFetchFinish THEN "verify" ELSE "fetch"
  /\ UNCHANGED <<flag, flashVars, otaVars, released, releases, countVars,
                 running, target, ota_over, offset_tmp, content, buf, acked>>

\* The digest of the first size_file bytes is the announced one.
Digested ==
  \E f \in Images : Size[f] = fw.size_file /\ Md5(f) = fw.md5sum /\ Holds(target, f)

\* Mutant: after a mismatch the resume point stays.
VerifyKeepsNumber ==
  /\ pc = "verify"
  /\ \/ /\ Digested
        /\ ota_over' = TRUE /\ pc' = "begin"
        /\ UNCHANGED <<otaVars, running, target, offset_tmp, content, buf,
                       acked>>
     \/ /\ ~Digested /\ Restart
  /\ UNCHANGED <<nvsVars, flashVars, cloudVars, countVars>>

\* The partition is read back and its digest compared with the announced one;
\* on a mismatch the next session starts from byte 0.
Verify ==
  /\ pc = "verify"
  /\ \/ /\ Digested
        /\ ota_over' = TRUE /\ pc' = "begin"
        /\ UNCHANGED <<number, otaVars, running, target, offset_tmp, content,
                       buf, acked>>
     \/ /\ ~Digested
        /\ number' = 0
        /\ Restart
  /\ UNCHANGED <<flag, flashVars, cloudVars, countVars>>

\* A report at QoS 1 of the announced version.  When it fails the deal returns
\* an error that is not -1: the loop goes on, and update_partition, a local
\* variable, is lost.
ReportUpgradeResult(reportType, next) ==
  \/ /\ otamqtt_publish(gen_report_msg(fw.version, reportType))
     /\ pc' = next
     /\ acked' \in IF AckLoss THEN BOOLEAN ELSE {TRUE}
     /\ UNCHANGED target
  \/ /\ PublishError
     /\ pc' = "listen" /\ target' = NoSlot /\ UNCHANGED acked

ReportBegin ==
  /\ pc = "begin"
  /\ ReportUpgradeResult("UPGRADE_BEGIN", "beginWait")
  /\ UNCHANGED <<nvsVars, flashVars, otaVars, released, releases, restarts,
                 running, ota_over, offset_tmp, content, buf>>

\* The next turn of the loop: nothing is fetched, ota_over is still set.
BeginAgain ==
  /\ pc = "listen" /\ ~IOT_OTA_IsFetching /\ ota_over
  /\ pc' = "begin"
  /\ UNCHANGED <<nvsVars, flashVars, otaVars, cloudVars, countVars, running,
                 target, ota_over, offset_tmp, content, buf, acked>>

\* event_handler, MQTT_EVENT_PUBLISH_SUCCESS; then esp_ota_set_boot_partition,
\* which refuses NULL and of which the result is not looked at.
SetBoot ==
  /\ pc = "beginWait" /\ acked
  /\ boot' = IF target = NoSlot THEN boot ELSE target
  /\ acked' = FALSE
  /\ pc' = "success"
  /\ UNCHANGED <<nvsVars, flash, outside, otaVars, cloudVars, countVars,
                 running, target, ota_over, offset_tmp, content, buf>>

ReportSuccess ==
  /\ pc = "success"
  /\ ReportUpgradeResult("UPGRADE_SUCCESS", "successWait")
  /\ UNCHANGED <<nvsVars, flashVars, otaVars, released, releases, restarts,
                 running, ota_over, offset_tmp, content, buf>>

SuccessAcked ==
  /\ pc = "successWait" /\ acked
  /\ acked' = FALSE
  /\ pc' = "number"
  /\ UNCHANGED <<nvsVars, flashVars, otaVars, cloudVars, countVars, running,
                 target, ota_over, offset_tmp, content, buf>>

ResetNumber ==
  /\ pc = "number"
  /\ number' = 0
  /\ pc' = "flag"
  /\ UNCHANGED <<flag, flashVars, otaVars, cloudVars, countVars, running,
                 target, ota_over, offset_tmp, content, buf, acked>>

\* Mutant: the flag stays.
ResetFlagNot ==
  /\ pc = "flag"
  /\ Restart
  /\ UNCHANGED <<nvsVars, flashVars, cloudVars, countVars>>

ResetFlag ==
  /\ pc = "flag"
  /\ flag' = 0
  /\ Restart
  /\ UNCHANGED <<number, flashVars, cloudVars, countVars>>

-----------------------------------------------------------------------------
\* The vendor releases a newer image.
Release ==
  /\ releases < MaxReleases
  /\ releases' = releases + 1
  /\ released' \in {f \in Images : f > released \/ (Withdrawn /\ f # released)}
  /\ UNCHANGED <<nvsVars, flashVars, taskVars, otaVars, version, claimed,
                 countVars>>

Deal ==
  \/ StartDownload \/ Erase \/ Fetch \/ Write \/ Save \/ Verify
  \/ ReportBegin \/ BeginAgain \/ SetBoot \/ ReportSuccess \/ SuccessAcked
  \/ ResetNumber \/ ResetFlag

Next ==
  \/ Boot \/ Crash \/ Watchdog \/ publish_to_ota_topic_info \/ OnUpdate
  \/ Construct \/ ReportVersion \/ OtaCallback
  \/ StartFails \/ FetchFails \/ Deal \/ Release

Spec == Init /\ [][Next]_vars

\* The processor runs, and an offer reaches a device that keeps coming back to
\* listen: a session listens for half a minute before the watchdog ends it.
Fairness ==
  /\ WF_vars(Boot \/ publish_to_ota_topic_info \/ Construct \/ ReportVersion
             \/ Deal)
  /\ WF_vars(OnUpdate)
  /\ WF_vars(Watchdog)
  /\ SF_vars(OtaCallback /\ Offered /\ state' = "fetching")

FairSpec == Spec /\ Fairness

-----------------------------------------------------------------------------
TypeOK ==
  /\ flash \in [Slots -> [Offsets ->
       (Images \X (0 .. PARTITION)) \cup {Erased, Junk}]]
  /\ outside \in BOOLEAN /\ boot \in Slots /\ running \in Slots
  /\ flag \in {0, 1} /\ number \in 0 .. PARTITION + CHUNK
  /\ pc \in {"off", "connect", "normal", "construct", "init", "listen", "erase",
             "fetch", "write", "save", "verify", "begin", "beginWait",
             "success", "successWait", "number", "flag"}
  /\ state \in {"uninited", "inited", "fetching", "fetched"}
  /\ fw \in {NoFw} \cup
       [purl : {Url(f) : f \in Images}, version : {Version(f) : f \in Images},
        md5sum : {Md5(f) : f \in Images}, size_file : {Size[f] : f \in Images}]
  /\ target \in Slots \cup {NoSlot}
  /\ ota_over \in BOOLEAN /\ offset_tmp \in 0 .. PARTITION + CHUNK
  /\ content \in {JunkBody} \cup 0 .. PARTITION /\ buf \in 0 .. CHUNK
  /\ acked \in BOOLEAN
  /\ released \in Images /\ version \in {Version(f) : f \in Images}
  /\ claimed \in {Version(f) : f \in Images} \cup {""}
  /\ releases \in 0 .. MaxReleases /\ restarts \in 0 .. MaxRestarts
  /\ faults \in 0 .. MaxFaults

\* The partition the boot loader will start holds a whole image at every
\* moment: whatever was downloaded, resumed, mixed from two releases, badly
\* erased or written, and wherever the device restarted (device_ota.c:284-423).
BootableAlways == \E f \in Images : Holds(boot, f)

\* Erasing and writing stay inside the partition that is updated: behind ota_0
\* lies the factory data (device_ota.c:284-306, partitions_qcloud_demo.csv).
OwnPartition == ~outside

\* When that can be promised.  A sector more than the image is erased; and a
\* restart after the last byte was saved and before the digest was found wrong
\* leaves an offset from which one more chunk is written (device_ota.c:247-324).
\* And an announcement is read as it was written.
ImagesFit ==
  \A f \in Images : /\ Size[f] + SECTOR <= PARTITION
                    /\ Size[f] + CHUNK * (MaxRestarts + 1) <= PARTITION

Firmware(f) == [purl |-> Url(f), version |-> Version(f), md5sum |-> Md5(f),
                size_file |-> Size[f]]

AnnouncementsRead == \A f \in Images : Read[Update(f)].params \subseteq {Firmware(f)}

\* A report is read as it was written: the version that runs, or, once the
\* upgrade has succeeded, the version that was installed.
ReportsRead ==
  \A f \in Images :
    /\ Heard[gen_info_msg(Version(f))] = [runs |-> {Version(f)}, became |-> {}]
    /\ \A type \in ReportTypes :
         Heard[gen_report_msg(Version(f), type)] =
           [runs   |-> {},
            became |-> IF type = "UPGRADE_SUCCESS" THEN {Version(f)} ELSE {}]

\* Images differ in their versions and in their digests.
ImagesDiffer ==
  \A f, g \in Images : Version(f) = Version(g) \/ Md5(f) = Md5(g) => f = g

\* The device ends up running what was released last, out of OTA mode: after
\* any number of resumed, refused or broken downloads (device_ota.c:208-449).
UpgradeCompletes ==
  <>[](pc = "normal" /\ flag = 0 /\ RunningImage = released)

\* An upgrade that is reported as done was done: the image is the one that the
\* next start boots (device_ota.c:423-425).
ReportedIsBooted ==
  pc = "successWait" =>
    \A f \in Images : claimed = Version(f) => Holds(boot, f)
=============================================================================

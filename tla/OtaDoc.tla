------------------------------- MODULE OtaDoc -------------------------------
(***************************************************************************)
(* The messages of a firmware upgrade (ota_lib.c): what the device reports *)
(* on $ota/report, and how it reads what comes on $ota/update.             *)
(***************************************************************************)
EXTENDS Json, TLC

\* The value of a key; nothing when it is missing.  One of a fixed length
\* fits its buffer: a digest has 32 characters, a size at most 16.
get_firmware_para(json, key) == LITE_json_value_of(<<key>>, json)

get_firmware_type(json) == get_firmware_para(json, "type")

get_report_version_result(json) ==
  get_firmware_para(json, "result_code") = <<"0">>

Params == {"type", "version", "url", "md5sum", "file_size"}

\* The announced firmware, or nothing when one of its keys is missing.  The
\* size is in digits.
get_params(json) ==
  LET value(key) == Head(get_firmware_para(json, key))
  IN  IF \E key \in Params : get_firmware_para(json, key) = <<>> THEN {}
      ELSE {[purl |-> value("url"), version |-> value("version"),
             md5sum |-> value("md5sum"), size_file |-> value("file_size")]}

gen_info_msg(fw_version) ==
  <<"{", "type", ":", "report_version", ",",
    "report", ":", "{", "version", ":", fw_version, "}", "}">>

State(reportType) ==
  CASE reportType \in {"DOWNLOAD_BEGIN", "DOWNLOADING"} -> "downloading"
    [] reportType = "UPGRADE_BEGIN" -> "burning"
    [] reportType = "UPGRADE_SUCCESS" -> "done"
    [] OTHER -> "fail"

\* result_code and result_msg are left out.
gen_report_msg(fw_version, reportType) ==
  <<"{", "type", ":", "report_progress", ",", "report", ":", "{",
    "progress", ":", "{", "state", ":", State(reportType), "}", ",",
    "version", ":", fw_version, "}", "}">>

-----------------------------------------------------------------------------
(***************************************************************************)
(* The cloud: what it sends, and what it takes from a report.              *)
(***************************************************************************)
update_firmware(url, fw_version, md5sum, file_size) ==
  <<"{", "file_size", ":", file_size, ",", "md5sum", ":", md5sum, ",",
    "type", ":", "update_firmware", ",", "url", ":", url, ",",
    "version", ":", fw_version, "}">>

report_version_rsp(result_code) ==
  <<"{", "type", ":", "report_version_rsp", ",",
    "result_code", ":", result_code, "}">>

Tells(doc, path) == {v.value : v \in {u \in Json(doc) : u.path = path}}

\* The version that a device says it runs, or has upgraded to.
SaysItRuns(doc) ==
  IF Tells(doc, <<"type">>) = {"report_version"}
  THEN Tells(doc, <<"report", "version">>) ELSE {}

SaysItBecame(doc) ==
  IF Tells(doc, <<"report", "progress", "state">>) = {"done"}
  THEN Tells(doc, <<"report", "version">>) ELSE {}
=============================================================================

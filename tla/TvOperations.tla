---------------------------- MODULE TvOperations ----------------------------
(***************************************************************************)
(* What each operation of CTv that a client can ask for does to the TV and *)
(* returns (src/libtv/CTv.cpp): the set of its outcomes.  tvservice_mutex  *)
(* makes each one step for the clients; what the poll thread sees of its   *)
(* steps is TvCore.                                                        *)
(*                                                                         *)
(* Numbers that code only passes on are strings here: "0" and "-1" are the *)
(* returns with a meaning, and ret 0 is also what a failed query leaves.   *)
(***************************************************************************)

CONSTANTS
    Sources,       \* the inputs clients name
    WorkModes,     \* of VDIN, VDIN_WORK_MODE_VFM included
    EdidVersions,  \* HDMI_EDID_VER_14 included
    EdidBlocks,    \* the blocks clients set
    Readings,      \* what the devices can answer to queries
    MayFail        \* the device calls that may fail

Hdmi == Sources \cap {"SOURCE_HDMI1", "SOURCE_HDMI2", "SOURCE_HDMI3", "SOURCE_HDMI4"}
Av   == Sources \cap {"SOURCE_AV1", "SOURCE_AV2"}

PLUG_OUT == "0"
PLUG_IN  == "1"

FrontendField == {"height", "width", "fps", "colordepth", "scan_mode"}
SignalField   == {"cfmt", "aspect_ratio"}

ASSUME ModesAssumption    == "VDIN_WORK_MODE_VFM" \in WorkModes
ASSUME VersionsAssumption == "HDMI_EDID_VER_14" \in EdidVersions
ASSUME BlocksAssumption   == "none" \notin EdidBlocks
\* Of TVIN_IOC_G_FRONTEND_INFO and TVIN_IOC_GET_COLOR_RANGE, of
\* mCurrentSignalInfo, and of the cable detection of the inputs.
ASSUME ReadingsAssumption ==
    \A r \in Readings :
        /\ FrontendField \cup SignalField \cup {"range", "cable"} \subseteq DOMAIN r
        /\ r.cable \in [Sources -> {PLUG_OUT, PLUG_IN}]

MaySucceedOrFail(call) == IF call \in MayFail THEN BOOLEAN ELSE {TRUE}

\* The outcome of an operation that changes the TV only if its device call ok
\* succeeds.
Outcome(ok, old, new) == [tv |-> IF ok THEN new ELSE old, ret |-> IF ok THEN "0" ELSE "-1"]

\* Of one that reads, or does nothing.
Answers(tv, values) == {[tv |-> tv, ret |-> v] : v \in values}

\* The first state of the TV: the port is closed.
Fresh(reading) ==
    [port |-> "NO_PORT", mVdinWorkMode |-> "VDIN_WORK_MODE_VFM",
     edidVersion |-> [s \in Hdmi |-> "HDMI_EDID_VER_14"],
     block |-> [s \in Sources |-> "none"], reading |-> reading]

TvState ==
    [port : Sources \cup {"NO_PORT"}, mVdinWorkMode : WorkModes,
     edidVersion : [Hdmi -> EdidVersions], block : [Sources -> EdidBlocks \cup {"none"}],
     reading : Readings]

StartTv(tv, source) ==
    {Outcome(ok, tv, [tv EXCEPT !.port = source]) : ok \in MaySucceedOrFail("open")}

\* Closes whatever port is open; a port that does not close is not reported.
StopTv(tv, source) ==
    {[tv  |-> [tv EXCEPT !.port = IF ok THEN "NO_PORT" ELSE tv.port,
                         !.mVdinWorkMode = "VDIN_WORK_MODE_VFM"],
      ret |-> "0"] : ok \in MaySucceedOrFail("close")}

SetVdinWorkMode(tv, mode) == {Outcome(TRUE, tv, [tv EXCEPT !.mVdinWorkMode = mode])}

GetEdidVersionOf(tv, source) ==
    IF source \in Hdmi THEN tv.edidVersion[source] ELSE "HDMI_EDID_VER_14"

GetEdidVersion(tv, source) == Answers(tv, {GetEdidVersionOf(tv, source)})

\* The version in force is not written again; an input that is not HDMI has the
\* versions of the others written.
SetEdidVersion(tv, source, version) ==
    IF GetEdidVersionOf(tv, source) = version THEN Answers(tv, {"0"})
    ELSE {Outcome(ok, tv, [tv EXCEPT !.edidVersion =
                              [s \in Hdmi |-> IF s = source THEN version ELSE tv.edidVersion[s]]])
             : ok \in MaySucceedOrFail("edid")}

SetEDIDData(tv, source, block) ==
    {Outcome(ok, tv, [tv EXCEPT !.block[source] = block]) : ok \in MaySucceedOrFail("edid")}

\* The block is not read: the caller gets 0 and a block of zeros.
GetEDIDData(tv, source) == Answers(tv, {"0"})

\* A failed ioctl leaves the zeroed structure.
GetFrontendInfo(tv, field) ==
    Answers(tv, {IF ok THEN tv.reading[field] ELSE "0" : ok \in MaySucceedOrFail("frontend")})

\* A failed ioctl leaves TVIN_COLOR_RANGE_AUTO, which is 0.
GetColorRangeMode(tv) ==
    Answers(tv, {IF ok THEN tv.reading.range ELSE "0" : ok \in MaySucceedOrFail("range")})

GetCurrentSourceInfo(tv, field) == Answers(tv, {tv.reading[field]})

\* A failed read is no cable of an HDMI input and leaves the channels and states
\* of the AV inputs uninitialised; the other inputs have no detection.
GetSourceConnectStatus(tv, source) ==
    Answers(tv,
        IF source \in Hdmi
        THEN {IF ok THEN tv.reading.cable[source] ELSE PLUG_OUT : ok \in MaySucceedOrFail("cable")}
        ELSE IF source \in Av
        THEN {tv.reading.cable[source]} \cup (IF "cable" \in MayFail THEN {PLUG_OUT, PLUG_IN, "-1"} ELSE {})
        ELSE {"-1"})

=============================================================================

------------------------------- MODULE TvCore -------------------------------
(***************************************************************************)
(* CTv (src/libtv/CTv.cpp) with the decoder half of CTvin (CTvin.cpp), the *)
(* video layer (CAmVideo.cpp, CVpp.cpp) and the audio patch               *)
(* (CTvAudio.cpp).                                                         *)
(*                                                                         *)
(* Two threads run this code with no lock between them:                    *)
(*   "cmd"   the binder thread that holds tvservice_mutex and executes one *)
(*           client command (StartTv, StopTv, SetEdidVersion) at a time;   *)
(*   "poll"  the thread of CTvDevicesPollDetect, which calls               *)
(*           onVdinSignalChange when epoll reports /dev/vdin0.             *)
(* A step of a thread is one access to state that the other thread or the  *)
(* vdin driver can also touch: an ioctl, a test or an assignment of a      *)
(* shared field.  Two places are coarser: the status and the fields that   *)
(* SetCurrenSourceInfo assigns after it are one assignment (the fields     *)
(* matter only next to a stable status, which comes with them), and        *)
(* the successive tests of the status in onSigStatusChange are one (the    *)
(* only write that can come between them is StopTv's NULL, which none of   *)
(* them matches).  The driver is external: it is modelled from how src/    *)
(* calls it.                                                               *)
(***************************************************************************)
EXTENDS Naturals, FiniteSets

CONSTANTS
    Sources,         \* the inputs clients start, a subset of SourceInput
    Signals,         \* the signals the driver can find on an open port
    ATVDisplaySnow,  \* the configured mATVDisplaySnow
    EdidVersions,    \* the versions clients set, HDMI_EDID_VER_14 included
    Commands,        \* the commands clients send
    MayFail          \* the driver calls that may return an error

Thread == {"cmd", "poll"}

\* tv_source_input_t; the analog inputs that no code tells apart from AV1
\* stand behind SOURCE_AV1.
HdmiSource  == {"SOURCE_HDMI1", "SOURCE_HDMI2", "SOURCE_HDMI3", "SOURCE_HDMI4"}
SourceInput == HdmiSource \cup {"SOURCE_TV", "SOURCE_AV1", "SOURCE_DTV", "SOURCE_MPEG"}

SigStatus == {"NULL", "NOSIG", "UNSTABLE", "NOTSUP", "STABLE"}
SigFmt    == {"FMT_NULL", "FMT_1", "FMT_2"}
SigInfo   == [fmt : SigFmt, status : SigStatus, hdr_info : 0..1, aspect_ratio : 0..1]

\* Fault: the reset value claims that there is no signal.
ResetToNoSig == [fmt |-> "FMT_NULL", status |-> "NOSIG", hdr_info |-> 0, aspect_ratio |-> 0]

\* What the constructor and StopTv put into mCurrentSignalInfo, and what the
\* driver knows of a port on which it has not confirmed a signal.
NullInfo  == [fmt |-> "FMT_NULL", status |-> "NULL", hdr_info |-> 0, aspect_ratio |-> 0]

\* The bits of event_sts that lead to code; OTHER stands for the bits whose
\* case does nothing (colour format, range, bit depth, VS_FRQ, ALLM).
EventFlag == {"STS", "HDR", "AFD", "OTHER"}

CommandName == {"StartTv", "StopTv", "SetEdidVersion"}
DriverCall  == {"open", "close", "start", "stop", "event", "info", "edid", "audio"}

ASSUME SourcesAssumption == Sources \subseteq SourceInput
ASSUME SignalsAssumption == Signals \subseteq {s \in SigInfo : s.status # "NULL"}
ASSUME SnowAssumption    == ATVDisplaySnow \in BOOLEAN
ASSUME EdidAssumption    == "HDMI_EDID_VER_14" \in EdidVersions
ASSUME CommandAssumption == Commands \subseteq CommandName
ASSUME FailAssumption    == MayFail \subseteq DriverCall

VARIABLES
    \* control of the two threads
    pc,                  \* the next step of each thread
    command,             \* the command being executed: name, source, version
    handler,             \* what the poll thread does with the event it read
    tempSignalInfo,      \* the poll thread's copy of G_SIG_INFO
    event,               \* SignalDetectEvent being filled by the poll thread
    \* members of CTv and CTvin
    mCurrentSource, mCurrentSignalInfo, mDecoderStarted, mLastScreenMode,
    edidVersion,         \* Hdmi<n>CurrentEdidVer
    \* the vdin driver
    port, signal, sigFlags, wake, decoding,
    \* other devices the commands and the handlers write
    display,             \* video layer, output, colour, screen mode, snow, the three
                         \* sysfs files of A/V sync
    audioPatch,          \* the state of CTvAudio::patch_handle
    rxEdidVersion,       \* per input, the version the HDMI receiver serves
    \* history, read by the properties only
    overlapped,          \* Start/StopDecoder were once entered by both threads
    stopFailed,          \* a STOP_DEC failed since the last good START_DEC
    halted,              \* the flag was last assigned by a failed START_DEC, or
                         \* by SetEdidVersion since the last good one
    quietStop,           \* no handler ran during the last StopTv; no StartTv since
    lost                 \* changes the server was told of and has not recorded

threadVars  == <<pc, command, handler, tempSignalInfo, event>>
tvVars      == <<mCurrentSource, mCurrentSignalInfo, mLastScreenMode>>
driverVars  == <<port, signal, sigFlags, wake>>
decoderVars == <<mDecoderStarted, decoding, overlapped, stopFailed, halted>>
edidVars    == <<edidVersion, rxEdidVersion>>
deviceVars  == <<display, audioPatch>>

vars == <<threadVars, tvVars, driverVars, decoderVars, edidVars, deviceVars,
          quietStop, lost>>

-----------------------------------------------------------------------------

NoPort     == "NO_PORT"
NoCommand  == [name |-> "none", source |-> "SOURCE_INVALID", version |-> "HDMI_EDID_VER_14"]
NoEvent    == [source |-> "SOURCE_INVALID", fmt |-> "FMT_NULL", status |-> "NULL"]
AnySource  == SourceInput \cup {"SOURCE_INVALID"}
EdidInputs == Sources \cap HdmiSource

MaySucceedOrFail(call) == IF call \in MayFail THEN BOOLEAN ELSE {TRUE}

At(t, label) == pc[t] = label
Goto(t, label) == pc' = [pc EXCEPT ![t] = label]

\* Where a thread is inside Tvin_StartDecoder or Tvin_StopDecoder, past the
\* test of mDecoderStarted.
InDecoderCall(t) == pc[t] \in {"startIoctl", "startedFlag", "startFailedFlag",
                               "stopIoctl", "stoppedFlag"}
Other(t) == IF t = "cmd" THEN "poll" ELSE "cmd"

Init ==
    /\ pc = [t \in Thread |-> "idle"]
    /\ command = NoCommand
    /\ handler = "none"
    /\ tempSignalInfo = NullInfo
    /\ event = NoEvent
    \* The constructor never assigns mCurrentSource.
    /\ mCurrentSource \in Sources \cup {"SOURCE_INVALID"}
    /\ mCurrentSignalInfo = NullInfo
    /\ mDecoderStarted = FALSE
    /\ mLastScreenMode = "unset"
    /\ edidVersion = [h \in EdidInputs |-> "HDMI_EDID_VER_14"]
    /\ rxEdidVersion = [h \in EdidInputs |-> "HDMI_EDID_VER_14"]
    /\ port = NoPort
    /\ signal = NullInfo
    /\ sigFlags = {}
    /\ wake = FALSE
    /\ decoding = FALSE
    /\ display = [layer |-> FALSE, output |-> FALSE, color |-> "none",
                  screenMode |-> "user", snow |-> FALSE,
                  tsyncEnable |-> "boot", tsyncMode |-> "boot", freerunMode |-> "boot"]
    \* CTvAudio never initialises patch_handle.
    /\ audioPatch \in {"null", "garbage"}
    /\ overlapped = FALSE
    /\ stopFailed = FALSE
    /\ halted = FALSE
    /\ quietStop = FALSE
    /\ lost = {}

-----------------------------------------------------------------------------
(***************************************************************************)
(* Tvin_StartDecoder and Tvin_StopDecoder, entered by both threads.  Each  *)
(* tests mDecoderStarted, calls the driver and then assigns the flag.      *)
(***************************************************************************)

\* Fault: StopTv does not close the port.
AfterStopNoClose(t) ==
    IF t = "cmd"
    THEN IF command.name = "StopTv" THEN "clearSource" ELSE "edidSwitch"
    ELSE IF handler = "toUnstable" THEN "idle" ELSE "eventSource"

\* Fault: nothing is sent for a signal that is not supported.
UnSupportIsSilent(t) ==
    IF t = "cmd"
    THEN IF command.name = "StopTv" THEN "closePort" ELSE "edidSwitch"
    ELSE IF handler \in {"toUnstable", "toUnSupport"} THEN "idle" ELSE "eventSource"

\* Where a thread continues when Tvin_StopDecoder returns.
AfterStopDecoder(t) ==
    IF t = "cmd"
    THEN IF command.name = "StopTv" THEN "closePort" ELSE "edidSwitch"
    ELSE IF handler = "toUnstable" THEN "idle" ELSE "eventSource"

StopDecoderTest(t) ==
    /\ At(t, "stopTest")
    /\ IF mDecoderStarted
       THEN Goto(t, "stopIoctl") /\ overlapped' = (overlapped \/ InDecoderCall(Other(t)))
       ELSE Goto(t, AfterStopDecoder(t)) /\ UNCHANGED overlapped
    /\ UNCHANGED <<command, handler, tempSignalInfo, event, tvVars, driverVars, mDecoderStarted,
                   decoding, stopFailed, halted, edidVars, deviceVars, quietStop, lost>>

\* TVIN_IOC_STOP_DEC
StopDecoderIoctl(t) ==
    /\ At(t, "stopIoctl")
    /\ \E ok \in MaySucceedOrFail("stop") :
          /\ decoding' = (decoding /\ ~ok)
          /\ stopFailed' = ~ok
    /\ Goto(t, "stoppedFlag")
    /\ UNCHANGED <<command, handler, tempSignalInfo, event, tvVars, driverVars, mDecoderStarted,
                   overlapped, halted, edidVars, deviceVars, quietStop, lost>>

\* Fault: the flag is not cleared.
StopDecoderKeepsFlag(t) ==
    /\ At(t, "stoppedFlag")
    /\ halted' = (halted \/ (t = "cmd" /\ command.name = "SetEdidVersion"))
    /\ Goto(t, AfterStopDecoder(t))
    /\ UNCHANGED <<command, handler, tempSignalInfo, event, tvVars, driverVars, mDecoderStarted,
                   decoding, overlapped, stopFailed, edidVars, deviceVars, quietStop, lost>>

\* The flag is cleared whether the ioctl succeeded or not.
StopDecoderFlag(t) ==
    /\ At(t, "stoppedFlag")
    /\ mDecoderStarted' = FALSE
    /\ halted' = (halted \/ (t = "cmd" /\ command.name = "SetEdidVersion"))
    /\ Goto(t, AfterStopDecoder(t))
    /\ UNCHANGED <<command, handler, tempSignalInfo, event, tvVars, driverVars, decoding,
                   overlapped, stopFailed, edidVars, deviceVars, quietStop, lost>>

\* Only the poll thread starts the decoder (onSigToStable, onSigToNoSig).
StartDecoderTest ==
    /\ At("poll", "startTest")
    /\ IF mDecoderStarted
       THEN Goto("poll", "layerOn") /\ UNCHANGED overlapped
       ELSE Goto("poll", "startIoctl") /\ overlapped' = (overlapped \/ InDecoderCall("cmd"))
    /\ UNCHANGED <<command, handler, tempSignalInfo, event, tvVars, driverVars, mDecoderStarted,
                   decoding, stopFailed, halted, edidVars, deviceVars, quietStop, lost>>

\* TVIN_IOC_START_DEC; a driver that is already decoding keeps on decoding.
StartDecoderIoctl ==
    /\ At("poll", "startIoctl")
    /\ \E ok \in MaySucceedOrFail("start") :
          /\ decoding' = (decoding \/ ok)
          /\ stopFailed' = (stopFailed /\ ~ok)
          /\ Goto("poll", IF ok THEN "startedFlag" ELSE "startFailedFlag")
    /\ UNCHANGED <<command, handler, tempSignalInfo, event, tvVars, driverVars, mDecoderStarted,
                   overlapped, halted, edidVars, deviceVars, quietStop, lost>>

StartDecoderFlag ==
    /\ pc["poll"] \in {"startedFlag", "startFailedFlag"}
    /\ mDecoderStarted' = At("poll", "startedFlag")
    /\ halted' = At("poll", "startFailedFlag")
    /\ Goto("poll", "layerOn")
    /\ UNCHANGED <<command, handler, tempSignalInfo, event, tvVars, driverVars, decoding,
                   overlapped, stopFailed, edidVars, deviceVars, quietStop, lost>>

-----------------------------------------------------------------------------
(***************************************************************************)
(* The commands of ParserTvCommand that change state, under                *)
(* tvservice_mutex: the next command starts when the last has returned.    *)
(***************************************************************************)

\* StartTv up to OpenPort: blue screen for DTV, and 0 into freerun_mode ("do
\* A/V sync"); 0 into tsync's enable and mode for the other inputs.  Nothing
\* reads the three files.
StartTvBegin(source) ==
    /\ "StartTv" \in Commands
    /\ At("cmd", "idle")
    /\ Goto("cmd", "openPort")
    /\ command' = [NoCommand EXCEPT !.name = "StartTv", !.source = source]
    /\ display' = IF source = "SOURCE_DTV"
                  THEN [display EXCEPT !.color = "blue", !.freerunMode = "0"]
                  ELSE [display EXCEPT !.tsyncEnable = "0", !.tsyncMode = "0"]
    /\ quietStop' = FALSE
    /\ UNCHANGED <<handler, tempSignalInfo, event, tvVars, driverVars, decoderVars, edidVars,
                   audioPatch, lost>>

\* TVIN_IOC_OPEN: the driver forgets the signal of the port it served.
StartTvOpenPort ==
    /\ At("cmd", "openPort")
    /\ \E ok \in MaySucceedOrFail("open") :
          /\ port' = IF ok THEN command.source ELSE port
          /\ signal' = IF ok THEN NullInfo ELSE signal
    /\ Goto("cmd", "setSource")
    /\ UNCHANGED <<command, handler, tempSignalInfo, event, tvVars, sigFlags, wake, decoderVars,
                   edidVars, deviceVars, quietStop, lost>>

\* mCurrentSource is assigned whether OpenPort succeeded or not; MPEG returns
\* before the audio patch is created.
StartTvSetSource ==
    /\ At("cmd", "setSource")
    /\ mCurrentSource' = command.source
    /\ \E ok \in MaySucceedOrFail("audio") :
          audioPatch' = IF command.source # "SOURCE_MPEG" /\ ok THEN "live" ELSE audioPatch
    /\ Goto("cmd", "idle")
    /\ command' = NoCommand
    /\ UNCHANGED <<handler, tempSignalInfo, event, mCurrentSignalInfo, mLastScreenMode,
                   driverVars, decoderVars, edidVars, display, quietStop, lost>>

\* StopTv: release the patch (the handle is not cleared), disable the layer.
\* The source named by the client is not looked at.
StopTvBegin ==
    /\ "StopTv" \in Commands
    /\ At("cmd", "idle")
    /\ command' = [NoCommand EXCEPT !.name = "StopTv"]
    /\ \E ok \in MaySucceedOrFail("audio") :
          audioPatch' = IF audioPatch = "live" /\ ok THEN "released" ELSE audioPatch
    /\ display' = [display EXCEPT !.layer = FALSE]
    /\ Goto("cmd", "outputOff")
    /\ quietStop' = At("poll", "idle")
    /\ UNCHANGED <<handler, tempSignalInfo, event, tvVars, driverVars, decoderVars, edidVars,
                   lost>>

StopTvOutputOff ==
    /\ At("cmd", "outputOff")
    /\ display' = [display EXCEPT !.output = FALSE]
    /\ Goto("cmd", "stopTest")
    /\ UNCHANGED <<command, handler, tempSignalInfo, event, tvVars, driverVars, decoderVars,
                   edidVars, audioPatch, quietStop, lost>>

\* TVIN_IOC_CLOSE
StopTvClosePort ==
    /\ At("cmd", "closePort")
    /\ \E ok \in MaySucceedOrFail("close") :
          /\ port' = IF ok THEN NoPort ELSE port
          /\ signal' = IF ok THEN NullInfo ELSE signal
          /\ quietStop' = (quietStop /\ ok)
    /\ Goto("cmd", "clearSource")
    /\ UNCHANGED <<command, handler, tempSignalInfo, event, tvVars, sigFlags, wake, decoderVars,
                   edidVars, deviceVars, lost>>

StopTvClearSource ==
    /\ At("cmd", "clearSource")
    /\ mCurrentSource' = "SOURCE_INVALID"
    /\ Goto("cmd", "resetFmt")
    /\ UNCHANGED <<command, handler, tempSignalInfo, event, mCurrentSignalInfo, mLastScreenMode,
                   driverVars, decoderVars, edidVars, deviceVars, quietStop, lost>>

\* SetCurrenSourceInfo assigns the format before the status.
StopTvResetFmt ==
    /\ At("cmd", "resetFmt")
    /\ mCurrentSignalInfo' = [mCurrentSignalInfo EXCEPT !.fmt = NullInfo.fmt]
    /\ Goto("cmd", "resetStatus")
    /\ UNCHANGED <<command, handler, tempSignalInfo, event, mCurrentSource, mLastScreenMode,
                   driverVars, decoderVars, edidVars, deviceVars, quietStop, lost>>

StopTvResetStatus ==
    /\ At("cmd", "resetStatus")
    /\ mCurrentSignalInfo' = [NullInfo EXCEPT !.fmt = mCurrentSignalInfo.fmt]
    /\ lost' = IF port = NoPort THEN lost ELSE lost \cup {"STS"}
    /\ Goto("cmd", "idle")
    /\ command' = NoCommand
    /\ UNCHANGED <<handler, tempSignalInfo, event, mCurrentSource, mLastScreenMode, driverVars,
                   decoderVars, edidVars, deviceVars, quietStop>>

GetEdidVersion(source) ==
    IF source \in EdidInputs THEN edidVersion[source] ELSE "HDMI_EDID_VER_14"

\* SetEdidVersion stops the decoder, whatever source is playing; asking for
\* the version in force changes nothing.
SetEdidVersionBegin(source, version) ==
    /\ "SetEdidVersion" \in Commands
    /\ At("cmd", "idle")
    /\ GetEdidVersion(source) # version
    /\ command' = [name |-> "SetEdidVersion", source |-> source, version |-> version]
    /\ Goto("cmd", "stopTest")
    /\ UNCHANGED <<handler, tempSignalInfo, event, tvVars, driverVars, decoderVars, edidVars,
                   deviceVars, quietStop, lost>>

\* HdmiRxEdidVerSwitch writes the versions of every input; a failed write
\* leaves the server's version as it was.  (The HPD pulse that follows for the
\* current source is a change of the signal: SignalChange.)
SetEdidVersionSwitch ==
    /\ At("cmd", "edidSwitch")
    /\ LET switched == [h \in EdidInputs |->
                           IF h = command.source THEN command.version ELSE edidVersion[h]]
       IN  \E ok \in MaySucceedOrFail("edid") :
              /\ rxEdidVersion' = IF ok THEN switched ELSE rxEdidVersion
              /\ edidVersion' = IF ok THEN switched ELSE edidVersion
    /\ Goto("cmd", "idle")
    /\ command' = NoCommand
    /\ UNCHANGED <<handler, tempSignalInfo, event, tvVars, driverVars, decoderVars, deviceVars,
                   quietStop, lost>>

CommandStep ==
    \/ StartTvOpenPort \/ StartTvSetSource
    \/ StopTvOutputOff \/ StopTvClosePort \/ StopTvClearSource
    \/ StopTvResetFmt \/ StopTvResetStatus
    \/ SetEdidVersionSwitch
    \/ StopDecoderTest("cmd") \/ StopDecoderIoctl("cmd") \/ StopDecoderFlag("cmd")

CommandBegin ==
    \/ \E source \in Sources : StartTvBegin(source)
    \/ StopTvBegin
    \/ \E source \in Sources, version \in EdidVersions : SetEdidVersionBegin(source, version)

-----------------------------------------------------------------------------
(***************************************************************************)
(* The poll thread in onVdinSignalChange.                                  *)
(***************************************************************************)

\* epoll_wait returns for /dev/vdin0.  The registration is edge triggered:
\* the wake-up is consumed whatever the handler then does.
PollWake ==
    /\ At("poll", "idle")
    /\ wake
    /\ wake' = FALSE
    /\ Goto("poll", "getEvent")
    /\ quietStop' = (quietStop /\ command.name # "StopTv")
    /\ UNCHANGED <<command, handler, tempSignalInfo, event, tvVars, port, signal, sigFlags,
                   decoderVars, edidVars, deviceVars, lost>>

\* Fault: the bits without a handler get one.
EveryBitHandled ==
    CASE sigFlags = {"STS"} -> "status"
      [] sigFlags = {"HDR"} -> "hdr"
      [] sigFlags = {"AFD"} -> "afd"
      [] OTHER -> "other"

\* The switch compares event_sts with single bits: any combination of bits
\* reaches the default case and is dropped.
EventHandler ==
    CASE sigFlags = {"STS"} -> "status"
      [] sigFlags = {"HDR"} -> "hdr"
      [] sigFlags = {"AFD"} -> "afd"
      [] OTHER -> "none"

\* TVIN_IOC_G_EVENT_INFO returns the pending bits and clears them.
GetSignalEventInfo ==
    /\ At("poll", "getEvent")
    /\ \E ok \in MaySucceedOrFail("event") :
          /\ handler' = IF ok THEN EventHandler ELSE "none"
          /\ sigFlags' = IF ok THEN {} ELSE sigFlags
          /\ lost' = IF ok /\ handler' = "none" THEN lost \cup (sigFlags \ {"OTHER"}) ELSE lost
    /\ Goto("poll", CASE handler' = "none" -> "idle"
                      [] handler' = "afd"  -> "readSource"
                      [] OTHER -> "getInfo")
    /\ UNCHANGED <<command, tempSignalInfo, event, tvVars, port, signal, wake, decoderVars,
                   edidVars, deviceVars, quietStop>>

\* The type of mCurrentSource is read when the ioctl has returned; of the cases
\* that do something, only AFD's depends on it.
ReadSourceType ==
    /\ At("poll", "readSource")
    /\ IF mCurrentSource \in HdmiSource
       THEN Goto("poll", "getInfo") /\ UNCHANGED <<handler, lost>>
       ELSE Goto("poll", "idle") /\ handler' = "none" /\ lost' = lost \cup {"AFD"}
    /\ UNCHANGED <<command, tempSignalInfo, event, tvVars, driverVars, decoderVars, edidVars,
                   deviceVars, quietStop>>

\* The bit a handler was chosen by.
FlagOf(h) == CASE h = "hdr" -> "HDR" [] h = "afd" -> "AFD" [] OTHER -> "STS"

\* TVIN_IOC_G_SIG_INFO; on failure the handler gives up.
GetSignalInfo ==
    /\ At("poll", "getInfo")
    /\ \E ok \in MaySucceedOrFail("info") :
          /\ tempSignalInfo' = IF ok THEN signal ELSE tempSignalInfo
          /\ lost' = CASE ~ok -> lost \cup {FlagOf(handler)}
                       [] ok /\ handler = "status" -> {}
                       [] OTHER -> lost
          /\ IF ok
             THEN Goto("poll", IF handler = "status" THEN "setFmt" ELSE "checkStatus")
                  /\ UNCHANGED handler
             ELSE Goto("poll", "idle") /\ handler' = "none"
    /\ UNCHANGED <<command, event, tvVars, driverVars, decoderVars, edidVars, deviceVars,
                   quietStop>>

HandlerReturns ==
    /\ Goto("poll", "idle")
    /\ handler' = "none"
    /\ tempSignalInfo' = NullInfo

\* The HDR case tests the recorded status, the AFD case the one just read, ...
CheckStatus ==
    /\ At("poll", "checkStatus")
    /\ LET status == IF handler = "hdr" THEN mCurrentSignalInfo.status ELSE tempSignalInfo.status
       IN  IF status = "STABLE"
           THEN Goto("poll", "compareField") /\ UNCHANGED <<handler, tempSignalInfo>>
           ELSE HandlerReturns
    /\ UNCHANGED <<command, event, tvVars, driverVars, decoderVars, edidVars,
                   deviceVars, quietStop, lost>>

\* ... then both compare their field with the record and, where it differs,
\* assign it.
CompareField ==
    /\ At("poll", "compareField")
    /\ LET differs == IF handler = "hdr"
                      THEN mCurrentSignalInfo.hdr_info # tempSignalInfo.hdr_info
                      ELSE mCurrentSignalInfo.aspect_ratio # tempSignalInfo.aspect_ratio
       IN  IF differs
           THEN Goto("poll", "setField") /\ UNCHANGED <<handler, tempSignalInfo>>
           ELSE HandlerReturns
    /\ UNCHANGED <<command, event, tvVars, driverVars, decoderVars, edidVars,
                   deviceVars, quietStop, lost>>

SetField ==
    /\ At("poll", "setField")
    /\ mCurrentSignalInfo' =
          IF handler = "hdr"
          THEN [mCurrentSignalInfo EXCEPT !.hdr_info = tempSignalInfo.hdr_info]
          ELSE [mCurrentSignalInfo EXCEPT !.aspect_ratio = tempSignalInfo.aspect_ratio]
    /\ HandlerReturns
    /\ UNCHANGED <<command, event, mCurrentSource, mLastScreenMode, driverVars, decoderVars,
                   edidVars, deviceVars, quietStop, lost>>

\* onSigStatusChange: SetCurrenSourceInfo, the format first.
SetInfoFmt ==
    /\ At("poll", "setFmt")
    /\ mCurrentSignalInfo' = [mCurrentSignalInfo EXCEPT !.fmt = tempSignalInfo.fmt]
    /\ Goto("poll", "setStatus")
    /\ UNCHANGED <<command, handler, tempSignalInfo, event, mCurrentSource, mLastScreenMode,
                   driverVars, decoderVars, edidVars, deviceVars, quietStop, lost>>

\* Fault: the status is not recorded.
StatusForgotten ==
    /\ At("poll", "setStatus")
    /\ mCurrentSignalInfo' = [tempSignalInfo EXCEPT !.fmt = mCurrentSignalInfo.fmt,
                                                    !.status = mCurrentSignalInfo.status]
    /\ tempSignalInfo' = NullInfo
    /\ Goto("poll", "dispatch")
    /\ UNCHANGED <<command, handler, event, mCurrentSource, mLastScreenMode,
                   driverVars, decoderVars, edidVars, deviceVars, quietStop, lost>>

SetInfoStatus ==
    /\ At("poll", "setStatus")
    /\ mCurrentSignalInfo' = [tempSignalInfo EXCEPT !.fmt = mCurrentSignalInfo.fmt]
    /\ tempSignalInfo' = NullInfo
    /\ Goto("poll", "dispatch")
    /\ UNCHANGED <<command, handler, event, mCurrentSource, mLastScreenMode,
                   driverVars, decoderVars, edidVars, deviceVars, quietStop, lost>>

\* onSigStatusChange: the handler is chosen by the status as it is now in
\* mCurrentSignalInfo, not by the one that was read.
Dispatch ==
    /\ At("poll", "dispatch")
    /\ LET h == CASE mCurrentSignalInfo.status = "STABLE"   -> "toStable"
                  [] mCurrentSignalInfo.status = "UNSTABLE" -> "toUnstable"
                  [] mCurrentSignalInfo.status = "NOTSUP"   -> "toUnSupport"
                  [] mCurrentSignalInfo.status = "NOSIG"    -> "toNoSig"
                  [] OTHER -> "none"
       IN  /\ handler' = h
           /\ Goto("poll", CASE h = "toStable" -> "startTest"
                             [] h \in {"toUnstable", "toUnSupport"} -> "stopTest"
                             [] h = "toNoSig" -> "needSnow"
                             [] OTHER -> "idle")
    /\ UNCHANGED <<command, tempSignalInfo, event, tvVars, driverVars, decoderVars, edidVars,
                   deviceVars, quietStop, lost>>

\* onSigToNoSig reads the source when it has been chosen: "toSnow" is its branch
\* for a tuner that shows snow.
needSnowEffect ==
    /\ At("poll", "needSnow")
    /\ IF mCurrentSource = "SOURCE_TV" /\ ATVDisplaySnow
       THEN Goto("poll", "snowOn") /\ handler' = "toSnow"
       ELSE Goto("poll", "colorOff") /\ UNCHANGED handler
    /\ UNCHANGED <<command, tempSignalInfo, event, tvVars, driverVars, decoderVars, edidVars,
                   deviceVars, quietStop, lost>>

\* SetSnowShowEnable(true): remember the screen mode, show full screen, snow.
SetSnowShowEnable ==
    /\ At("poll", "snowOn")
    /\ mLastScreenMode' = display.screenMode
    /\ display' = [display EXCEPT !.screenMode = "full", !.snow = TRUE]
    /\ Goto("poll", "startTest")
    /\ UNCHANGED <<command, handler, tempSignalInfo, event, mCurrentSource, mCurrentSignalInfo,
                   driverVars, decoderVars, edidVars, audioPatch, quietStop, lost>>

LayerOn ==
    /\ At("poll", "layerOn")
    /\ display' = [display EXCEPT !.layer = TRUE]
    /\ Goto("poll", IF handler = "toStable" THEN "outputOn" ELSE "colorOff")
    /\ UNCHANGED <<command, handler, tempSignalInfo, event, tvVars, driverVars, decoderVars,
                   edidVars, audioPatch, quietStop, lost>>

OutputOn ==
    /\ At("poll", "outputOn")
    /\ display' = [display EXCEPT !.output = TRUE]
    /\ Goto("poll", "eventSource")
    /\ UNCHANGED <<command, handler, tempSignalInfo, event, tvVars, driverVars, decoderVars,
                   edidVars, audioPatch, quietStop, lost>>

\* VPP_setVideoColor(false), in both branches of onSigToNoSig.
ColorOff ==
    /\ At("poll", "colorOff")
    /\ display' = [display EXCEPT !.color = "off"]
    /\ Goto("poll", IF handler = "toSnow" THEN "eventSource" ELSE "stopTest")
    /\ UNCHANGED <<command, handler, tempSignalInfo, event, tvVars, driverVars, decoderVars,
                   edidVars, audioPatch, quietStop, lost>>

\* The event's fields are read from the members one after the other.
EventSource ==
    /\ At("poll", "eventSource")
    /\ event' = [event EXCEPT !.source = mCurrentSource]
    /\ Goto("poll", "eventFmt")
    /\ UNCHANGED <<command, handler, tempSignalInfo, tvVars, driverVars, decoderVars, edidVars,
                   deviceVars, quietStop, lost>>

EventFmt ==
    /\ At("poll", "eventFmt")
    /\ event' = [event EXCEPT !.fmt = mCurrentSignalInfo.fmt]
    /\ Goto("poll", "eventStatus")
    /\ UNCHANGED <<command, handler, tempSignalInfo, tvVars, driverVars, decoderVars, edidVars,
                   deviceVars, quietStop, lost>>

EventStatus ==
    /\ At("poll", "eventStatus")
    /\ event' = [event EXCEPT !.status = mCurrentSignalInfo.status]
    /\ Goto("poll", "sendEvent")
    /\ UNCHANGED <<command, handler, tempSignalInfo, tvVars, driverVars, decoderVars, edidVars,
                   deviceVars, quietStop, lost>>

\* sendTvEvent hands the event to the observer, which returns when the clients
\* have been called.
SendTvEvent ==
    /\ At("poll", "sendEvent")
    /\ event' = NoEvent
    /\ HandlerReturns
    /\ UNCHANGED <<command, tvVars, driverVars, decoderVars, edidVars, deviceVars, quietStop, lost>>

PollStep ==
    \/ PollWake \/ GetSignalEventInfo \/ ReadSourceType \/ GetSignalInfo
    \/ CheckStatus \/ CompareField \/ SetField
    \/ SetInfoFmt \/ SetInfoStatus \/ Dispatch \/ needSnowEffect
    \/ SetSnowShowEnable \/ LayerOn \/ OutputOn \/ ColorOff
    \/ StartDecoderTest \/ StartDecoderIoctl \/ StartDecoderFlag
    \/ StopDecoderTest("poll") \/ StopDecoderIoctl("poll") \/ StopDecoderFlag("poll")
    \/ EventSource \/ EventFmt \/ EventStatus \/ SendTvEvent

-----------------------------------------------------------------------------
(***************************************************************************)
(* The vdin driver.  A change of status or format raises STS; with the     *)
(* status unchanged, a change of the HDR state or of the aspect ratio      *)
(* raises its own bit.  Bits collect until G_EVENT_INFO reads them.        *)
(***************************************************************************)

SignalChange(s) ==
    /\ port # NoPort
    /\ s # signal
    /\ signal' = s
    /\ sigFlags' = sigFlags \cup
          (IF s.status # signal.status \/ s.fmt # signal.fmt THEN {"STS"}
           ELSE (IF s.hdr_info # signal.hdr_info THEN {"HDR"} ELSE {})
                  \cup (IF s.aspect_ratio # signal.aspect_ratio THEN {"AFD"} ELSE {}))
    /\ wake' = TRUE
    /\ UNCHANGED <<threadVars, tvVars, port, decoderVars, edidVars, deviceVars,
                   quietStop, lost>>

OtherChange ==
    /\ port # NoPort
    /\ "OTHER" \notin sigFlags
    /\ sigFlags' = sigFlags \cup {"OTHER"}
    /\ wake' = TRUE
    /\ UNCHANGED <<threadVars, tvVars, port, signal, decoderVars, edidVars, deviceVars,
                   quietStop, lost>>

Driver == OtherChange \/ \E s \in Signals : SignalChange(s)

Next == CommandBegin \/ CommandStep \/ PollStep \/ Driver

\* A command that holds tvservice_mutex runs to its end, and the poll thread
\* runs: neither waits for anything but the driver and, in sendTvEvent, for
\* clients whose callbacks return (TvClientCalls says which do).
Fairness == WF_vars(CommandStep) /\ WF_vars(PollStep)

Spec == Init /\ [][Next]_vars

FairSpec == Spec /\ Fairness

-----------------------------------------------------------------------------

Label ==
    {"idle", "openPort", "setSource", "outputOff", "closePort", "clearSource", "resetFmt",
     "resetStatus", "edidSwitch", "stopTest", "stopIoctl", "stoppedFlag", "startTest",
     "startIoctl", "startedFlag", "startFailedFlag", "getEvent", "readSource", "getInfo",
     "checkStatus", "compareField", "setField", "setFmt", "setStatus", "dispatch", "needSnow",
     "snowOn", "layerOn", "outputOn", "colorOff", "eventSource", "eventFmt", "eventStatus",
     "sendEvent"}

Handler == {"none", "status", "hdr", "afd", "toStable", "toUnstable", "toUnSupport",
            "toSnow", "toNoSig"}

Command == [name : CommandName \cup {"none"}, source : AnySource, version : EdidVersions]

SignalEvent == [source : AnySource, fmt : SigFmt, status : SigStatus]

Display == [layer : BOOLEAN, output : BOOLEAN, color : {"none", "blue", "off"},
            screenMode : {"user", "full"}, snow : BOOLEAN, tsyncEnable : {"boot", "0"},
            tsyncMode : {"boot", "0"}, freerunMode : {"boot", "0"}]

PcTypeOK == pc \in [Thread -> Label]

LocalTypeOK ==
    /\ command \in Command
    /\ handler \in Handler
    /\ tempSignalInfo \in SigInfo
    /\ event \in SignalEvent

TvTypeOK ==
    /\ mCurrentSource \in AnySource
    /\ mCurrentSignalInfo \in SigInfo
    /\ mLastScreenMode \in {"unset", "user", "full"}

DriverTypeOK ==
    /\ port \in AnySource \cup {NoPort}
    /\ signal \in SigInfo
    /\ sigFlags \subseteq EventFlag
    /\ wake \in BOOLEAN

DecoderTypeOK ==
    /\ mDecoderStarted \in BOOLEAN
    /\ decoding \in BOOLEAN
    /\ overlapped \in BOOLEAN
    /\ stopFailed \in BOOLEAN
    /\ halted \in BOOLEAN

EdidTypeOK ==
    /\ edidVersion \in [EdidInputs -> EdidVersions]
    /\ rxEdidVersion \in [EdidInputs -> EdidVersions]

DeviceTypeOK ==
    /\ display \in Display
    /\ audioPatch \in {"null", "garbage", "live", "released"}

HistoryTypeOK ==
    /\ quietStop \in BOOLEAN
    /\ lost \subseteq EventFlag

\* Every variable has its type: the threads are at a step of the code, and the
\* members, the driver and the devices hold values of their C types.
TypeOK ==
    /\ PcTypeOK /\ LocalTypeOK /\ TvTypeOK /\ DriverTypeOK
    /\ DecoderTypeOK /\ EdidTypeOK /\ DeviceTypeOK /\ HistoryTypeOK

Idle == pc["cmd"] = "idle" /\ pc["poll"] = "idle"

\* Nothing is running and no change of the open port waits to be read.
Settled == Idle /\ port # NoPort /\ signal.status # "NULL" /\ sigFlags \subseteq {"OTHER"}

\* mDecoderStarted is what keeps START_DEC and STOP_DEC paired; it is tested
\* and assigned around the ioctl without a lock.  When no thread is inside
\* such a call it tells the truth, unless two calls overlapped or a STOP_DEC
\* failed (after which the flag says "stopped" all the same).
DecoderFlagTruth ==
    (~InDecoderCall("cmd") /\ ~InDecoderCall("poll") /\ ~overlapped /\ ~stopFailed)
        => mDecoderStarted = decoding

\* After a StopTv during which the poll thread handled no event, the port is
\* closed, the picture is off, nothing is decoding and the recorded signal is
\* the reset one, and events that arrive late change none of it.
StoppedClean ==
    (pc["cmd"] = "idle" /\ quietStop)
        => /\ port = NoPort
           /\ mCurrentSource = "SOURCE_INVALID"
           /\ mCurrentSignalInfo = NullInfo
           /\ ~display.layer /\ ~display.output
           /\ ~mDecoderStarted
           /\ decoding => (overlapped \/ stopFailed)
           /\ audioPatch = "live" => "audio" \in MayFail

\* Once everything has settled the server's view is the driver's, unless the
\* code dropped a change: a status change read together with another bit, an
\* ioctl that failed, or a StopTv that reset the view of a port that did not
\* close.
ViewAgrees ==
    (Settled /\ "STS" \notin lost)
        => /\ mCurrentSignalInfo.status = signal.status
           /\ mCurrentSignalInfo.fmt = signal.fmt
           /\ (signal.status = "STABLE" /\ "HDR" \notin lost)
                  => mCurrentSignalInfo.hdr_info = signal.hdr_info
           /\ (signal.status = "STABLE" /\ "AFD" \notin lost)
                  => mCurrentSignalInfo.aspect_ratio = signal.aspect_ratio

\* ... and the picture follows the signal: a stable signal is shown, and an
\* unstable, unsupported or absent one is not decoded (but for the snow of
\* the analog tuner).  A stable signal is decoded, unless the last START_DEC
\* failed or SetEdidVersion, which stops the decoder of any input, came after
\* it: then the picture is on and nothing is decoded until the signal changes.
DisplayFollowsSignal ==
    (Settled /\ "STS" \notin lost)
        => /\ signal.status = "STABLE" => display.layer /\ display.output
           /\ (signal.status = "STABLE" /\ ~halted) => mDecoderStarted
           /\ signal.status \in {"UNSTABLE", "NOTSUP"} => ~mDecoderStarted
           /\ (signal.status = "NOSIG" /\ mDecoderStarted) => display.snow

\* A client is never told a status other than the one the handler that sends
\* the event was chosen for, except NULL, which a StopTv leaves there when it
\* resets the fields in the middle of the handler.
StatusOf == [toStable |-> "STABLE", toUnSupport |-> "NOTSUP",
             toSnow |-> "NOSIG", toNoSig |-> "NOSIG"]
EventTellsDispatchedStatus ==
    pc["poll"] = "sendEvent" => event.status \in {StatusOf[handler], "NULL"}

\* Every signal the driver stays on is eventually the recorded one, was lost in
\* one of the ways the code has of dropping a change, or waits in the driver: a
\* G_EVENT_INFO that fails leaves it there and has used up the wake-up.
SignalEventuallyRecorded ==
    \A s \in Signals :
        (<>[](signal = s))
            => <>[](\/ mCurrentSignalInfo.status = s.status
                    \/ "STS" \in lost
                    \/ "STS" \in sigFlags /\ ~wake)

-----------------------------------------------------------------------------
(***************************************************************************)
(* The inductive invariants behind DecoderFlagTruth, StoppedClean and       *)
(* EventTellsDispatchedStatus.                                             *)
(***************************************************************************)

\* Without an overlap at most one thread is past the test of the flag, and
\* where it is says how the flag and the driver differ in the meantime.
DecoderInv ==
    ~overlapped =>
        /\ ~(InDecoderCall("cmd") /\ InDecoderCall("poll"))
        /\ ~stopFailed =>
              /\ \A t \in Thread : At(t, "stopIoctl") => mDecoderStarted /\ decoding
              /\ \A t \in Thread : At(t, "stoppedFlag") => ~decoding
              /\ At("poll", "startIoctl") => ~mDecoderStarted /\ ~decoding
              /\ At("poll", "startedFlag") => decoding
              /\ At("poll", "startFailedFlag") => ~decoding
              /\ (~InDecoderCall("cmd") /\ ~InDecoderCall("poll"))
                     => mDecoderStarted = decoding

\* The steps of the command thread belong to the command it executes.
CommandLabels ==
    /\ command.name = "none" => pc["cmd"] = "idle"
    /\ command.name = "StartTv" => pc["cmd"] \in {"openPort", "setSource"}
    /\ command.name = "StopTv" =>
          pc["cmd"] \in {"outputOff", "stopTest", "stopIoctl", "stoppedFlag", "closePort",
                        "clearSource", "resetFmt", "resetStatus"}
    /\ command.name = "SetEdidVersion" =>
          pc["cmd"] \in {"stopTest", "stopIoctl", "stoppedFlag", "edidSwitch"}

\* The copy of G_SIG_INFO leaves scope when its function has used it.
TempScope ==
    pc["poll"] \notin {"checkStatus", "compareField", "setField", "setFmt", "setStatus"}
        => tempSignalInfo = NullInfo

\* How far a StopTv that no handler disturbs has come.
StopProgress ==
    /\ pc["cmd"] # "outputOff" => ~display.output
    /\ pc["cmd"] \in {"closePort", "clearSource", "resetFmt", "resetStatus"} => ~mDecoderStarted
    /\ pc["cmd"] \in {"clearSource", "resetFmt", "resetStatus"} => port = NoPort /\ signal = NullInfo
    /\ pc["cmd"] \in {"resetFmt", "resetStatus"} => mCurrentSource = "SOURCE_INVALID"
    /\ pc["cmd"] = "resetStatus" => mCurrentSignalInfo.fmt = "FMT_NULL"

\* What it leaves, and the only handlers that late events can then run: they
\* read the null signal of a closed port and return.
StopDone ==
    /\ port = NoPort /\ signal = NullInfo
    /\ mCurrentSource = "SOURCE_INVALID"
    /\ mCurrentSignalInfo = NullInfo /\ tempSignalInfo = NullInfo
    /\ ~display.output /\ ~mDecoderStarted
    /\ pc["poll"] \in {"idle", "getEvent", "readSource", "getInfo", "checkStatus", "setFmt",
                       "setStatus", "dispatch"}
    /\ pc["poll"] \in {"getInfo", "checkStatus"} => handler \in {"status", "hdr"}
    /\ pc["poll"] = "checkStatus" => handler = "hdr"

QuietInv ==
    quietStop =>
        /\ command.name # "StartTv"
        /\ ~display.layer
        /\ audioPatch = "live" => "audio" \in MayFail
        /\ command.name = "StopTv" => pc["poll"] = "idle" /\ StopProgress
        /\ command.name # "StopTv" => StopDone

\* The steps of a dispatched handler, and which handlers take them.
HandlerSteps ==
    {"needSnow", "snowOn", "startTest", "startIoctl", "startedFlag", "startFailedFlag", "layerOn",
     "outputOn", "colorOff", "stopTest", "stopIoctl", "stoppedFlag", "eventSource", "eventFmt",
     "eventStatus", "sendEvent"}

HandlerLabels ==
    /\ pc["poll"] = "needSnow" => handler = "toNoSig"
    /\ pc["poll"] = "snowOn" => handler = "toSnow"
    /\ pc["poll"] \in {"startTest", "startIoctl", "startedFlag", "startFailedFlag", "layerOn"}
          => handler \in {"toStable", "toSnow"}
    /\ pc["poll"] = "outputOn" => handler = "toStable"
    /\ pc["poll"] = "colorOff" => handler \in {"toSnow", "toNoSig"}
    /\ pc["poll"] \in {"stopTest", "stopIoctl", "stoppedFlag"}
          => handler \in {"toUnstable", "toUnSupport", "toNoSig"}
    /\ pc["poll"] \in {"eventSource", "eventFmt", "eventStatus", "sendEvent"}
          => handler \in DOMAIN StatusOf

\* While such a handler runs, nobody but a StopTv writes the recorded status.
DispatchInv ==
    /\ HandlerLabels
    /\ (pc["poll"] \in HandlerSteps /\ handler \in DOMAIN StatusOf)
          => mCurrentSignalInfo.status \in {StatusOf[handler], "NULL"}
    /\ EventTellsDispatchedStatus

-----------------------------------------------------------------------------
(***************************************************************************)
(* The inductive invariants behind ViewAgrees and DisplayFollowsSignal.    *)
(***************************************************************************)

\* There is a signal whose status and format nothing has dropped.
Watched == port # NoPort /\ signal.status # "NULL" /\ "STS" \notin lost

\* A change that the poll thread has still to read.
Unread(flag) ==
    flag \in sigFlags \/ (pc["poll"] \in {"readSource", "getInfo"} /\ FlagOf(handler) = flag)

\* Where a change of status or format has got to when it has been read: into the
\* copy of G_SIG_INFO, into half of the record, into the record.
StatusKnown ==
    /\ At("poll", "setFmt") => tempSignalInfo.status = signal.status /\ tempSignalInfo.fmt = signal.fmt
    /\ At("poll", "setStatus") => tempSignalInfo.status = signal.status
                                   /\ mCurrentSignalInfo.fmt = signal.fmt
    /\ pc["poll"] \notin {"setFmt", "setStatus"} =>
          mCurrentSignalInfo.status = signal.status /\ mCurrentSignalInfo.fmt = signal.fmt

\* A StopTv that resets the view of a port that did not close has set the format
\* and not yet given up the status.
StatusView ==
    (Watched /\ ~Unread("STS") /\ pc["cmd"] # "resetStatus") => StatusKnown

\* The same for a field with a bit of its own, which handler h alone copies.
FieldView(flag, h, read, recorded, actual) ==
    (/\ Watched /\ ~Unread("STS") /\ pc["cmd"] # "resetStatus"
     /\ signal.status = "STABLE" /\ flag \notin lost /\ ~Unread(flag))
        => IF pc["poll"] \in {"setFmt", "setStatus"}
              \/ (pc["poll"] \in {"checkStatus", "compareField", "setField"} /\ handler = h)
           THEN read = actual
           ELSE recorded = actual

HdrView == FieldView("HDR", "hdr", tempSignalInfo.hdr_info, mCurrentSignalInfo.hdr_info,
                     signal.hdr_info)
AfdView == FieldView("AFD", "afd", tempSignalInfo.aspect_ratio, mCurrentSignalInfo.aspect_ratio,
                     signal.aspect_ratio)

\* The AFD case tests the copy for a stable signal, which it is unless a change of
\* status has come in since.
AfdReadsStable ==
    (Watched /\ ~Unread("STS") /\ signal.status = "STABLE" /\ At("poll", "checkStatus")
        /\ handler = "afd") => tempSignalInfo.status = "STABLE"

\* Which events lead to which reads.
ReadLabels ==
    /\ At("poll", "readSource") => handler = "afd"
    /\ At("poll", "getInfo") => handler \in {"status", "hdr", "afd"}
    /\ pc["poll"] \in {"checkStatus", "compareField", "setField"} => handler \in {"hdr", "afd"}

ViewInv == ReadLabels /\ StatusView /\ HdrView /\ AfdView /\ AfdReadsStable

\* Once a change of status is recorded, the handler it leads to runs and has done
\* what its position says.
HandlerOf == [STABLE |-> {"toStable"}, UNSTABLE |-> {"toUnstable"}, NOTSUP |-> {"toUnSupport"},
              NOSIG |-> {"toSnow", "toNoSig"}]

Starting == {"startTest", "startIoctl", "startedFlag", "startFailedFlag"}
Stopping == {"stopTest", "stopIoctl", "stoppedFlag"}

StableShown ==
    signal.status = "STABLE" =>
        /\ display.layer \/ pc["poll"] \in Starting \cup {"layerOn"}
        /\ display.output \/ pc["poll"] \in Starting \cup {"layerOn", "outputOn"}
        /\ mDecoderStarted \/ halted \/ pc["poll"] \in Starting

RefusedStopped ==
    signal.status \in {"UNSTABLE", "NOTSUP"} => ~mDecoderStarted \/ pc["poll"] \in Stopping

AbsentIsSnow ==
    (signal.status = "NOSIG" /\ mDecoderStarted) =>
        \/ display.snow
        \/ pc["poll"] \in {"needSnow", "snowOn"}
        \/ pc["poll"] \in {"colorOff"} \cup Stopping /\ handler = "toNoSig"

\* The status has been read and acted on, or is being acted on.
Following ==
    /\ Watched /\ ~Unread("STS") /\ command.name # "StopTv"
    /\ pc["poll"] \notin {"setFmt", "setStatus", "dispatch"}

DisplayInv ==
    /\ (pc["poll"] \in Starting \cup {"layerOn"} /\ handler = "toSnow") => display.snow
    /\ Following => /\ pc["poll"] \in HandlerSteps => handler \in HandlerOf[signal.status]
                    /\ StableShown /\ RefusedStopped /\ AbsentIsSnow

=============================================================================

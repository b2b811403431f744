\* One input whose signal is stable, unstable or not supported; STOP_DEC, START_DEC,
\* G_SIG_INFO and G_EVENT_INFO may fail; both threads are fair.
SPECIFICATION FairSpec
CONSTANTS
    Sources = {"SOURCE_HDMI1"}
    Signals <- StatusSignals
    ATVDisplaySnow = FALSE
    EdidVersions = {"HDMI_EDID_VER_14"}
    Commands = {"StartTv", "StopTv"}
    MayFail = {"stop", "start", "info", "event"}
INVARIANTS
    TypeOK
    DecoderFlagTruth
    StoppedClean
    EventTellsDispatchedStatus
PROPERTIES
    SignalEventuallyRecorded
CHECK_DEADLOCK FALSE

\* One HDMI input whose signal is stable, unstable or not supported, with SetEdidVersion;
\* START_DEC and the write of the versions may fail.
SPECIFICATION Spec
CONSTANTS
    Sources = {"SOURCE_HDMI1"}
    Signals <- StatusSignals
    ATVDisplaySnow = FALSE
    EdidVersions = {"HDMI_EDID_VER_14", "HDMI_EDID_VER_20"}
    Commands = {"StartTv", "StopTv", "SetEdidVersion"}
    MayFail = {"start", "edid"}
INVARIANTS
    DisplayFollowsSignal
CHECK_DEADLOCK FALSE

\* The tuner with snow and an HDMI input, a signal that is shown, refused or absent.
SPECIFICATION Spec
CONSTANTS
    Sources = {"SOURCE_TV", "SOURCE_HDMI1"}
    Signals <- ShownSignals
    ATVDisplaySnow = TRUE
    EdidVersions = {"HDMI_EDID_VER_14"}
    Commands = {"StartTv", "StopTv"}
    MayFail = {}
INVARIANTS
    DisplayFollowsSignal
CHECK_DEADLOCK FALSE

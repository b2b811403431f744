\* One input, stable signals that differ in HDR and aspect ratio; the calls
\* that open, close and read the port may fail.
SPECIFICATION Spec
CONSTANTS
    Sources = {"SOURCE_HDMI1"}
    Signals <- FieldSignals
    ATVDisplaySnow = FALSE
    EdidVersions = {"HDMI_EDID_VER_14"}
    Commands = {"StartTv", "StopTv"}
    MayFail = {"event", "info", "open", "close"}
INVARIANTS
    ViewAgrees
CHECK_DEADLOCK FALSE

\* Two interchangeable threads that call every function for one HDMI input; every device
\* call may fail.
SPECIFICATION Spec
CONSTANTS
    Sources = {"SOURCE_HDMI1"}
    WorkModes = {"VDIN_WORK_MODE_VFM"}
    EdidVersions = {"HDMI_EDID_VER_14", "HDMI_EDID_VER_20"}
    EdidBlocks = {"b1"}
    Readings <- TwoReadings
    MayFail = {"open", "close", "edid", "frontend", "range", "cable"}
    Threads = {t1, t2}
    Calls <- AllCalls
SYMMETRY Interchangeable
INVARIANTS
    TypeOK
    FieldsFound
PROPERTIES
    ImplementsApi
CHECK_DEADLOCK FALSE

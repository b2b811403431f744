\* A viewer who starts the HDMI or the AV input, a signal that is shown or refused, one client.
SPECIFICATION FairSystemSpec
CONSTANTS
    Sources = {"SOURCE_HDMI1", "SOURCE_AV1"}
    Signals <- Refused
    ATVDisplaySnow = FALSE
    EdidVersions = {"HDMI_EDID_VER_14"}
    Commands = {"StartTv"}
    MayFail = {}
    Clients = {c1}
INVARIANTS
    ClientsKnowSignal
PROPERTIES
    SignalReachesClients
CHECK_DEADLOCK FALSE

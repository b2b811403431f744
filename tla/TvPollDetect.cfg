\* Two ports, and two channels so that a wrong one can name another input; an
\* uninitialised state may be none of the driver's; reads of both devices may
\* fail.  AV-in and HDMI are opened one at a time, each with its cables, to keep
\* the two apart.
SPECIFICATION FairSpec
CONSTANTS
    HdmiPorts = 2
    AvChannels = 2
    Openings = {{"avin"}, {"hdmi", "vdin"}}
    StackInts = {"IN", "OTHER"}
    MayFail = {"hdmi", "avin"}
INVARIANTS
    TypeOK
    ReportsMatchQueries
PROPERTIES
    ReportsAreNews
    ReportsCatchUp

\* Three versions and two blocks for two HDMI inputs and an analog one, on
\* every kind of port map, with and without the loading of EDID files.
SPECIFICATION Spec
CONSTANTS
    Configs <- SomeConfigs
    Inputs = {1, 5, 6}
    EdidVersions <- ThreeVersions
    EdidData = {"d1", "d2"}
INVARIANTS
    TypeOK
    VersionsAgree
    CustomEdidServed
PROPERTIES
    OtherPortsKeepVersion

------------------------------- MODULE TvEdid -------------------------------
(***************************************************************************)
(* EDID handling: LoadEdidData, SetEdidVersion, GetEdidVersion and         *)
(* SetEDIDData of CTv (src/libtv/CTv.cpp) with CHDMIRxManager, across      *)
(* restarts of tvservice.                                                  *)
(*                                                                         *)
(* Commands run one at a time under tvservice_mutex, so each is a step.    *)
(* The versions the server knows are static variables that a restart       *)
(* resets; the HDMI receiver (external) keeps what was last written to it. *)
(* The decoder that SetEdidVersion stops is in TvCore.                     *)
(***************************************************************************)
EXTENDS TvPortMap

CONSTANTS
    Configs,       \* the configurations of the port map
    Inputs,        \* the inputs clients name
    EdidVersions,  \* versions clients set, each the set of its one bits
    EdidData       \* EDID blocks clients set

HDMI_EDID_VER_14 == {}   \* enumerator 0

ASSUME ConfigAssumption == \A c \in Configs : DOMAIN c \subseteq Configured
ASSUME InputsAssumption == Inputs \subseteq SourceInput
\* The enumerators fit in four bits; SetEdidVersion does not check it.
ASSUME VersionAssumption == EdidVersions \subseteq SUBSET (0 .. 3)
ASSUME DataAssumption == {"kernel", "files", "none"} \cap EdidData = {}

VARIABLES
    mSourceInputToPortMap,
    autoLoad,        \* edid.data.auto.load.en of the configuration
    currentEdidVer,  \* Hdmi1CurrentEdidVer to Hdmi4CurrentEdidVer
    running,         \* tvservice has been constructed and has not died
    \* the receiver
    edid_select,     \* the one bits of the number last written to edid_select
    edidOf,          \* the origin of the EDID each port serves
    \* history, read by the properties only
    synced,          \* edid_select was written since tvservice started
    custom           \* per input, the last block set and not reloaded since

vars == <<mSourceInputToPortMap, autoLoad, currentEdidVer, running, edid_select, edidOf, synced, custom>>

PortId(s) == HdmiPortId(mSourceInputToPortMap, s)

\* Fault: the shift is four bits too long.
EdidSetValueTooFar(ver) ==
    UNION {{4 * PortId(s) + b : b \in ver[s]} : s \in HdmiSource}

\* The version of every input in the four bits of its port; an HDMI input on
\* no HDMI port has a place of its own behind them.
EdidSetValue(ver) ==
    UNION {{4 * PortId(s) - 4 + b : b \in ver[s]} : s \in HdmiSource}

\* The bits of a port in the number.
Nibble(register, id) == {b \in 0 .. 3 : 4 * id - 4 + b \in register}

Reset == [s \in HdmiSource |-> HDMI_EDID_VER_14]
NoCustom == [s \in HdmiSource |-> "none"]

Init ==
    /\ \E c \in Configs : mSourceInputToPortMap = LoadSourceInputToPortMap(c)
    /\ autoLoad \in BOOLEAN
    /\ currentEdidVer = Reset
    /\ running = FALSE
    /\ edid_select = {}
    /\ edidOf = [id \in 1 .. TVIN_PORT_ID_MAX |-> "kernel"]
    /\ synced = FALSE
    /\ custom = NoCustom

-----------------------------------------------------------------------------

(***************************************************************************)
(* CHDMIRxManager's writes to the receiver, ok telling whether the device  *)
(* opened and took them.                                                   *)
(***************************************************************************)

\* HdmiRxEdidVerSwitch
HdmiRxEdidVerSwitch(value, ok) ==
    /\ edid_select' = IF ok THEN value ELSE edid_select
    /\ synced' = (synced \/ ok)

\* HdmiRxEdidDataSwitch: the six blocks are those of the first three ports.
HdmiRxEdidDataSwitch(ok) ==
    /\ edidOf' = [id \in DOMAIN edidOf |-> IF ok /\ id \in 1 .. 3 THEN "files" ELSE edidOf[id]]
    /\ custom' = [s \in HdmiSource |-> IF ok /\ PortId(s) \in 1 .. 3 THEN "none" ELSE custom[s]]

\* UpdataEdidDataWithPort
UpdataEdidDataWithPort(id, data, ok) ==
    edidOf' = IF ok THEN [edidOf EXCEPT ![id] = data] ELSE edidOf

-----------------------------------------------------------------------------

\* The constructor's LoadEdidData.  HdmiRxEdidDataSwitch fails only if its
\* device does not open: a failed write is overlooked, and the versions are
\* written all the same.
Start ==
    /\ ~running
    /\ running' = TRUE
    /\ \E opened, written, switched \in BOOLEAN :
        /\ HdmiRxEdidDataSwitch(autoLoad /\ opened /\ written)
        /\ HdmiRxEdidVerSwitch(EdidSetValue(currentEdidVer), autoLoad /\ opened /\ switched)
    /\ UNCHANGED <<mSourceInputToPortMap, autoLoad, currentEdidVer>>

\* The process ends, in whatever way.
Die ==
    /\ running
    /\ running' = FALSE
    /\ currentEdidVer' = Reset
    /\ synced' = FALSE
    /\ UNCHANGED <<mSourceInputToPortMap, autoLoad, edid_select, edidOf, custom>>

GetEdidVersion(s) == IF s \in HdmiSource THEN currentEdidVer[s] ELSE HDMI_EDID_VER_14

\* What the inputs will have when s has version v.
Switched(s, v) == [i \in HdmiSource |-> IF i = s THEN v ELSE GetEdidVersion(i)]

\* Fault: the version is remembered although it could not be written.
SetEdidVersionUnchecked(s, v) ==
    /\ running
    /\ GetEdidVersion(s) # v
    /\ \E ok \in BOOLEAN : HdmiRxEdidVerSwitch(EdidSetValue(Switched(s, v)), ok)
    /\ currentEdidVer' = Switched(s, v)
    /\ UNCHANGED <<mSourceInputToPortMap, autoLoad, running, edidOf, custom>>

\* The versions of all inputs are written; only a write that succeeds is
\* remembered.  An input that is not HDMI has all of them written again.
SetEdidVersion(s, v) ==
    /\ running
    /\ GetEdidVersion(s) # v
    /\ \E ok \in BOOLEAN :
        /\ HdmiRxEdidVerSwitch(EdidSetValue(Switched(s, v)), ok)
        /\ currentEdidVer' = IF ok THEN Switched(s, v) ELSE currentEdidVer
    /\ UNCHANGED <<mSourceInputToPortMap, autoLoad, running, edidOf, custom>>

\* Fault: the block goes to the port of the input's number.
SetEDIDDataByNumber(s, data) ==
    /\ running
    /\ \E ok \in BOOLEAN :
        /\ UpdataEdidDataWithPort(s - 4, data, ok /\ s \in HdmiSource)
        /\ custom' = IF ok /\ s \in HdmiSource THEN [custom EXCEPT ![s] = data] ELSE custom
    /\ UNCHANGED <<mSourceInputToPortMap, autoLoad, currentEdidVer, running, edid_select, synced>>

\* The block of an input on no HDMI port goes to the identifier behind the last.
SetEDIDData(s, data) ==
    /\ running
    /\ \E ok \in BOOLEAN :
        /\ UpdataEdidDataWithPort(PortId(s), data, ok)
        /\ custom' = IF ok /\ s \in HdmiSource THEN [custom EXCEPT ![s] = data] ELSE custom
    /\ UNCHANGED <<mSourceInputToPortMap, autoLoad, currentEdidVer, running, edid_select, synced>>

Next ==
    \/ Start \/ Die
    \/ \E s \in Inputs, v \in EdidVersions : SetEdidVersion(s, v)
    \/ \E s \in Inputs, d \in EdidData : SetEDIDData(s, d)

Spec == Init /\ [][Next]_vars

-----------------------------------------------------------------------------

\* Every variable has its type.
TypeOK ==
    /\ mSourceInputToPortMap \in [SourceInput -> Port]
    /\ autoLoad \in BOOLEAN
    /\ currentEdidVer \in [HdmiSource -> SUBSET (0 .. 3)]
    /\ running \in BOOLEAN
    /\ edid_select \in SUBSET (0 .. 19)
    /\ edidOf \in [1 .. TVIN_PORT_ID_MAX -> EdidData \cup {"kernel", "files"}]
    /\ synced \in BOOLEAN
    /\ custom \in [HdmiSource -> EdidData \cup {"none"}]

\* The receiver serves on an input's port the version GetEdidVersion answers,
\* whatever was set for the other inputs, whatever failed and however the
\* configuration arranges the ports, as long as no other input shares the port
\* and the versions were written once since the server started.  (They are not
\* when a start's write fails or auto load is off: then a restart makes the
\* server answer 1.4 for an input that has another version, and setting 1.4
\* there does nothing.)
VersionsAgree ==
    synced => \A s \in HdmiSource :
        Alone(mSourceInputToPortMap, s) => Nibble(edid_select, PortId(s)) = GetEdidVersion(s)

\* Setting the version of one input changes that of no other port.
OtherPortsKeepVersion ==
    [][\A s \in Inputs, v \in EdidVersions :
          (synced /\ SetEdidVersion(s, v)) =>
              \A id \in 1 .. 4 : id # PortId(s) =>
                  Nibble(edid_select', id) = Nibble(edid_select, id)]_vars

\* A block set for an input is what its port serves until the next one is set
\* there or the files are loaded again: other inputs and version changes do
\* not touch it.
CustomEdidServed ==
    \A s \in HdmiSource :
        (Alone(mSourceInputToPortMap, s) /\ custom[s] # "none") => edidOf[PortId(s)] = custom[s]

\* A cable event of a port names an input, and a query for that input reads the
\* same port, unless a configuration puts an input before the HDMI ones on it or
\* none at all; in particular an HDMI input that has the port to itself among all
\* inputs is the one that is named.
HotplugNamesQueriedInput ==
    \A port \in HdmiPort :
        LET m == mSourceInputToPortMap
            s == ChipHdmiPortMaptoSourceInput(m, port)
        IN  /\ ConnectQueryReads(m, s) = port
                  <=> /\ \E i \in HdmiSource : m[i] = port
                      /\ \A i \in SourceInput : m[i] = port => i >= 5
            /\ \A i \in HdmiSource :
                  (\A j \in SourceInput : m[j] = port <=> j = i) => s = i

-----------------------------------------------------------------------------

\* The inductive invariant behind VersionsAgree: the register is the encoding
\* of all the versions.
RegisterInv == synced => edid_select = EdidSetValue(currentEdidVer)
=============================================================================

------------------------------ MODULE TvPortMap ------------------------------
(***************************************************************************)
(* CTvin's map from inputs to ports (src/libtv/CTvin.cpp), which the       *)
(* configuration file may change, and the conversions built on it: the     *)
(* HDMI port identifier EDID commands use and the chip port the hot plug   *)
(* detection uses.  An operator's parameter m is mSourceInputToPortMap.    *)
(***************************************************************************)
EXTENDS Integers

\* tv_source_input_t by number: lookups depend on its order.
SourceInput   == 0 .. 15
HdmiSource    == 5 .. 8
SOURCE_MAX    == 16
AnalogDefault == <<"CVBS3", "CVBS1", "CVBS2", "COMP0", "COMP1">>
HdmiDefault   == <<"HDMI0", "HDMI2", "HDMI1", "HDMI3">>

\* The ports a configuration can name; any other text is TVIN_PORT_NULL.
HdmiPort   == {"HDMI0", "HDMI1", "HDMI2", "HDMI3"}
NamedPort  == HdmiPort \cup {"CVBS0", "CVBS1", "CVBS2", "CVBS3", "COMP0", "COMP1", "VGA0"}
Port       == NamedPort \cup {"NULL", "MPEG0", "DTV", "BT656", "UNSET"}
Configured == 0 .. 9

\* Tvin_TransPortStringToValue
TransPortStringToValue(text) == IF text \in NamedPort THEN text ELSE "NULL"

\* Tvin_LoadSourceInputToPortMap: config holds the texts of the keys that are
\* in the file.  SVIDEO and DUMMY keep the constructor's -1.
Default(s) ==
    CASE s < 5 -> AnalogDefault[s + 1]
      [] s \in HdmiSource -> HdmiDefault[s - 4]
      [] OTHER -> "VGA0"
LoadSourceInputToPortMap(config) ==
    [s \in SourceInput |->
        CASE s \in DOMAIN config -> TransPortStringToValue(config[s])
          [] s \in Configured \ DOMAIN config -> Default(s)
          [] s = 10 -> "MPEG0"
          [] s = 11 -> "DTV"
          [] s = 13 -> "BT656"
          [] s = 15 -> "CVBS3"
          [] OTHER  -> "UNSET"]

\* Tvin_PortToSourceInput: the first input on the port.
PortToSourceInput(m, port) ==
    IF \E s \in SourceInput : m[s] = port
    THEN CHOOSE s \in SourceInput :
             m[s] = port /\ \A i \in SourceInput : m[i] = port => s <= i
    ELSE SOURCE_MAX

PortNumber == [HDMI0 |-> 1, HDMI1 |-> 2, HDMI2 |-> 3, HDMI3 |-> 4]
TVIN_PORT_ID_MAX == 5

\* Tvin_GetHdmiPortIdBySourceInput
HdmiPortId(m, s) ==
    IF s \in HdmiSource /\ m[s] \in HdmiPort THEN PortNumber[m[s]] ELSE TVIN_PORT_ID_MAX

\* SourceInputMaptoChipHdmiPort: port A for an input that is on no HDMI port.
SourceInputMaptoChipHdmiPort(m, s) == IF m[s] \in HdmiPort THEN m[s] ELSE "HDMI0"

\* GetSourceConnectStatus: the port's bit is read for HDMI inputs only, the AV
\* inputs are looked up in the AV-in device, and the others read nothing.
ConnectQueryReads(m, s) ==
    CASE s \in HdmiSource -> SourceInputMaptoChipHdmiPort(m, s)
      [] s \in {1, 2}     -> "avin_detect"
      [] OTHER            -> "nothing"

\* ChipHdmiPortMaptoSourceInput
ChipHdmiPortMaptoSourceInput(m, port) == PortToSourceInput(m, port)

\* An HDMI input with an HDMI port that no other HDMI input is mapped to.
Alone(m, s) ==
    /\ m[s] \in HdmiPort
    /\ \A i \in HdmiSource : m[i] = m[s] => i = s
=============================================================================

---------------------------- MODULE TvEdidProofs ----------------------------
(***************************************************************************)
(* Type correctness of TvEdid, and that the receiver serves the versions   *)
(* and the blocks that were set, for every configuration of the ports and  *)
(* every set of versions and blocks.                                       *)
(***************************************************************************)
EXTENDS TvEdid, TLAPS

-----------------------------------------------------------------------------

\* Port identifiers are small and only an HDMI port's is below the last.
LEMMA PortIds ==
    ASSUME mSourceInputToPortMap \in [SourceInput -> Port]
    PROVE  /\ \A s \in SourceInput : PortId(s) \in 1 .. 5
           /\ \A s, t \in HdmiSource :
                 (Alone(mSourceInputToPortMap, s) /\ PortId(t) = PortId(s)) => t = s
           /\ \A s \in HdmiSource : Alone(mSourceInputToPortMap, s) => PortId(s) \in 1 .. 4
           /\ \A s \in SourceInput \ HdmiSource : PortId(s) = 5
  BY DEF PortId, HdmiPortId, PortNumber, TVIN_PORT_ID_MAX, HdmiPort, HdmiSource, SourceInput, Alone

\* The bits of one port in the encoding are those of the inputs mapped to it:
\* no version reaches into the bits of another port.
LEMMA NibbleOfEncoding ==
    ASSUME mSourceInputToPortMap \in [SourceInput -> Port],
           NEW ver \in [HdmiSource -> SUBSET (0 .. 3)], NEW id \in 1 .. 5
    PROVE  Nibble(EdidSetValue(ver), id) = {b \in 0 .. 3 : \E s \in HdmiSource : PortId(s) = id /\ b \in ver[s]}
<1>1. ASSUME NEW b \in 0 .. 3
      PROVE  4 * id - 4 + b \in EdidSetValue(ver)
                 <=> \E s \in HdmiSource : PortId(s) = id /\ b \in ver[s]
  <2>1. 4 * id - 4 + b \in EdidSetValue(ver)
            <=> \E s \in HdmiSource : \E c \in ver[s] : 4 * id - 4 + b = 4 * PortId(s) - 4 + c
    BY DEF EdidSetValue
  <2>2. \A s \in HdmiSource : PortId(s) \in 1 .. 5 /\ ver[s] \in SUBSET (0 .. 3)
    BY PortIds DEF HdmiSource, SourceInput
  <2>3. \A p \in 1 .. 5, c \in 0 .. 3 : 4 * id - 4 + b = 4 * p - 4 + c <=> (p = id /\ c = b)
    OBVIOUS
  <2> QED  BY <2>1, <2>2, <2>3
<1> QED  BY <1>1 DEF Nibble

\* The encoding fits the receiver's number.
LEMMA EncodingType ==
    ASSUME mSourceInputToPortMap \in [SourceInput -> Port],
           NEW ver \in [HdmiSource -> SUBSET (0 .. 3)]
    PROVE  EdidSetValue(ver) \in SUBSET (0 .. 19)
<1>1. ASSUME NEW s \in HdmiSource, NEW b \in ver[s]
      PROVE  4 * PortId(s) - 4 + b \in 0 .. 19
  <2>1. PortId(s) \in 1 .. 5  BY PortIds DEF HdmiSource, SourceInput
  <2>2. b \in 0 .. 3  OBVIOUS
  <2> QED  BY <2>1, <2>2
<1> QED  BY <1>1 DEF EdidSetValue

\* The port map is a map whatever the configuration says.
LEMMA MapType ==
    ASSUME NEW c, DOMAIN c \subseteq Configured
    PROVE  LoadSourceInputToPortMap(c) \in [SourceInput -> Port]
<1>1. \A text : TransPortStringToValue(text) \in Port
  BY DEF TransPortStringToValue, Port
<1>2. \A s \in Configured : Default(s) \in Port
  BY DEF Default, AnalogDefault, HdmiDefault, Configured, HdmiSource, Port, NamedPort, HdmiPort
<1>3. ASSUME NEW s \in SourceInput
      PROVE  LoadSourceInputToPortMap(c)[s] \in Port
  <2>1. CASE s \in DOMAIN c
    BY <1>1, <2>1 DEF LoadSourceInputToPortMap, Configured
  <2>2. CASE s \in Configured \ DOMAIN c
    BY <1>2, <2>2 DEF LoadSourceInputToPortMap, Configured
  <2>3. CASE s \notin Configured /\ s \notin DOMAIN c
    <3>1. LoadSourceInputToPortMap(c)[s] \in {"MPEG0", "DTV", "BT656", "CVBS3", "UNSET"}
      BY <2>3 DEF LoadSourceInputToPortMap
    <3> QED  BY <3>1 DEF Port, NamedPort
  <2> QED  BY <2>1, <2>2, <2>3
<1> QED  BY <1>3 DEF LoadSourceInputToPortMap

-----------------------------------------------------------------------------

\* What the inputs will have is again a version for each.
LEMMA SwitchedType ==
    ASSUME TypeOK, NEW s, NEW v \in EdidVersions
    PROVE  Switched(s, v) \in [HdmiSource -> SUBSET (0 .. 3)]
  BY VersionAssumption DEF Switched, GetEdidVersion, TypeOK

\* The initial states are well typed.
LEMMA TypeInit == Init => TypeOK
  BY ConfigAssumption, MapType
     DEF Init, TypeOK, Reset, NoCustom, HDMI_EDID_VER_14, TVIN_PORT_ID_MAX

\* Every step keeps every variable's type.
LEMMA TypeNext == TypeOK /\ [Next]_vars => TypeOK'
<1> SUFFICES ASSUME TypeOK, [Next]_vars PROVE TypeOK'
  OBVIOUS
<1>1. CASE Start
  BY <1>1, EncodingType DEF Start, HdmiRxEdidDataSwitch, HdmiRxEdidVerSwitch, TypeOK
<1>2. CASE Die
  BY <1>2 DEF Die, TypeOK, Reset, HDMI_EDID_VER_14
<1>3. ASSUME NEW s \in Inputs, NEW v \in EdidVersions, SetEdidVersion(s, v)
      PROVE  TypeOK'
  BY <1>3, SwitchedType, EncodingType DEF SetEdidVersion, HdmiRxEdidVerSwitch, TypeOK
<1>4. ASSUME NEW s \in Inputs, NEW d \in EdidData, SetEDIDData(s, d)
      PROVE  TypeOK'
  <2>1. PortId(s) \in 1 .. TVIN_PORT_ID_MAX
    BY PortIds, InputsAssumption DEF TypeOK, TVIN_PORT_ID_MAX
  <2> QED  BY <1>4, <2>1 DEF SetEDIDData, UpdataEdidDataWithPort, TypeOK
<1>5. CASE UNCHANGED vars
  BY <1>5 DEF vars, TypeOK
<1> QED  BY <1>1, <1>2, <1>3, <1>4, <1>5 DEF Next

\* TypeOK holds in every reachable state.
THEOREM EdidTypeCorrect == Spec => []TypeOK
  BY TypeInit, TypeNext, PTL DEF Spec

-----------------------------------------------------------------------------

\* A step that writes the register writes the encoding of the versions it
\* leaves behind; every other one leaves both alone or ends the process.
LEMMA RegisterNext == TypeOK /\ RegisterInv /\ [Next]_vars => RegisterInv'
<1> SUFFICES ASSUME TypeOK, RegisterInv, [Next]_vars PROVE RegisterInv'
  OBVIOUS
<1>m. \A ver : EdidSetValue(ver)' = EdidSetValue(ver)
  BY DEF Next, Start, Die, SetEdidVersion, SetEDIDData, vars, EdidSetValue, PortId
<1> USE DEF RegisterInv
<1>1. CASE Start
  BY <1>1, <1>m DEF Start, HdmiRxEdidVerSwitch
<1>2. CASE Die
  BY <1>2, <1>m DEF Die
<1>3. ASSUME NEW s \in Inputs, NEW v \in EdidVersions, SetEdidVersion(s, v)
      PROVE  RegisterInv'
  BY <1>3, <1>m DEF SetEdidVersion, HdmiRxEdidVerSwitch
<1>4. ASSUME NEW s \in Inputs, NEW d \in EdidData, SetEDIDData(s, d)
      PROVE  RegisterInv'
  BY <1>4, <1>m DEF SetEDIDData
<1>5. CASE UNCHANGED vars
  BY <1>5, <1>m DEF vars
<1> QED  BY <1>1, <1>2, <1>3, <1>4, <1>5 DEF Next

\* An input alone on its port reads back its own version.
LEMMA RegisterGives == TypeOK /\ RegisterInv => VersionsAgree
<1> SUFFICES ASSUME TypeOK, RegisterInv, synced,
                    NEW s \in HdmiSource, Alone(mSourceInputToPortMap, s)
             PROVE  Nibble(edid_select, PortId(s)) = GetEdidVersion(s)
  BY DEF VersionsAgree
<1>1. PortId(s) \in 1 .. 5 /\ \A t \in HdmiSource : PortId(t) = PortId(s) => t = s
  BY PortIds DEF TypeOK, HdmiSource, SourceInput
<1>2. Nibble(edid_select, PortId(s)) =
          {b \in 0 .. 3 : \E t \in HdmiSource : PortId(t) = PortId(s) /\ b \in currentEdidVer[t]}
  BY <1>1, NibbleOfEncoding DEF RegisterInv, TypeOK
<1>3. currentEdidVer[s] \subseteq 0 .. 3
  BY DEF TypeOK
<1> QED  BY <1>1, <1>2, <1>3 DEF GetEdidVersion

\* The receiver serves on an input's port the version the server answers.
THEOREM ServedVersionsAgree == Spec => []VersionsAgree
<1>1. Init => RegisterInv
  BY DEF Init, RegisterInv
<1> QED  BY <1>1, RegisterNext, RegisterGives, EdidTypeCorrect, PTL DEF Spec

\* Setting the version of one input changes that of no other port.
THEOREM OtherVersionsKept == Spec => OtherPortsKeepVersion
<1>1. ASSUME TypeOK, RegisterInv, NEW s \in Inputs, NEW v \in EdidVersions,
             synced, SetEdidVersion(s, v), NEW id \in 1 .. 4, id # PortId(s)
      PROVE  Nibble(edid_select', id) = Nibble(edid_select, id)
  <2>1. CASE edid_select' = edid_select
    BY <2>1
  <2>2. CASE edid_select' = EdidSetValue(Switched(s, v))
    <3>1. \A t \in HdmiSource : PortId(t) = id => Switched(s, v)[t] = currentEdidVer[t]
      BY <1>1 DEF Switched, GetEdidVersion
    <3>2. Nibble(edid_select', id) =
              {b \in 0 .. 3 : \E t \in HdmiSource : PortId(t) = id /\ b \in Switched(s, v)[t]}
      BY <1>1, <2>2, SwitchedType, NibbleOfEncoding DEF TypeOK
    <3>3. Nibble(edid_select, id) =
              {b \in 0 .. 3 : \E t \in HdmiSource : PortId(t) = id /\ b \in currentEdidVer[t]}
      BY <1>1, NibbleOfEncoding DEF TypeOK, RegisterInv
    <3> QED  BY <3>1, <3>2, <3>3
  <2> QED  BY <1>1, <2>1, <2>2 DEF SetEdidVersion, HdmiRxEdidVerSwitch
<1>2. TypeOK /\ RegisterInv =>
          \A s \in Inputs, v \in EdidVersions :
              (synced /\ SetEdidVersion(s, v)) =>
                  \A id \in 1 .. 4 : id # PortId(s) =>
                      Nibble(edid_select', id) = Nibble(edid_select, id)
  BY <1>1
<1>3. Init => RegisterInv
  BY DEF Init, RegisterInv
<1> QED  BY <1>2, <1>3, RegisterNext, EdidTypeCorrect, PTL DEF Spec, OtherPortsKeepVersion

-----------------------------------------------------------------------------

\* A block set for an input alone on its port is not replaced by another's.
LEMMA CustomNext == TypeOK /\ CustomEdidServed /\ [Next]_vars => CustomEdidServed'
<1> SUFFICES ASSUME TypeOK, CustomEdidServed, [Next]_vars PROVE CustomEdidServed'
  OBVIOUS
<1>m. mSourceInputToPortMap' = mSourceInputToPortMap
  BY DEF Next, Start, Die, SetEdidVersion, SetEDIDData, vars
<1>p. \A s : PortId(s)' = PortId(s)
  BY <1>m DEF PortId
<1>1. CASE UNCHANGED <<edidOf, custom>>
  BY <1>1, <1>m, <1>p DEF CustomEdidServed
<1>2. CASE Start
  <2>1. \A s \in HdmiSource : PortId(s) \in DOMAIN edidOf
    BY PortIds DEF TypeOK, HdmiSource, SourceInput, TVIN_PORT_ID_MAX
  <2>2. PICK ok \in BOOLEAN : HdmiRxEdidDataSwitch(ok)
    BY <1>2 DEF Start, TypeOK
  <2> QED  BY <2>1, <2>2, <1>m, <1>p DEF HdmiRxEdidDataSwitch, CustomEdidServed
<1>3. ASSUME NEW s \in Inputs, NEW d \in EdidData, SetEDIDData(s, d),
             NEW t \in HdmiSource, Alone(mSourceInputToPortMap, t), custom'[t] # "none"
      PROVE  edidOf'[PortId(t)] = custom'[t]
  <2>1. PortId(s) \in DOMAIN edidOf /\ PortId(t) \in DOMAIN edidOf /\ t \in DOMAIN custom
    BY PortIds, InputsAssumption DEF TypeOK, HdmiSource, SourceInput, TVIN_PORT_ID_MAX
  <2>2. s # t => PortId(s) # PortId(t)
    BY <1>3, PortIds, InputsAssumption DEF TypeOK, HdmiSource, SourceInput
  <2>3. CASE s = t
    BY <1>3, <2>1, <2>3 DEF SetEDIDData, UpdataEdidDataWithPort, CustomEdidServed, HdmiSource
  <2>4. CASE s # t
    BY <1>3, <2>1, <2>2, <2>4 DEF SetEDIDData, UpdataEdidDataWithPort, CustomEdidServed
  <2> QED  BY <2>3, <2>4
<1>4. CASE \E s \in Inputs, d \in EdidData : SetEDIDData(s, d)
  BY <1>3, <1>4, <1>m, <1>p DEF CustomEdidServed
<1>5. CASE Die \/ (\E s \in Inputs, v \in EdidVersions : SetEdidVersion(s, v)) \/ UNCHANGED vars
  BY <1>1, <1>5 DEF Die, SetEdidVersion, vars
<1> QED  BY <1>2, <1>4, <1>5 DEF Next

\* A port serves the block last set for the input alone on it.
THEOREM CustomBlocksServed == Spec => []CustomEdidServed
<1>1. Init => CustomEdidServed
  BY DEF Init, CustomEdidServed, NoCustom
<1> QED  BY <1>1, CustomNext, EdidTypeCorrect, PTL DEF Spec

-----------------------------------------------------------------------------

\* Looking a port up finds the least input on it, and SOURCE_MAX if there is none.
LEMMA LeastInput ==
    ASSUME NEW m \in [SourceInput -> Port], NEW port
    PROVE  LET found == PortToSourceInput(m, port)
           IN  \/ /\ found \in SourceInput /\ m[found] = port
                  /\ \A i \in SourceInput : m[i] = port => found <= i
               \/ found = SOURCE_MAX /\ ~\E i \in SourceInput : m[i] = port
<1> DEFINE on(s) == m[s] = port
<1>1. CASE \E s \in SourceInput : on(s)
  <2>1. \E s \in SourceInput : on(s) /\ \A i \in SourceInput : on(i) => s <= i
    BY <1>1, SMTT(60) DEF SourceInput
  <2> QED  BY <1>1, <2>1 DEF PortToSourceInput
<1>2. CASE ~\E s \in SourceInput : on(s)
  BY <1>2 DEF PortToSourceInput
<1> QED  BY <1>1, <1>2

\* On any port map, what a cable event names and what a query for it reads.
LEMMA HotplugOfMap ==
    ASSUME mSourceInputToPortMap \in [SourceInput -> Port]
    PROVE  HotplugNamesQueriedInput
<1> DEFINE m == mSourceInputToPortMap
<1> SUFFICES ASSUME NEW port \in HdmiPort
             PROVE  LET s == ChipHdmiPortMaptoSourceInput(m, port)
                    IN  /\ ConnectQueryReads(m, s) = port
                              <=> /\ \E i \in HdmiSource : m[i] = port
                                  /\ \A i \in SourceInput : m[i] = port => i >= 5
                        /\ \A i \in HdmiSource :
                              (\A j \in SourceInput : m[j] = port <=> j = i) => s = i
  BY DEF HotplugNamesQueriedInput
<1> DEFINE s == ChipHdmiPortMaptoSourceInput(m, port)
<1>1. \/ /\ s \in SourceInput /\ m[s] = port
         /\ \A i \in SourceInput : m[i] = port => s <= i
      \/ s = SOURCE_MAX /\ ~\E i \in SourceInput : m[i] = port
  BY LeastInput DEF ChipHdmiPortMaptoSourceInput
<1> HIDE DEF s
<1>2. HdmiSource \subseteq SourceInput
  BY DEF HdmiSource, SourceInput
<1>3. ConnectQueryReads(m, s) = port <=> s \in HdmiSource
  <2>1. ASSUME s \in HdmiSource PROVE ConnectQueryReads(m, s) = port
    <3>1. s \in SourceInput /\ m[s] = port
      BY <1>1, <1>2, <2>1 DEF SOURCE_MAX, HdmiSource
    <3> QED  BY <2>1, <3>1 DEF ConnectQueryReads, SourceInputMaptoChipHdmiPort, HdmiSource
  <2>2. ASSUME s \notin HdmiSource PROVE ConnectQueryReads(m, s) # port
    BY <2>2 DEF ConnectQueryReads, HdmiPort
  <2> QED  BY <2>1, <2>2
<1>4. s \in HdmiSource <=> /\ \E i \in HdmiSource : m[i] = port
                          /\ \A i \in SourceInput : m[i] = port => i >= 5
  <2>1. ASSUME s \in HdmiSource, NEW i \in SourceInput, m[i] = port PROVE i >= 5
    <3>1. s <= i /\ s >= 5 /\ s \in Int /\ i \in Int
      BY <1>1, <2>1 DEF HdmiSource, SourceInput, SOURCE_MAX
    <3> QED  BY <3>1
  <2>2. s \in HdmiSource => m[s] = port
    BY <1>1 DEF HdmiSource, SOURCE_MAX
  <2>3. ASSUME NEW i \in HdmiSource, m[i] = port,
               \A j \in SourceInput : m[j] = port => j >= 5
        PROVE  s \in HdmiSource
    <3>1. s \in SourceInput /\ m[s] = port /\ s <= i
      BY <1>1, <1>2, <2>3
    <3>2. s >= 5
      BY <2>3, <3>1
    <3> QED  BY <3>1, <3>2 DEF HdmiSource, SourceInput
  <2> QED  BY <2>1, <2>2, <2>3
<1>5. ASSUME NEW i \in HdmiSource, \A j \in SourceInput : m[j] = port <=> j = i
      PROVE  s = i
  BY <1>1, <1>2, <1>5
<1> QED  BY <1>3, <1>4, <1>5 DEF s

\* A cable event names an input for which the query reads the port it came from,
\* unless an input before the HDMI ones is configured on that port, or none is.
THEOREM HotplugNamesInput == Spec => []HotplugNamesQueriedInput
<1>1. TypeOK => HotplugNamesQueriedInput
  BY HotplugOfMap DEF TypeOK
<1> QED  BY <1>1, EdidTypeCorrect, PTL
=============================================================================

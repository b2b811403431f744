-------------------------- MODULE TvPollDetectProofs --------------------------
(***************************************************************************)
(* TvPollDetect's properties for every number of ports and channels, every *)
(* set of devices that may open or fail, and whatever an uninitialised     *)
(* array holds: its types, that the reports match the queries once the     *)
(* thread has caught up, and that every report is news.                    *)
(***************************************************************************)
EXTENDS TvPollDetect, TLAPS

\* The thread's part of the state only takes values of the program's types.
LEMMA TypeInit == Init => TypeOK
<1> SUFFICES ASSUME Init PROVE TypeOK
  OBVIOUS
<1>1. opened \in Openings /\ batch \subseteq opened /\ ready \subseteq opened
  BY DEF Init
<1>2. told \in [Source -> {"nothing", "PLUG_IN", "PLUG_OUT"}]
  BY DEF Init
<1>3. NoCable \in [Hdmi -> Bit] /\ Unread \in [Av -> SUBSET Entry]
  BY DEF NoCable, Unread, Bit
<1>4. [a \in Av |-> "IN"] \in [Av -> Ints]
  BY DEF Ints, AvStatus
<1> QED BY <1>1, <1>2, <1>3, <1>4 DEF Init, TypeOK

\* Every step keeps every variable's type.
LEMMA TypeNext == TypeOK /\ [Next]_vars => TypeOK'
<1> SUFFICES ASSUME TypeOK, [Next]_vars PROVE TypeOK'
  OBVIOUS
<1> USE PortsAssumption, OpenAssumption DEF TypeOK, Hdmi, Av, Bit, Mark, deviceVars
<1>1. CASE InitHdmiStatus
  BY <1>1 DEF InitHdmiStatus, ReadResult
<1>2. CASE InitAvinStatus
  BY <1>2 DEF InitAvinStatus, ReadResult, Ints
<1>3. CASE Wait
  BY <1>3 DEF Wait, statusVars
<1>4. CASE ReadAvin
  <2>1. status' \in [Av -> SUBSET Entry]
    BY <1>4 DEF ReadAvin, AvRead, Unread, Entry, Ints
  <2> QED BY <1>4, <2>1 DEF ReadAvin, ReadResult
<1>5. CASE ReadHdmi
  BY <1>5 DEF ReadHdmi, ReadResult, HdmiRead, NoCable
<1>6. CASE HandleVdin
  BY <1>6 DEF HandleVdin, statusVars
<1>7. CASE CompareAvin
  <2>1. index \in Av
    BY <1>7 DEF CompareAvin
  <2>2. PICK entry \in status[index] :
          /\ IF entry.status # m_avin_status[index]
             THEN /\ onSourceConnect(EntrySource(entry), AvPlug(entry.status))
                  /\ Mislead(<<"avin", index>>, EntrySource(entry))
             ELSE UNCHANGED <<told, misled>>
          /\ m_avin_status' = [m_avin_status EXCEPT ![index] = entry.status]
    BY <1>7 DEF CompareAvin
  <2>3. entry \in Entry
    BY <2>1, <2>2
  <2>4. m_avin_status' \in [Av -> Ints]
    BY <2>1, <2>2, <2>3 DEF Entry
  <2>5. told' \in [Source -> {"nothing", "PLUG_IN", "PLUG_OUT"}]
    BY <2>2 DEF onSourceConnect, AvPlug
  <2>6. EntrySource(entry) \in ({"avin"} \X Av) \cup {NoSource}
    BY DEF EntrySource
  <2>7. <<"avin", index>> \in {"avin"} \X Av
    BY <2>1
  <2>8. misled' \subseteq {"avin"} \X Av
    BY <2>2, <2>6, <2>7 DEF Mislead
  <2>9. status' \in [Av -> SUBSET Entry]
    BY <1>7 DEF CompareAvin, Unread
  <2> QED BY <1>7, <2>4, <2>5, <2>8, <2>9 DEF CompareAvin
<1>8. CASE CompareHdmi
  <2> DEFINE plug == HdmiPlug(hdmi_status[index])
  <2>1. told' = told \/ told' = [told EXCEPT ![<<"hdmi", index>>] = plug]
    BY <1>8 DEF CompareHdmi, onSourceConnect
  <2>2. plug \in {"nothing", "PLUG_IN", "PLUG_OUT"}
    BY DEF HdmiPlug
  <2> HIDE DEF plug
  <2>3. told' \in [Source -> {"nothing", "PLUG_IN", "PLUG_OUT"}]
    BY <2>1, <2>2
  <2> QED BY <1>8, <2>3 DEF CompareHdmi, NoCable
<1>9. CASE setTvObserver
  BY <1>9 DEF setTvObserver, loopVars, statusVars
<1>10. CASE Devices
  <2>1. CASE \E p \in Hdmi : HdmiCableChange(p)
    <3>1. PICK p \in Hdmi : HdmiCableChange(p)
      BY <2>1
    <3>2. 1 - hdmiCable[p] \in Bit
      <4>1. hdmiCable[p] = 0 \/ hdmiCable[p] = 1
        OBVIOUS
      <4> QED BY <4>1
    <3>3. hdmiCable' \in [Hdmi -> Bit]
      BY <3>1, <3>2 DEF HdmiCableChange
    <3> QED BY <3>1, <3>3 DEF HdmiCableChange, loopVars, statusVars
  <2>2. CASE \E a \in Av : AvCableChange(a)
    BY <1>10, <2>2 DEF AvCableChange, loopVars, statusVars
  <2>3. CASE VdinChange
    BY <1>10, <2>3 DEF VdinChange, loopVars, statusVars
  <2> QED BY <1>10, <2>1, <2>2, <2>3 DEF Devices
<1>11. CASE UNCHANGED vars
  BY <1>11 DEF vars, loopVars, statusVars
<1> QED
  BY <1>1, <1>2, <1>3, <1>4, <1>5, <1>6, <1>7, <1>8, <1>9, <1>10, <1>11
  DEF Next, ThreadLoop

\* Every reachable state of CTvDevicesPollDetect has the program's types.
THEOREM PollTypeCorrect == Spec => []TypeOK
<1> QED BY TypeInit, TypeNext, PTL DEF Spec

-----------------------------------------------------------------------------

\* What the reports and the readings are compared by.
PollInv ==
    TypeOK /\ ToldCompared /\ NothingTold /\ HdmiFresh /\ AvFresh /\ ReadBefore

\* Nothing is known and nobody is told at the start.
LEMMA PollInit == Init => PollInv
<1> SUFFICES ASSUME Init PROVE PollInv
  OBVIOUS
<1>1. ToldCompared
  BY DEF Init, ToldCompared
<1>2. HdmiFresh /\ AvFresh /\ ReadBefore /\ NothingTold
  BY DEF Init, HdmiFresh, AvFresh, UpToDate, ReadBefore, NothingTold
<1> QED BY <1>1, <1>2, TypeInit DEF PollInv

\* Sources are told apart by their device.
LEMMA SourceCases ==
    ASSUME NEW s \in Source
    PROVE  \/ s[1] = "hdmi" /\ s[2] \in Hdmi /\ s = <<"hdmi", s[2]>>
           \/ s[1] = "avin" /\ s[2] \in Av /\ s = <<"avin", s[2]>>
BY DEF Source

\* A step keeps the last report of every source what it was compared with.
LEMMA ToldComparedNext == PollInv /\ [Next]_vars => ToldCompared'
<1> SUFFICES ASSUME PollInv, [Next]_vars, NEW s \in Source, s \notin misled'
             PROVE  told'[s] \in {"nothing", Compared(s)'}
  BY DEF ToldCompared
<1>1. s \notin misled => told[s] \in {"nothing", Compared(s)}
  BY DEF PollInv, ToldCompared
<1>2. TypeOK /\ told \in [Source -> {"nothing", "PLUG_IN", "PLUG_OUT"}]
  BY DEF PollInv, TypeOK
<1>3. \/ s[1] = "hdmi" /\ s[2] \in Hdmi /\ s = <<"hdmi", s[2]>>
      \/ s[1] = "avin" /\ s[2] \in Av /\ s = <<"avin", s[2]>>
  BY SourceCases
<1>4. CASE UNCHANGED <<loop, index, statusVars, told, misled>>
  BY <1>1, <1>4 DEF Compared, statusVars
<1>5. CASE InitHdmiStatus \/ InitAvinStatus
  BY <1>5 DEF PollInv, NothingTold, InitHdmiStatus, InitAvinStatus
<1>6. CASE ReadAvin
  BY <1>1, <1>3, <1>6 DEF ReadAvin, Compared
<1>7. CASE ReadHdmi
  BY <1>1, <1>3, <1>7, PortsAssumption DEF ReadHdmi, Compared, Hdmi
<1>8. CASE CompareAvin
  <2> DEFINE place == <<"avin", index>>
  <2>1. index \in Av /\ m_avin_status \in [Av -> Ints]
    BY <1>2, <1>8 DEF TypeOK, CompareAvin
  <2>2. PICK entry \in status[index] :
          /\ IF entry.status # m_avin_status[index]
             THEN /\ onSourceConnect(EntrySource(entry), AvPlug(entry.status))
                  /\ Mislead(place, EntrySource(entry))
             ELSE UNCHANGED <<told, misled>>
          /\ m_avin_status' = [m_avin_status EXCEPT ![index] = entry.status]
    BY <1>8 DEF CompareAvin
  <2>3. m_avin_status'[index] = entry.status
    BY <2>1, <2>2
  <2>4. s[1] = "hdmi" => Compared(s)' = Compared(s)
    BY <1>8 DEF Compared, CompareAvin
  <2>5. s # place => Compared(s)' = Compared(s)
    <3>1. s[1] = "avin" /\ s # place => m_avin_status'[s[2]] = m_avin_status[s[2]]
      BY <1>3, <2>1, <2>2
    <3> QED BY <1>3, <2>4, <3>1 DEF Compared
  <2>6. s = place => Compared(s)' = AvPlug(entry.status)
    BY <2>3 DEF Compared
  <2>7. CASE entry.status = m_avin_status[index]
    <3>1. UNCHANGED <<told, misled>>
      BY <2>2, <2>7
    <3>2. s = place => Compared(s) = AvPlug(entry.status)
      BY <2>7 DEF Compared
    <3> QED BY <1>1, <2>5, <2>6, <3>1, <3>2
  <2>8. CASE entry.status # m_avin_status[index] /\ ~mpObserver
    BY <2>2, <2>8 DEF PollInv, NothingTold, onSourceConnect
  <2>9. CASE entry.status # m_avin_status[index] /\ mpObserver
    <3>1. onSourceConnect(EntrySource(entry), AvPlug(entry.status))
          /\ Mislead(place, EntrySource(entry))
      BY <2>2, <2>9
    <3>2. place # NoSource
      BY DEF NoSource
    <3>3. CASE EntrySource(entry) = place
      <4>1. /\ told' = [told EXCEPT ![place] = AvPlug(entry.status)]
            /\ misled' = misled \ {place}
        BY <2>9, <3>1, <3>2, <3>3 DEF onSourceConnect, Mislead
      <4>2. CASE s = place
        <5>1. told'[s] = AvPlug(entry.status)
          BY <1>2, <4>1, <4>2
        <5> QED BY <2>6, <4>2, <5>1
      <4>3. CASE s # place
        <5>1. told'[s] = told[s] /\ s \notin misled
          BY <1>2, <4>1, <4>3
        <5> QED BY <1>1, <2>5, <4>3, <5>1
      <4> QED BY <4>2, <4>3
    <3>4. CASE EntrySource(entry) # place
      <4>1. misled' = misled \cup ({place, EntrySource(entry)} \ {NoSource})
        BY <2>9, <3>1, <3>4 DEF Mislead
      <4>2. s \notin misled /\ s # place
        BY <3>2, <4>1
      <4>3. told'[s] = told[s]
        <5>1. CASE EntrySource(entry) = NoSource
          BY <3>1, <5>1 DEF onSourceConnect
        <5>2. CASE EntrySource(entry) # NoSource
          BY <1>2, <2>9, <3>1, <4>1, <5>2 DEF onSourceConnect
        <5> QED BY <5>1, <5>2
      <4> QED BY <1>1, <2>5, <4>2, <4>3
    <3> QED BY <3>3, <3>4
  <2> QED BY <2>7, <2>8, <2>9
<1>9. CASE CompareHdmi
  <2>1. index \in Hdmi /\ index' \in Nat
    BY <1>2, <1>9, PortsAssumption DEF TypeOK, CompareHdmi, Hdmi
  <2>4. s \notin misled
    BY <1>9 DEF CompareHdmi
  <2>5. <<"hdmi", index>> # NoSource
    BY DEF NoSource
  <2>2. CASE s = <<"hdmi", index>>
    <3>1. Compared(s)' = HdmiPlug(hdmi_status[index])
      BY <2>1, <2>2, <1>9, PortsAssumption DEF Compared, CompareHdmi, Hdmi
    <3>2. CASE hdmi_status[index] = m_hdmi_status[index]
      BY <1>1, <1>9, <2>1, <2>2, <2>4, <3>1, <3>2 DEF CompareHdmi, Compared, Hdmi
    <3>3. CASE hdmi_status[index] # m_hdmi_status[index] /\ mpObserver
      <4>1. told' = [told EXCEPT ![<<"hdmi", index>>] = HdmiPlug(hdmi_status[index])]
        BY <1>9, <2>5, <3>3 DEF CompareHdmi, onSourceConnect
      <4>2. told'[s] = HdmiPlug(hdmi_status[index])
        BY <1>2, <2>2, <4>1
      <4> QED BY <3>1, <4>2
    <3>4. CASE hdmi_status[index] # m_hdmi_status[index] /\ ~mpObserver
      BY <1>9, <3>4 DEF PollInv, NothingTold, CompareHdmi, onSourceConnect
    <3> QED BY <3>2, <3>3, <3>4
  <2>3. CASE s # <<"hdmi", index>>
    <3>1. told'[s] = told[s]
      BY <1>2, <1>9, <2>3 DEF CompareHdmi, onSourceConnect
    <3>2. CASE s[1] = "hdmi"
      <4>1. s[2] \in Hdmi /\ s[2] # index
        BY <1>3, <2>3, <3>2
      <4>2. Compared(s)' = Compared(s)
        BY <1>9, <2>1, <3>2, <4>1, PortsAssumption DEF CompareHdmi, Compared, Hdmi
      <4> QED BY <1>1, <2>4, <3>1, <4>2
    <3>3. CASE s[1] = "avin"
      BY <1>1, <1>9, <2>4, <3>1, <3>3 DEF CompareHdmi, Compared
    <3> QED BY <1>3, <3>2, <3>3
  <2> QED BY <2>2, <2>3
<1> QED
  BY <1>4, <1>5, <1>6, <1>7, <1>8, <1>9
  DEF Next, vars, ThreadLoop, loopVars, Wait, HandleVdin, setTvObserver, Devices,
      HdmiCableChange, AvCableChange, VdinChange, statusVars

\* A reading stays the present one until the device has news.
LEMMA HdmiFreshNext == PollInv /\ [Next]_vars => HdmiFresh'
<1> SUFFICES ASSUME PollInv, [Next]_vars, UpToDate("hdmi")', NEW p \in Hdmi
             PROVE  (IF loop = "hdmi" THEN hdmi_status[p] ELSE m_hdmi_status[p])'
                        = hdmiCable'[p]
  BY DEF HdmiFresh
<1>1. UpToDate("hdmi")
        => (IF loop = "hdmi" THEN hdmi_status[p] ELSE m_hdmi_status[p]) = hdmiCable[p]
  BY DEF PollInv, HdmiFresh
<1>2. TypeOK
  BY DEF PollInv
<1>3. CASE UNCHANGED <<hdmi_status, m_hdmi_status, hdmiCable>>
             /\ (loop = "hdmi") = (loop' = "hdmi")
             /\ UpToDate("hdmi")
  BY <1>1, <1>3
<1>4. CASE InitHdmiStatus
  BY <1>4 DEF PollInv, ReadBefore, InitHdmiStatus, Mark, UpToDate, deviceVars
<1>5. CASE InitAvinStatus
  BY <1>3, <1>5 DEF InitAvinStatus, Mark, UpToDate, deviceVars
<1>6. CASE ReadAvin
  BY <1>3, <1>6 DEF ReadAvin, Mark, UpToDate, deviceVars
<1>7. CASE ReadHdmi
  BY <1>7 DEF ReadHdmi, HdmiRead, Mark, UpToDate, deviceVars
<1>8. CASE CompareAvin
  BY <1>3, <1>8 DEF CompareAvin, UpToDate, deviceVars
<1>9. CASE CompareHdmi
  BY <1>1, <1>9 DEF CompareHdmi, UpToDate, deviceVars
<1>10. CASE \E q \in Hdmi : HdmiCableChange(q)
  BY <1>10 DEF HdmiCableChange, UpToDate
<1>11. CASE \E a \in Av : AvCableChange(a)
  BY <1>3, <1>11 DEF AvCableChange, UpToDate, loopVars, statusVars
<1>12. CASE Wait \/ HandleVdin \/ setTvObserver \/ VdinChange \/ UNCHANGED vars
  BY <1>3, <1>12 DEF Wait, HandleVdin, setTvObserver, VdinChange, vars, UpToDate, loopVars,
     statusVars, deviceVars
<1> QED
  BY <1>4, <1>5, <1>6, <1>7, <1>8, <1>9, <1>10, <1>11, <1>12 DEF Next, ThreadLoop, Devices

\* What is read of AV-in stays so as well, and one place after the other is kept.
LEMMA AvFreshNext == PollInv /\ [Next]_vars => AvFresh'
<1> DEFINE entry(a) == {[channel |-> a, status |-> avCable[a]]}
<1> SUFFICES ASSUME PollInv, [Next]_vars, UpToDate("avin")', NEW a \in Av
             PROVE  (IF loop = "avin" /\ a >= index
                     THEN status[a] = entry(a)
                     ELSE m_avin_status[a] = avCable[a])'
  BY DEF AvFresh
<1>1. UpToDate("avin")
        => IF loop = "avin" /\ a >= index
           THEN status[a] = entry(a)
           ELSE m_avin_status[a] = avCable[a]
  BY DEF PollInv, AvFresh
<1>2. TypeOK
  BY DEF PollInv
<1>3. CASE UNCHANGED <<status, m_avin_status, avCable>>
             /\ (loop = "avin") = (loop' = "avin")
             /\ (loop = "avin" => index' = index)
             /\ UpToDate("avin")
  BY <1>1, <1>3
<1>4. CASE InitHdmiStatus
  BY <1>3, <1>4 DEF InitHdmiStatus, Mark, UpToDate, deviceVars
<1>5. CASE InitAvinStatus
  BY <1>5 DEF PollInv, ReadBefore, InitAvinStatus, Mark, UpToDate, deviceVars
<1>6. CASE ReadAvin
  <2>1. "avin" \in readOk'
    BY DEF UpToDate
  <2>2. status' = AvRead(TRUE)
    BY <1>6, <2>1 DEF ReadAvin, Mark
  <2>3. status'[a] = entry(a)
    BY <2>2 DEF AvRead
  <2> QED BY <1>6, <2>3 DEF ReadAvin, deviceVars, Av
<1>7. CASE ReadHdmi
  BY <1>3, <1>7 DEF ReadHdmi, Mark, UpToDate, deviceVars
<1>8. CASE CompareAvin
  <2>1. index \in Av /\ m_avin_status \in [Av -> Ints] /\ loop = "avin" /\ UpToDate("avin")
    BY <1>2, <1>8 DEF TypeOK, CompareAvin, UpToDate
  <2>2. avCable' = avCable
    BY <1>8 DEF CompareAvin, deviceVars
  <2>3. PICK e \in status[index] :
          m_avin_status' = [m_avin_status EXCEPT ![index] = e.status]
    BY <1>8 DEF CompareAvin
  <2>4. CASE a = index
    <3>1. e = [channel |-> a, status |-> avCable[a]]
      BY <1>1, <2>1, <2>3, <2>4 DEF Av
    <3>2. m_avin_status'[a] = avCable[a]
      BY <2>1, <2>3, <2>4, <3>1
    <3>3. ~(loop' = "avin" /\ a >= index')
      BY <1>8, <2>1, <2>4 DEF CompareAvin, Av
    <3> QED BY <2>2, <3>2, <3>3
  <2>5. CASE a # index
    <3>1. m_avin_status'[a] = m_avin_status[a]
      BY <2>1, <2>3, <2>5
    <3>2. a < index => m_avin_status[a] = avCable[a]
      BY <1>1, <2>1 DEF Av
    <3>3. CASE a < index
      <4>1. ~(loop' = "avin" /\ a >= index')
        BY <1>8, <2>1, <3>3 DEF CompareAvin, Av
      <4> QED BY <2>2, <3>1, <3>2, <3>3, <4>1
    <3>4. CASE a > index
      <4>1. index # AvChannels /\ a >= index + 1
        BY <2>1, <3>4, PortsAssumption DEF Av
      <4>2. loop' = "avin" /\ index' = index + 1 /\ status' = status
        BY <1>8, <2>1, <4>1 DEF CompareAvin
      <4>3. status[a] = entry(a)
        BY <1>1, <2>1, <3>4 DEF Av
      <4> QED BY <2>2, <4>1, <4>2, <4>3
    <3> QED BY <2>1, <2>5, <3>3, <3>4 DEF Av
  <2> QED BY <2>4, <2>5
<1>9. CASE CompareHdmi
  BY <1>3, <1>9 DEF CompareHdmi, UpToDate, deviceVars
<1>10. CASE \E q \in Hdmi : HdmiCableChange(q)
  BY <1>3, <1>10 DEF HdmiCableChange, UpToDate, loopVars, statusVars
<1>11. CASE \E q \in Av : AvCableChange(q)
  BY <1>11 DEF AvCableChange, UpToDate
<1>12. CASE Wait \/ HandleVdin \/ setTvObserver \/ VdinChange \/ UNCHANGED vars
  BY <1>3, <1>12 DEF Wait, HandleVdin, setTvObserver, VdinChange, vars, UpToDate, loopVars,
     statusVars, deviceVars
<1> QED
  BY <1>4, <1>5, <1>6, <1>7, <1>8, <1>9, <1>10, <1>11, <1>12 DEF Next, ThreadLoop, Devices

\* Reports begin when the observer is set and the thread is in its loop.
LEMMA NothingToldNext == PollInv /\ [Next]_vars => NothingTold' /\ ReadBefore'
<1> SUFFICES ASSUME PollInv, [Next]_vars PROVE NothingTold' /\ ReadBefore'
  OBVIOUS
<1> USE DEF PollInv, NothingTold, ReadBefore
<1>1. CASE UNCHANGED <<loop, told, readOk, misled>> /\ (mpObserver => mpObserver')
  BY <1>1
<1>2. CASE InitHdmiStatus \/ InitAvinStatus
  BY <1>2 DEF InitHdmiStatus, InitAvinStatus, Mark
<1>3. CASE ReadAvin \/ ReadHdmi
  BY <1>3 DEF ReadAvin, ReadHdmi
<1>4. CASE CompareAvin
  BY <1>4 DEF CompareAvin, onSourceConnect, Mislead
<1>5. CASE CompareHdmi
  BY <1>5 DEF CompareHdmi, onSourceConnect
<1> QED
  BY <1>1, <1>2, <1>3, <1>4, <1>5
  DEF Next, vars, ThreadLoop, loopVars, Wait, HandleVdin, setTvObserver, Devices,
      HdmiCableChange, AvCableChange, VdinChange

\* Each step keeps what relates the reports, the readings and the cables.
LEMMA PollNext == PollInv /\ [Next]_vars => PollInv'
BY TypeNext, ToldComparedNext, HdmiFreshNext, AvFreshNext, NothingToldNext DEF PollInv

\* The inductive invariant holds in every reachable state.
THEOREM PollInvariant == Spec => []PollInv
<1> QED BY PollInit, PollNext, PTL DEF Spec

\* Once the thread has caught up with a device, the last report of each of its
\* sources is what GetSourceConnectStatus answers, whatever a failed read has left
\* in the array; only a source it misled about is left wrong.
THEOREM ReportsAreRight == Spec => []ReportsMatchQueries
<1>1. PollInv => ReportsMatchQueries
  <2> SUFFICES ASSUME PollInv, NEW s \in Source, Settled(s[1]), s \notin misled
               PROVE  told[s] \in {"nothing", GetSourceConnectStatus(s)}
    BY DEF ReportsMatchQueries
  <2>1. told[s] \in {"nothing", Compared(s)}
    BY DEF PollInv, ToldCompared
  <2>2. UpToDate(s[1]) /\ loop # s[1]
    BY DEF Settled, UpToDate
  <2>3. Compared(s) = GetSourceConnectStatus(s)
    <3>1. CASE s[1] = "hdmi" /\ s[2] \in Hdmi
      BY <2>2, <3>1 DEF PollInv, HdmiFresh, Compared, GetSourceConnectStatus
    <3>2. CASE s[1] = "avin" /\ s[2] \in Av
      BY <2>2, <3>2 DEF PollInv, AvFresh, Compared, GetSourceConnectStatus
    <3> QED BY <3>1, <3>2, SourceCases
  <2> QED BY <2>1, <2>3
<1> QED BY <1>1, PollInvariant, PTL

\* No HDMI port is reported twice running with the same plug, and no AV channel
\* as plugged in from its own place.
THEOREM ReportsChange == Spec => ReportsAreNews
<1> DEFINE News ==
      /\ CompareHdmi /\ mpObserver /\ hdmi_status[index] # m_hdmi_status[index]
            => told' # told
      /\ CompareAvin /\ mpObserver /\ m_avin_status[index] # "IN"
              /\ m_avin_status'[index] = "IN"
              /\ <<"avin", index>> \notin misled \cup misled'
            => told' # told
<1>1. PollInv => News
  <2> SUFFICES ASSUME PollInv PROVE News
    OBVIOUS
  <2>1. ASSUME CompareHdmi, mpObserver, hdmi_status[index] # m_hdmi_status[index]
        PROVE  told' # told
    <3> DEFINE s == <<"hdmi", index>>
    <3>1. index \in Hdmi /\ s \in Source /\ told \in [Source -> {"nothing", "PLUG_IN", "PLUG_OUT"}]
      BY <2>1 DEF PollInv, TypeOK, CompareHdmi, Source
    <3>2. CASE s \in misled
      BY <3>2 DEF PollInv, TypeOK
    <3>3. CASE s \notin misled
      <4>1. told[s] \in {"nothing", HdmiPlug(m_hdmi_status[index])}
        BY <2>1, <3>1, <3>3, PortsAssumption
        DEF PollInv, ToldCompared, Compared, CompareHdmi, Hdmi
      <4>2. told'[s] = HdmiPlug(hdmi_status[index])
        BY <2>1, <3>1 DEF CompareHdmi, onSourceConnect, NoSource
      <4>3. HdmiPlug(hdmi_status[index]) \notin {"nothing", HdmiPlug(m_hdmi_status[index])}
        BY <2>1, <3>1 DEF PollInv, TypeOK, Bit, HdmiPlug
      <4> QED BY <4>1, <4>2, <4>3
    <3> QED BY <3>2, <3>3
  <2>2. ASSUME CompareAvin, mpObserver, m_avin_status[index] # "IN",
               m_avin_status'[index] = "IN", <<"avin", index>> \notin misled \cup misled'
        PROVE  told' # told
    <3> DEFINE s == <<"avin", index>>
    <3>1. index \in Av /\ s \in Source
          /\ told \in [Source -> {"nothing", "PLUG_IN", "PLUG_OUT"}]
          /\ m_avin_status \in [Av -> Ints]
      BY <2>2 DEF PollInv, TypeOK, CompareAvin, Source
    <3>2. told[s] \in {"nothing", "PLUG_OUT"}
      BY <2>2, <3>1 DEF PollInv, ToldCompared, Compared, AvPlug
    <3>3. PICK entry \in status[index] :
            /\ IF entry.status # m_avin_status[index]
               THEN /\ onSourceConnect(EntrySource(entry), AvPlug(entry.status))
                    /\ Mislead(s, EntrySource(entry))
               ELSE UNCHANGED <<told, misled>>
            /\ m_avin_status' = [m_avin_status EXCEPT ![index] = entry.status]
      BY <2>2 DEF CompareAvin
    <3>4. entry.status = "IN"
      BY <2>2, <3>1, <3>3
    <3>5. Mislead(s, EntrySource(entry))
          /\ onSourceConnect(EntrySource(entry), AvPlug(entry.status))
      BY <2>2, <3>3, <3>4
    <3>6. s # NoSource
      BY DEF NoSource
    <3>7. EntrySource(entry) = s
      BY <2>2, <3>5, <3>6 DEF Mislead
    <3>8. told'[s] = "PLUG_IN"
      BY <2>2, <3>1, <3>4, <3>5, <3>6, <3>7 DEF onSourceConnect, AvPlug
    <3> QED BY <3>2, <3>8
  <2> QED BY <2>1, <2>2
<1>2. Spec => [][News]_vars
  BY <1>1, PollInvariant, PTL DEF Spec
<1> QED BY <1>2 DEF ReportsAreNews

=============================================================================

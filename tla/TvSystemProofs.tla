---------------------------- MODULE TvSystemProofs ----------------------------
(***************************************************************************)
(* Theorems about CTv (TvCore), and about the service that is composed of  *)
(* it, the callback registry and the clients (TvSystem), for every set of  *)
(* clients, sources, signals, commands and failing driver calls.           *)
(***************************************************************************)
EXTENDS TvSystem, TLAPS

-----------------------------------------------------------------------------
(***************************************************************************)
(* CTv: types, bounds, and what its commands leave of the decoder and the  *)
(* display.                                                                *)
(***************************************************************************)

\* The records that Init and the returns assign have their types.
LEMMA NullTypes ==
    /\ NullInfo \in SigInfo
    /\ NoEvent \in SignalEvent
    /\ NoCommand \in Command
    /\ [NoCommand EXCEPT !.name = "StopTv"] \in Command
  BY EdidAssumption DEF NullInfo, NoEvent, NoCommand, SigInfo, SigFmt, SigStatus, AnySource,
                        SignalEvent, Command, CommandName

\* The records keep their type when a step assigns one of their fields.
LEMMA InfoUpdate ==
    ASSUME NEW i \in SigInfo, NEW j \in SigInfo
    PROVE  /\ [i EXCEPT !.fmt = j.fmt] \in SigInfo
           /\ [i EXCEPT !.hdr_info = j.hdr_info] \in SigInfo
           /\ [i EXCEPT !.aspect_ratio = j.aspect_ratio] \in SigInfo
  BY DEF SigInfo

\* ... so does the event, filled field by field,
LEMMA EventUpdate ==
    ASSUME NEW e \in SignalEvent, NEW i \in SigInfo, NEW source \in AnySource
    PROVE  /\ [e EXCEPT !.source = source] \in SignalEvent
           /\ [e EXCEPT !.fmt = i.fmt] \in SignalEvent
           /\ [e EXCEPT !.status = i.status] \in SignalEvent
  BY DEF SignalEvent, SigInfo

\* ... the command that begins, for every input and version,
LEMMA CommandUpdate ==
    ASSUME NEW source \in Sources, NEW version \in EdidVersions
    PROVE  /\ source \in AnySource
           /\ [NoCommand EXCEPT !.name = "StartTv", !.source = source] \in Command
           /\ [name |-> "SetEdidVersion", source |-> source, version |-> version] \in Command
  BY NullTypes, SourcesAssumption DEF Command, AnySource, CommandName, NoCommand

\* ... and the display, whatever is switched in it.
LEMMA DisplayUpdate ==
    ASSUME NEW d \in Display, NEW on \in BOOLEAN
    PROVE  /\ [d EXCEPT !.layer = on] \in Display
           /\ [d EXCEPT !.output = on] \in Display
           /\ [d EXCEPT !.color = "blue"] \in Display
           /\ [d EXCEPT !.color = "off"] \in Display
           /\ [d EXCEPT !.color = "blue", !.freerunMode = "0"] \in Display
           /\ [d EXCEPT !.tsyncEnable = "0", !.tsyncMode = "0"] \in Display
           /\ [d EXCEPT !.screenMode = "full", !.snow = TRUE] \in Display
           /\ d.screenMode \in {"user", "full"}
  BY DEF Display

\* The constructors leave a well-typed state.
LEMMA TypeInit == Init => TypeOK
  <1> SUFFICES ASSUME Init PROVE TypeOK
    OBVIOUS
  <1> USE DEF Init
  <1>1. PcTypeOK
    BY DEF PcTypeOK, Label
  <1>2. LocalTypeOK
    BY NullTypes DEF LocalTypeOK, Handler
  <1>3. TvTypeOK
    BY NullTypes, SourcesAssumption DEF TvTypeOK, AnySource
  <1>4. DriverTypeOK
    BY NullTypes DEF DriverTypeOK
  <1>5. DecoderTypeOK /\ DeviceTypeOK /\ HistoryTypeOK
    BY DEF DecoderTypeOK, DeviceTypeOK, HistoryTypeOK, Display
  <1>6. EdidTypeOK
    BY EdidAssumption DEF EdidTypeOK
  <1> QED
    BY <1>1, <1>2, <1>3, <1>4, <1>5, <1>6 DEF TypeOK

DataTypeOK == LocalTypeOK /\ TvTypeOK /\ DriverTypeOK /\ DecoderTypeOK /\ EdidTypeOK
                 /\ DeviceTypeOK /\ HistoryTypeOK

\* A thread goes to steps of the code only.
LEMMA GotoType ==
    ASSUME PcTypeOK, NEW t \in Thread, NEW l \in Label, Goto(t, l) PROVE PcTypeOK'
  BY DEF PcTypeOK, Goto

\* Every step of the code and of the driver keeps the types.
LEMMA TypeNext == TypeOK /\ [Next]_vars => TypeOK'
  <1> SUFFICES ASSUME PcTypeOK, DataTypeOK, [Next]_vars PROVE PcTypeOK' /\ DataTypeOK'
    BY DEF TypeOK, DataTypeOK
  <1> USE NullTypes
      DEF DataTypeOK, LocalTypeOK, TvTypeOK, DriverTypeOK, DecoderTypeOK, EdidTypeOK,
          DeviceTypeOK, HistoryTypeOK, tvVars, driverVars, decoderVars, edidVars, deviceVars
  <1>1. CASE \E source \in Sources : StartTvBegin(source)
    <2>1. PcTypeOK'
      BY <1>1, GotoType DEF StartTvBegin, Thread, Label
    <2>2. PICK source \in Sources : StartTvBegin(source)
      BY <1>1
    <2>3. command' \in Command
      BY <2>2, CommandUpdate, EdidAssumption DEF StartTvBegin
    <2>4. display' \in Display
      BY <2>2, DisplayUpdate DEF StartTvBegin
    <2>5. /\ UNCHANGED <<handler, tempSignalInfo, event, tvVars, driverVars, decoderVars, edidVars,
                         audioPatch, lost>>
          /\ quietStop' = FALSE
      BY <2>2 DEF StartTvBegin
    <2>6. LocalTypeOK' /\ TvTypeOK' /\ DriverTypeOK' /\ EdidTypeOK'
      BY <2>3, <2>5
    <2>7. DecoderTypeOK' /\ DeviceTypeOK' /\ HistoryTypeOK'
      BY <2>4, <2>5
    <2> QED
      BY <2>1, <2>6, <2>7
  <1>2. CASE StartTvOpenPort
    <2>1. PcTypeOK'
      BY <1>2, GotoType DEF StartTvOpenPort, Thread, Label
    <2>2. DataTypeOK'
      BY <1>2 DEF StartTvOpenPort, MaySucceedOrFail, Command
    <2> QED
      BY <2>1, <2>2
  <1>3. CASE StartTvSetSource
    <2>1. PcTypeOK'
      BY <1>3, GotoType DEF StartTvSetSource, Thread, Label
    <2>2. DataTypeOK'
      BY <1>3 DEF StartTvSetSource, Command
    <2> QED
      BY <2>1, <2>2
  <1>4. CASE StopTvBegin
    <2>1. PcTypeOK'
      BY <1>4, GotoType DEF StopTvBegin, Thread, Label
    <2>2. command' \in Command /\ display' \in Display
      BY <1>4, DisplayUpdate DEF StopTvBegin
    <2>3. audioPatch' \in {"null", "garbage", "live", "released"}
      BY <1>4 DEF StopTvBegin
    <2>4. DataTypeOK'
      BY <1>4, <2>2, <2>3 DEF StopTvBegin, At
    <2> QED
      BY <2>1, <2>4
  <1>5. CASE StopTvOutputOff
    <2>1. PcTypeOK'
      BY <1>5, GotoType DEF StopTvOutputOff, Thread, Label
    <2>2. display' \in Display
      BY <1>5, DisplayUpdate DEF StopTvOutputOff
    <2>3. DataTypeOK'
      BY <1>5, <2>2 DEF StopTvOutputOff
    <2> QED
      BY <2>1, <2>3
  <1>6. CASE StopTvClosePort
    <2>1. PcTypeOK'
      BY <1>6, GotoType DEF StopTvClosePort, Thread, Label
    <2>2. DataTypeOK'
      BY <1>6 DEF StopTvClosePort
    <2> QED
      BY <2>1, <2>2
  <1>7. CASE StopTvClearSource
    <2>1. PcTypeOK'
      BY <1>7, GotoType DEF StopTvClearSource, Thread, Label
    <2>2. DataTypeOK'
      BY <1>7 DEF StopTvClearSource, AnySource
    <2> QED
      BY <2>1, <2>2
  <1>8. CASE StopTvResetFmt
    <2>1. PcTypeOK'
      BY <1>8, GotoType DEF StopTvResetFmt, Thread, Label
    <2>2. mCurrentSignalInfo' \in SigInfo
      BY <1>8, InfoUpdate DEF StopTvResetFmt
    <2>3. DataTypeOK'
      BY <1>8, <2>2 DEF StopTvResetFmt
    <2> QED
      BY <2>1, <2>3
  <1>9. CASE StopTvResetStatus
    <2>1. PcTypeOK'
      BY <1>9, GotoType DEF StopTvResetStatus, Thread, Label
    <2>2. mCurrentSignalInfo' \in SigInfo
      BY <1>9, InfoUpdate DEF StopTvResetStatus
    <2>3. DataTypeOK'
      BY <1>9, <2>2 DEF StopTvResetStatus, EventFlag
    <2> QED
      BY <2>1, <2>3
  <1>10. CASE \E source \in Sources, version \in EdidVersions : SetEdidVersionBegin(source, version)
    <2>1. PcTypeOK'
      BY <1>10, GotoType DEF SetEdidVersionBegin, Thread, Label
    <2>2. command' \in Command
      BY <1>10, CommandUpdate DEF SetEdidVersionBegin
    <2>3. DataTypeOK'
      BY <1>10, <2>2 DEF SetEdidVersionBegin
    <2> QED
      BY <2>1, <2>3
  <1>11. CASE SetEdidVersionSwitch
    <2>1. PcTypeOK'
      BY <1>11, GotoType DEF SetEdidVersionSwitch, Thread, Label
    <2>2. DataTypeOK'
      BY <1>11 DEF SetEdidVersionSwitch, Command
    <2> QED
      BY <2>1, <2>2
  <1>12. CASE PollWake
    <2>1. PcTypeOK'
      BY <1>12, GotoType DEF PollWake, Thread, Label
    <2>2. DataTypeOK'
      BY <1>12 DEF PollWake
    <2> QED
      BY <2>1, <2>2
  <1>13. CASE GetSignalEventInfo
    <2>1. PcTypeOK'
      BY <1>13, GotoType DEF GetSignalEventInfo, Thread, Label
    <2>2. DataTypeOK'
      BY <1>13 DEF GetSignalEventInfo, EventHandler, Handler
    <2> QED
      BY <2>1, <2>2
  <1>14. CASE GetSignalInfo
    <2>1. PcTypeOK'
      BY <1>14, GotoType DEF GetSignalInfo, Thread, Label
    <2>2. /\ tempSignalInfo' \in SigInfo
          /\ handler' \in Handler
      BY <1>14 DEF GetSignalInfo, Handler
    <2>3. lost' \subseteq EventFlag
      BY <1>14 DEF GetSignalInfo, FlagOf, EventFlag
    <2>4. DataTypeOK'
      BY <1>14, <2>2, <2>3 DEF GetSignalInfo
    <2> QED
      BY <2>1, <2>4
  <1>15. CASE CheckStatus
    <2>1. PcTypeOK'
      BY <1>15, GotoType DEF CheckStatus, Thread, Label, HandlerReturns
    <2>2. DataTypeOK'
      BY <1>15 DEF CheckStatus, HandlerReturns, Handler
    <2> QED
      BY <2>1, <2>2
  <1>16. CASE SetField
    <2>1. PcTypeOK'
      BY <1>16, GotoType DEF SetField, Thread, Label, HandlerReturns
    <2>3. mCurrentSignalInfo' \in SigInfo
      BY <1>16, InfoUpdate DEF SetField
    <2>2. DataTypeOK'
      BY <1>16, <2>3 DEF SetField, HandlerReturns, Handler
    <2> QED
      BY <2>1, <2>2
  <1>17. CASE SetInfoFmt
    <2>1. PcTypeOK'
      BY <1>17, GotoType DEF SetInfoFmt, Thread, Label
    <2>2. mCurrentSignalInfo' \in SigInfo
      BY <1>17, InfoUpdate DEF SetInfoFmt
    <2>3. DataTypeOK'
      BY <1>17, <2>2 DEF SetInfoFmt
    <2> QED
      BY <2>1, <2>3
  <1>18. CASE SetInfoStatus
    <2>1. PcTypeOK'
      BY <1>18, GotoType DEF SetInfoStatus, Thread, Label
    <2>2. mCurrentSignalInfo' \in SigInfo
      BY <1>18, InfoUpdate DEF SetInfoStatus
    <2>3. DataTypeOK'
      BY <1>18, <2>2 DEF SetInfoStatus
    <2> QED
      BY <2>1, <2>3
  <1>19. CASE Dispatch
    <2>1. PcTypeOK'
      BY <1>19, GotoType DEF Dispatch, Thread, Label
    <2>2. DataTypeOK'
      BY <1>19 DEF Dispatch, Handler
    <2> QED
      BY <2>1, <2>2
  <1>20. CASE SetSnowShowEnable
    <2>1. PcTypeOK'
      BY <1>20, GotoType DEF SetSnowShowEnable, Thread, Label
    <2>2. display' \in Display
      BY <1>20, DisplayUpdate DEF SetSnowShowEnable
    <2>3. mLastScreenMode' \in {"unset", "user", "full"}
      BY <1>20 DEF SetSnowShowEnable, Display
    <2>4. DataTypeOK'
      BY <1>20, <2>2, <2>3 DEF SetSnowShowEnable
    <2> QED
      BY <2>1, <2>4
  <1>21. CASE LayerOn
    <2>1. PcTypeOK'
      BY <1>21, GotoType DEF LayerOn, Thread, Label
    <2>2. display' \in Display
      BY <1>21, DisplayUpdate DEF LayerOn
    <2>3. DataTypeOK'
      BY <1>21, <2>2 DEF LayerOn
    <2> QED
      BY <2>1, <2>3
  <1>22. CASE OutputOn
    <2>1. PcTypeOK'
      BY <1>22, GotoType DEF OutputOn, Thread, Label
    <2>2. display' \in Display
      BY <1>22, DisplayUpdate DEF OutputOn
    <2>3. DataTypeOK'
      BY <1>22, <2>2 DEF OutputOn
    <2> QED
      BY <2>1, <2>3
  <1>23. CASE ColorOff
    <2>1. PcTypeOK'
      BY <1>23, GotoType DEF ColorOff, Thread, Label
    <2>2. display' \in Display
      BY <1>23, DisplayUpdate DEF ColorOff
    <2>3. DataTypeOK'
      BY <1>23, <2>2 DEF ColorOff
    <2> QED
      BY <2>1, <2>3
  <1>24. CASE StartDecoderTest
    <2>1. PcTypeOK'
      BY <1>24, GotoType DEF StartDecoderTest, Thread, Label
    <2>2. overlapped' \in BOOLEAN /\ UNCHANGED <<mDecoderStarted, decoding, stopFailed>>
      BY <1>24 DEF StartDecoderTest
    <2>3. DataTypeOK'
      BY <1>24, <2>2 DEF StartDecoderTest
    <2> QED
      BY <2>1, <2>3
  <1>25. CASE StartDecoderIoctl
    <2>1. PcTypeOK'
      BY <1>25, GotoType DEF StartDecoderIoctl, Thread, Label
    <2>2. DataTypeOK'
      BY <1>25 DEF StartDecoderIoctl, MaySucceedOrFail
    <2> QED
      BY <2>1, <2>2
  <1>26. CASE StartDecoderFlag
    <2>1. PcTypeOK'
      BY <1>26, GotoType DEF StartDecoderFlag, Thread, Label
    <2>2. DataTypeOK'
      BY <1>26 DEF StartDecoderFlag, At
    <2> QED
      BY <2>1, <2>2
  <1>27. CASE EventSource
    <2>1. PcTypeOK'
      BY <1>27, GotoType DEF EventSource, Thread, Label
    <2>2. event' \in SignalEvent
      BY <1>27, EventUpdate DEF EventSource
    <2>3. DataTypeOK'
      BY <1>27, <2>2 DEF EventSource
    <2> QED
      BY <2>1, <2>3
  <1>28. CASE EventFmt
    <2>1. PcTypeOK'
      BY <1>28, GotoType DEF EventFmt, Thread, Label
    <2>2. event' \in SignalEvent
      BY <1>28, EventUpdate DEF EventFmt
    <2>3. DataTypeOK'
      BY <1>28, <2>2 DEF EventFmt
    <2> QED
      BY <2>1, <2>3
  <1>29. CASE EventStatus
    <2>1. PcTypeOK'
      BY <1>29, GotoType DEF EventStatus, Thread, Label
    <2>2. event' \in SignalEvent
      BY <1>29, EventUpdate DEF EventStatus
    <2>3. DataTypeOK'
      BY <1>29, <2>2 DEF EventStatus
    <2> QED
      BY <2>1, <2>3
  <1>30. CASE SendTvEvent
    <2>1. PcTypeOK'
      BY <1>30, GotoType DEF SendTvEvent, Thread, Label, HandlerReturns
    <2>2. DataTypeOK'
      BY <1>30 DEF SendTvEvent, HandlerReturns, Handler
    <2> QED
      BY <2>1, <2>2
  <1>31. CASE \E u \in Thread : StopDecoderTest(u)
    <2>1. PcTypeOK'
      BY <1>31, GotoType DEF StopDecoderTest, Thread, Label, AfterStopDecoder
    <2>2. DataTypeOK'
      BY <1>31 DEF StopDecoderTest, AfterStopDecoder
    <2> QED
      BY <2>1, <2>2
  <1>32. CASE \E u \in Thread : StopDecoderIoctl(u)
    <2>1. PcTypeOK'
      BY <1>32, GotoType DEF StopDecoderIoctl, Thread, Label
    <2>2. DataTypeOK'
      BY <1>32 DEF StopDecoderIoctl, MaySucceedOrFail
    <2> QED
      BY <2>1, <2>2
  <1>33. CASE \E u \in Thread : StopDecoderFlag(u)
    <2>1. PcTypeOK'
      BY <1>33, GotoType DEF StopDecoderFlag, Thread, Label, AfterStopDecoder
    <2>2. DataTypeOK'
      BY <1>33 DEF StopDecoderFlag, AfterStopDecoder
    <2> QED
      BY <2>1, <2>2
  <1>34. CASE OtherChange
    <2>1. PcTypeOK'
      BY <1>34 DEF OtherChange, PcTypeOK, threadVars
    <2>2. DataTypeOK'
      BY <1>34 DEF OtherChange, EventFlag, threadVars
    <2> QED
      BY <2>1, <2>2
  <1>35. CASE \E s \in Signals : SignalChange(s)
    <2>1. PcTypeOK'
      BY <1>35 DEF SignalChange, PcTypeOK, threadVars
    <2>2. DataTypeOK'
      BY <1>35, SignalsAssumption DEF SignalChange, EventFlag, threadVars
    <2> QED
      BY <2>1, <2>2
  <1>36. CASE ReadSourceType
    <2>1. PcTypeOK'
      BY <1>36, GotoType DEF ReadSourceType, Thread, Label
    <2>2. DataTypeOK'
      BY <1>36 DEF ReadSourceType, Handler, EventFlag
    <2> QED
      BY <2>1, <2>2
  <1>37. CASE CompareField
    <2>1. PcTypeOK'
      BY <1>37, GotoType DEF CompareField, Thread, Label, HandlerReturns
    <2>2. DataTypeOK'
      BY <1>37 DEF CompareField, HandlerReturns, Handler
    <2> QED
      BY <2>1, <2>2
  <1>38. CASE needSnowEffect
    <2>1. PcTypeOK'
      BY <1>38, GotoType DEF needSnowEffect, Thread, Label
    <2>2. DataTypeOK'
      BY <1>38 DEF needSnowEffect, Handler
    <2> QED
      BY <2>1, <2>2
  <1>39. CASE UNCHANGED vars
    BY <1>39 DEF vars, threadVars, PcTypeOK
  <1> QED
    BY <1>1, <1>2, <1>3, <1>4, <1>5, <1>6, <1>7, <1>8, <1>9, <1>10, <1>11, <1>12, <1>13, <1>14,
       <1>15, <1>16, <1>17, <1>18, <1>19, <1>20, <1>21, <1>22, <1>23, <1>24, <1>25, <1>26,
       <1>27, <1>28, <1>29, <1>30, <1>31, <1>32, <1>33, <1>34, <1>35, <1>36, <1>37, <1>38, <1>39
       DEF Next, CommandBegin, CommandStep, PollStep, Driver, Thread

\* Every reachable state is well typed.
THEOREM TypeCorrect == Spec => []TypeOK
  BY TypeInit, TypeNext, PTL DEF Spec

-----------------------------------------------------------------------------

\* The decoder calls are the only steps that touch the flag or the driver's
\* decoder: every other step leaves them alone and enters or leaves no call.
LEMMA DecoderFrame ==
    ASSUME PcTypeOK, DecoderInv, UNCHANGED decoderVars,
           NEW t \in Thread, NEW l \in Label, Goto(t, l),
           pc[t] \notin {"stopIoctl", "stoppedFlag", "startIoctl", "startedFlag", "startFailedFlag"},
           l \notin {"stopIoctl", "stoppedFlag", "startIoctl", "startedFlag", "startFailedFlag"}
    PROVE  DecoderInv'
  <1>1. \A u \in Thread : InDecoderCall(u)' <=> InDecoderCall(u)
    BY DEF InDecoderCall, Goto, PcTypeOK
  <1>2. \A u \in Thread, m \in {"stopIoctl", "stoppedFlag", "startIoctl", "startedFlag", "startFailedFlag"} :
           At(u, m)' <=> At(u, m)
    BY DEF At, Goto, PcTypeOK
  <1> QED
    BY <1>1, <1>2 DEF DecoderInv, decoderVars, Thread

\* The steps of the two threads outside the decoder calls.
OtherCommandStep ==
    \/ CommandBegin
    \/ StartTvOpenPort \/ StartTvSetSource
    \/ StopTvOutputOff \/ StopTvClosePort \/ StopTvClearSource
    \/ StopTvResetFmt \/ StopTvResetStatus
    \/ SetEdidVersionSwitch

OtherPollStep ==
    \/ PollWake \/ GetSignalEventInfo \/ ReadSourceType \/ GetSignalInfo
    \/ CheckStatus \/ CompareField \/ SetField
    \/ SetInfoFmt \/ SetInfoStatus \/ Dispatch \/ needSnowEffect \/ SetSnowShowEnable
    \/ LayerOn \/ OutputOn \/ ColorOff
    \/ EventSource \/ EventFmt \/ EventStatus \/ SendTvEvent

\* Their labels lie outside the decoder calls.
PlainLabel == Label \ {"stopIoctl", "stoppedFlag", "startIoctl", "startedFlag", "startFailedFlag"}

\* A command outside the decoder calls stays outside and leaves the decoder alone,
LEMMA CommandPlain ==
    OtherCommandStep =>
        /\ UNCHANGED decoderVars
        /\ pc["cmd"] \in PlainLabel
        /\ \E l \in PlainLabel : Goto("cmd", l)
  BY DEF OtherCommandStep, CommandBegin, StartTvBegin, StopTvBegin, SetEdidVersionBegin,
         StartTvOpenPort, StartTvSetSource, StopTvOutputOff, StopTvClosePort,
         StopTvClearSource, StopTvResetFmt, StopTvResetStatus, SetEdidVersionSwitch,
         PlainLabel, Label, At

\* ... and so does the poll thread.
LEMMA PollPlain ==
    OtherPollStep =>
        /\ UNCHANGED decoderVars
        /\ pc["poll"] \in PlainLabel
        /\ \E l \in PlainLabel : Goto("poll", l)
  <1> SUFFICES ASSUME OtherPollStep
               PROVE  /\ UNCHANGED decoderVars
                      /\ pc["poll"] \in PlainLabel
                      /\ \E l \in PlainLabel : Goto("poll", l)
    OBVIOUS
  <1> USE DEF PlainLabel, Label, At, HandlerReturns
  <1>1. CASE PollWake
    BY <1>1 DEF PollWake
  <1>2. CASE GetSignalEventInfo
    BY <1>2 DEF GetSignalEventInfo
  <1>3. CASE GetSignalInfo
    BY <1>3 DEF GetSignalInfo
  <1>4. CASE CheckStatus
    BY <1>4 DEF CheckStatus
  <1>5. CASE SetField
    BY <1>5 DEF SetField
  <1>6. CASE SetInfoFmt
    BY <1>6 DEF SetInfoFmt
  <1>7. CASE SetInfoStatus
    BY <1>7 DEF SetInfoStatus
  <1>8. CASE Dispatch
    BY <1>8 DEF Dispatch
  <1>9. CASE SetSnowShowEnable
    BY <1>9 DEF SetSnowShowEnable
  <1>10. CASE LayerOn
    BY <1>10 DEF LayerOn
  <1>11. CASE OutputOn
    BY <1>11 DEF OutputOn
  <1>12. CASE ColorOff
    BY <1>12 DEF ColorOff
  <1>13. CASE EventSource
    BY <1>13 DEF EventSource
  <1>14. CASE EventFmt
    BY <1>14 DEF EventFmt
  <1>15. CASE EventStatus
    BY <1>15 DEF EventStatus
  <1>16. CASE SendTvEvent
    BY <1>16 DEF SendTvEvent
  <1>17. CASE ReadSourceType
    BY <1>17 DEF ReadSourceType
  <1>18. CASE CompareField
    BY <1>18 DEF CompareField
  <1>19. CASE needSnowEffect
    BY <1>19 DEF needSnowEffect
  <1> QED
    BY <1>1, <1>2, <1>3, <1>4, <1>5, <1>6, <1>7, <1>8, <1>9, <1>10, <1>11, <1>12, <1>13,
       <1>14, <1>15, <1>16, <1>17, <1>18, <1>19
       DEF OtherPollStep

\* The decoder is stopped when the service starts.
LEMMA DecoderInit == Init => DecoderInv
  BY DEF Init, DecoderInv, InDecoderCall, At, Thread

\* Each step keeps what is known of the flag and the driver's decoder.
LEMMA DecoderNext == TypeOK /\ DecoderInv /\ [Next]_vars => DecoderInv'
  <1> SUFFICES ASSUME PcTypeOK, DecoderTypeOK, DecoderInv, [Next]_vars PROVE DecoderInv'
    BY DEF TypeOK
  <1> USE DEF Thread
  <1>1. CASE OtherCommandStep
    BY <1>1, CommandPlain, DecoderFrame DEF PlainLabel
  <1>2. CASE OtherPollStep
    BY <1>2, PollPlain, DecoderFrame DEF PlainLabel
  <1>3. ASSUME NEW t \in Thread, StopDecoderTest(t) PROVE DecoderInv'
    BY <1>3 DEF StopDecoderTest, DecoderInv, PcTypeOK, DecoderTypeOK, Goto, At, InDecoderCall,
                Other, AfterStopDecoder
  <1>4. ASSUME NEW t \in Thread, StopDecoderIoctl(t) PROVE DecoderInv'
    BY <1>4 DEF StopDecoderIoctl, DecoderInv, PcTypeOK, DecoderTypeOK, Goto, At, InDecoderCall,
                MaySucceedOrFail
  <1>5. ASSUME NEW t \in Thread, StopDecoderFlag(t) PROVE DecoderInv'
    BY <1>5 DEF StopDecoderFlag, DecoderInv, PcTypeOK, DecoderTypeOK, Goto, At, InDecoderCall,
                AfterStopDecoder
  <1>6. CASE StartDecoderTest
    BY <1>6 DEF StartDecoderTest, DecoderInv, PcTypeOK, DecoderTypeOK, Goto, At, InDecoderCall
  <1>7. CASE StartDecoderIoctl
    BY <1>7 DEF StartDecoderIoctl, DecoderInv, PcTypeOK, DecoderTypeOK, Goto, At, InDecoderCall,
                MaySucceedOrFail
  <1>8. CASE StartDecoderFlag
    BY <1>8 DEF StartDecoderFlag, DecoderInv, PcTypeOK, DecoderTypeOK, Goto, At, InDecoderCall
  <1>9. CASE Driver
    BY <1>9 DEF Driver, OtherChange, SignalChange, threadVars, decoderVars, DecoderInv, At,
                InDecoderCall
  <1>10. CASE UNCHANGED vars
    BY <1>10 DEF vars, threadVars, decoderVars, DecoderInv, At, InDecoderCall
  <1> QED
    BY <1>1, <1>2, <1>3, <1>4, <1>5, <1>6, <1>7, <1>8, <1>9, <1>10
       DEF Next, CommandStep, PollStep, OtherCommandStep, OtherPollStep

\* mDecoderStarted agrees with the driver whenever no thread is inside
\* Tvin_StartDecoder or Tvin_StopDecoder, unless two calls overlapped or a
\* STOP_DEC failed.
THEOREM DecoderFlagCorrect == Spec => []DecoderFlagTruth
  <1>1. DecoderInv => DecoderFlagTruth
    BY DEF DecoderInv, DecoderFlagTruth
  <1> QED
    BY <1>1, TypeInit, TypeNext, DecoderInit, DecoderNext, PTL DEF Spec

-----------------------------------------------------------------------------

\* The poll thread and the driver leave the command alone, and the command
\* thread the poll thread's locals.
LEMMA PollFrame ==
    PcTypeOK /\ (PollStep \/ Driver) =>
        UNCHANGED command /\ pc'["cmd"] = pc["cmd"]
  <1> SUFFICES ASSUME PcTypeOK, PollStep \/ Driver
               PROVE  UNCHANGED command /\ pc'["cmd"] = pc["cmd"]
    OBVIOUS
  <1> USE DEF PcTypeOK, Goto, HandlerReturns, Thread
  <1>1. CASE PollWake
    BY <1>1 DEF PollWake
  <1>2. CASE GetSignalEventInfo
    BY <1>2 DEF GetSignalEventInfo
  <1>3. CASE GetSignalInfo
    BY <1>3 DEF GetSignalInfo
  <1>4. CASE CheckStatus
    BY <1>4 DEF CheckStatus
  <1>5. CASE SetField
    BY <1>5 DEF SetField
  <1>6. CASE SetInfoFmt
    BY <1>6 DEF SetInfoFmt
  <1>7. CASE SetInfoStatus
    BY <1>7 DEF SetInfoStatus
  <1>8. CASE Dispatch
    BY <1>8 DEF Dispatch
  <1>9. CASE SetSnowShowEnable
    BY <1>9 DEF SetSnowShowEnable
  <1>10. CASE LayerOn
    BY <1>10 DEF LayerOn
  <1>11. CASE OutputOn
    BY <1>11 DEF OutputOn
  <1>12. CASE ColorOff
    BY <1>12 DEF ColorOff
  <1>13. CASE EventSource
    BY <1>13 DEF EventSource
  <1>14. CASE EventFmt
    BY <1>14 DEF EventFmt
  <1>15. CASE EventStatus
    BY <1>15 DEF EventStatus
  <1>16. CASE SendTvEvent
    BY <1>16 DEF SendTvEvent
  <1>17. CASE StartDecoderTest
    BY <1>17 DEF StartDecoderTest
  <1>18. CASE StartDecoderIoctl
    BY <1>18 DEF StartDecoderIoctl
  <1>19. CASE StartDecoderFlag
    BY <1>19 DEF StartDecoderFlag
  <1>20. CASE StopDecoderTest("poll")
    BY <1>20 DEF StopDecoderTest
  <1>21. CASE StopDecoderIoctl("poll")
    BY <1>21 DEF StopDecoderIoctl
  <1>22. CASE StopDecoderFlag("poll")
    BY <1>22 DEF StopDecoderFlag
  <1>23. CASE Driver
    BY <1>23 DEF Driver, OtherChange, SignalChange, threadVars
  <1>24. CASE ReadSourceType
    BY <1>24 DEF ReadSourceType
  <1>25. CASE CompareField
    BY <1>25 DEF CompareField
  <1>26. CASE needSnowEffect
    BY <1>26 DEF needSnowEffect
  <1> QED
    BY <1>1, <1>2, <1>3, <1>4, <1>5, <1>6, <1>7, <1>8, <1>9, <1>10, <1>11, <1>12, <1>13,
       <1>14, <1>15, <1>16, <1>17, <1>18, <1>19, <1>20, <1>21, <1>22, <1>23, <1>24, <1>25, <1>26
       DEF PollStep

\* A command leaves the poll thread where it is.
LEMMA CommandFrame ==
    PcTypeOK /\ (CommandBegin \/ CommandStep) =>
        UNCHANGED <<handler, tempSignalInfo>> /\ pc'["poll"] = pc["poll"]
  BY DEF PcTypeOK, Goto, Thread, CommandBegin, StartTvBegin, StopTvBegin, SetEdidVersionBegin,
         CommandStep, StartTvOpenPort, StartTvSetSource, StopTvOutputOff, StopTvClosePort,
         StopTvClearSource, StopTvResetFmt, StopTvResetStatus, SetEdidVersionSwitch,
         StopDecoderTest, StopDecoderIoctl, StopDecoderFlag

\* Each step keeps the command thread within its command.
LEMMA CommandLabelsNext ==
    TypeOK /\ CommandLabels /\ [Next]_vars => CommandLabels'
  <1> SUFFICES ASSUME PcTypeOK, command \in Command, CommandLabels, [Next]_vars
               PROVE  CommandLabels'
    BY DEF TypeOK, LocalTypeOK
  <1>1. CASE PollStep \/ Driver
    BY <1>1, PollFrame DEF CommandLabels
  <1>2. CASE CommandBegin
    <2> USE DEF NoCommand, Goto, PcTypeOK, Thread, CommandLabels
    <2>1. CASE \E source \in Sources : StartTvBegin(source)
      BY <2>1 DEF StartTvBegin
    <2>2. CASE StopTvBegin
      BY <2>2 DEF StopTvBegin
    <2>3. CASE \E source \in Sources, version \in EdidVersions : SetEdidVersionBegin(source, version)
      BY <2>3 DEF SetEdidVersionBegin
    <2> QED
      BY <1>2, <2>1, <2>2, <2>3 DEF CommandBegin
  <1>3. CASE CommandStep
    <2> USE DEF CommandLabels, PcTypeOK, Goto, Thread, At, NoCommand, AfterStopDecoder
    <2>1. CASE StartTvOpenPort \/ StartTvSetSource \/ StopTvOutputOff \/ StopTvClosePort
      BY <2>1 DEF StartTvOpenPort, StartTvSetSource, StopTvOutputOff, StopTvClosePort, Command,
                  CommandName
    <2>2. CASE StopTvClearSource \/ StopTvResetFmt \/ StopTvResetStatus \/ SetEdidVersionSwitch
      BY <2>2 DEF StopTvClearSource, StopTvResetFmt, StopTvResetStatus, SetEdidVersionSwitch,
                  Command, CommandName
    <2>3. CASE StopDecoderTest("cmd")
      BY <2>3 DEF StopDecoderTest, Command, CommandName
    <2>4. CASE StopDecoderIoctl("cmd") \/ StopDecoderFlag("cmd")
      BY <2>4 DEF StopDecoderIoctl, StopDecoderFlag, Command, CommandName
    <2> QED
      BY <1>3, <2>1, <2>2, <2>3, <2>4 DEF CommandStep
  <1>4. CASE UNCHANGED vars
    BY <1>4 DEF vars, threadVars, CommandLabels
  <1> QED
    BY <1>1, <1>2, <1>3, <1>4 DEF Next

\* Each step keeps the poll thread's copy of the signal within its scope.
LEMMA TempScopeNext == TypeOK /\ TempScope /\ [Next]_vars => TempScope'
  <1> SUFFICES ASSUME PcTypeOK, TempScope, [Next]_vars PROVE TempScope'
    BY DEF TypeOK
  <1>1. CASE CommandBegin \/ CommandStep
    BY <1>1, CommandFrame DEF TempScope
  <1>2. CASE Driver
    BY <1>2 DEF Driver, OtherChange, SignalChange, threadVars, TempScope
  <1>3. CASE PollStep
    <2> USE DEF TempScope, PcTypeOK, Goto, Thread, At, HandlerReturns
    <2>1. CASE PollWake
      BY <2>1 DEF PollWake
    <2>2. CASE GetSignalEventInfo
      BY <2>2 DEF GetSignalEventInfo
    <2>3. CASE GetSignalInfo
      BY <2>3 DEF GetSignalInfo
    <2>4. CASE CheckStatus
      BY <2>4 DEF CheckStatus
    <2>5. CASE SetField
      BY <2>5 DEF SetField
    <2>6. CASE SetInfoFmt
      BY <2>6 DEF SetInfoFmt
    <2>7. CASE SetInfoStatus
      BY <2>7 DEF SetInfoStatus
    <2>8. CASE Dispatch
      BY <2>8 DEF Dispatch
    <2>9. CASE SetSnowShowEnable
      BY <2>9 DEF SetSnowShowEnable
    <2>10. CASE LayerOn
      BY <2>10 DEF LayerOn
    <2>11. CASE OutputOn
      BY <2>11 DEF OutputOn
    <2>12. CASE ColorOff
      BY <2>12 DEF ColorOff
    <2>13. CASE EventSource
      BY <2>13 DEF EventSource
    <2>14. CASE EventFmt
      BY <2>14 DEF EventFmt
    <2>15. CASE EventStatus
      BY <2>15 DEF EventStatus
    <2>16. CASE SendTvEvent
      BY <2>16 DEF SendTvEvent
    <2>17. CASE StartDecoderTest
      BY <2>17 DEF StartDecoderTest
    <2>18. CASE StartDecoderIoctl
      BY <2>18 DEF StartDecoderIoctl
    <2>19. CASE StartDecoderFlag
      BY <2>19 DEF StartDecoderFlag
    <2>20. CASE StopDecoderTest("poll")
      BY <2>20 DEF StopDecoderTest, AfterStopDecoder
    <2>21. CASE StopDecoderIoctl("poll")
      BY <2>21 DEF StopDecoderIoctl, AfterStopDecoder
    <2>22. CASE StopDecoderFlag("poll")
      BY <2>22 DEF StopDecoderFlag, AfterStopDecoder
    <2>23. CASE ReadSourceType
      BY <2>23 DEF ReadSourceType
    <2>24. CASE CompareField
      BY <2>24 DEF CompareField
    <2>25. CASE needSnowEffect
      BY <2>25 DEF needSnowEffect
    <2> QED
      BY <1>3, <2>1, <2>2, <2>3, <2>4, <2>5, <2>6, <2>7, <2>8, <2>9, <2>10, <2>11, <2>12, <2>13,
         <2>14, <2>15, <2>16, <2>17, <2>18, <2>19, <2>20, <2>21, <2>22, <2>23, <2>24, <2>25
         DEF PollStep
  <1>4. CASE UNCHANGED vars
    BY <1>4 DEF vars, threadVars, TempScope
  <1> QED
    BY <1>1, <1>2, <1>3, <1>4 DEF Next

-----------------------------------------------------------------------------

\* Nothing has been stopped when the service starts.
LEMMA QuietInit == Init => QuietInv /\ CommandLabels /\ TempScope
  BY DEF Init, QuietInv, CommandLabels, TempScope, NoCommand, Thread

\* The step of the command thread tells which command it executes.
LEMMA CommandOfLabel ==
    ASSUME TypeOK, CommandLabels
    PROVE  /\ pc["cmd"] \in {"outputOff", "closePort", "clearSource", "resetFmt", "resetStatus"}
                  => command.name = "StopTv"
           /\ pc["cmd"] \in {"openPort", "setSource"} => command.name = "StartTv"
           /\ pc["cmd"] = "edidSwitch" => command.name = "SetEdidVersion"
           /\ pc["cmd"] = "idle" => command.name = "none"
           /\ pc["cmd"] \in {"stopTest", "stopIoctl", "stoppedFlag"}
                  => command.name \in {"StopTv", "SetEdidVersion"}
  BY DEF TypeOK, LocalTypeOK, Command, CommandName, CommandLabels

\* Late events after a StopTv: the handlers find a closed port.
LEMMA QuietPoll ==
    ASSUME TypeOK, QuietInv, CommandLabels, TempScope, PollStep PROVE QuietInv'
  <1> SUFFICES ASSUME quietStop' PROVE QuietInv'
    BY DEF QuietInv
  <1>1. quietStop /\ command.name # "StopTv"
    <2>1. quietStop
      BY DEF PollStep, PollWake, GetSignalEventInfo, GetSignalInfo, ReadSourceType,
             CheckStatus, CompareField, SetField, SetInfoFmt,
             SetInfoStatus, Dispatch, needSnowEffect, SetSnowShowEnable, LayerOn, OutputOn,
             ColorOff,
             StartDecoderTest, StartDecoderIoctl, StartDecoderFlag, StopDecoderTest,
             StopDecoderIoctl, StopDecoderFlag, EventSource, EventFmt, EventStatus, SendTvEvent
    <2>2. CASE At("poll", "idle")
      <3>1. PollWake
        BY <2>2 DEF PollStep, At, GetSignalEventInfo, GetSignalInfo, ReadSourceType,
             CheckStatus, CompareField, SetField, SetInfoFmt,
             SetInfoStatus, Dispatch, needSnowEffect, SetSnowShowEnable, LayerOn, OutputOn,
             ColorOff,
             StartDecoderTest, StartDecoderIoctl, StartDecoderFlag, StopDecoderTest,
             StopDecoderIoctl, StopDecoderFlag, EventSource, EventFmt, EventStatus, SendTvEvent
      <3> QED
        BY <3>1, <2>1 DEF PollWake
    <2> QED
      BY <2>1, <2>2 DEF QuietInv, At
  <1>2. StopDone /\ UNCHANGED command
    BY <1>1, PollFrame DEF QuietInv, TypeOK
  <1>3. \/ PollWake \/ GetSignalEventInfo \/ ReadSourceType \/ GetSignalInfo
        \/ CheckStatus \/ SetInfoFmt \/ SetInfoStatus \/ Dispatch
    BY <1>2 DEF StopDone, PollStep, At, CompareField, needSnowEffect, SetField,
             SetSnowShowEnable, LayerOn, OutputOn, ColorOff,
             StartDecoderTest, StartDecoderIoctl, StartDecoderFlag, StopDecoderTest,
             StopDecoderIoctl, StopDecoderFlag, EventSource, EventFmt, EventStatus, SendTvEvent
  <1> SUFFICES StopDone' /\ UNCHANGED deviceVars
    BY <1>1, <1>2 DEF QuietInv, deviceVars
  <1> USE <1>2 DEF StopDone, PcTypeOK, Thread, Goto, At, tvVars, driverVars, decoderVars, deviceVars, TypeOK
  <1>4. CASE PollWake
    BY <1>4 DEF PollWake
  <1>5. CASE GetSignalEventInfo
    BY <1>5 DEF GetSignalEventInfo, EventHandler
  <1>6. CASE GetSignalInfo
    BY <1>6 DEF GetSignalInfo
  <1>7. CASE CheckStatus
    BY <1>7 DEF CheckStatus, HandlerReturns, NullInfo
  <1>8. CASE SetInfoFmt
    BY <1>8 DEF SetInfoFmt, NullInfo
  <1>9. CASE SetInfoStatus
    BY <1>9 DEF SetInfoStatus, NullInfo
  <1>10. CASE Dispatch
    BY <1>10 DEF Dispatch, NullInfo
  <1>11. CASE ReadSourceType
    BY <1>11 DEF ReadSourceType, HdmiSource
  <1> QED
    BY <1>3, <1>4, <1>5, <1>6, <1>7, <1>8, <1>9, <1>10, <1>11

\* The commands: StopTv advances step by step to StopDone; SetEdidVersion
\* finds the decoder stopped; StartTv ends the quiet period.
LEMMA QuietCommand ==
    ASSUME TypeOK, QuietInv, CommandLabels, TempScope, CommandBegin \/ CommandStep PROVE QuietInv'
  <1> SUFFICES ASSUME quietStop' PROVE QuietInv'
    BY DEF QuietInv
  <1>0. UNCHANGED <<handler, tempSignalInfo>> /\ pc'["poll"] = pc["poll"]
    BY CommandFrame DEF TypeOK
  <1> USE DEF TypeOK, PcTypeOK, Thread, Goto, At, tvVars, driverVars, decoderVars, deviceVars
  <1>1. CASE \E source \in Sources : StartTvBegin(source)
    BY <1>1 DEF StartTvBegin
  <1>2. CASE StopTvBegin
    <2>1. command'.name = "StopTv" /\ pc'["cmd"] = "outputOff" /\ pc["poll"] = "idle"
      BY <1>2 DEF StopTvBegin, NoCommand
    <2>2. ~display'.layer
      BY <1>2 DEF StopTvBegin, DeviceTypeOK, Display
    <2>3. audioPatch' = "live" => "audio" \in MayFail
      BY <1>2 DEF StopTvBegin, MaySucceedOrFail
    <2> QED
      BY <1>0, <2>1, <2>2, <2>3 DEF QuietInv, StopProgress
  <1>3. CASE \E source \in Sources, version \in EdidVersions : SetEdidVersionBegin(source, version)
    BY <1>0, CommandOfLabel, <1>3 DEF SetEdidVersionBegin, QuietInv, StopDone
  <1>4. CASE StartTvOpenPort \/ StartTvSetSource
    BY <1>4, CommandOfLabel DEF StartTvOpenPort, StartTvSetSource, QuietInv
  <1>5. CASE StopTvOutputOff
    BY <1>0, CommandOfLabel, <1>5 DEF StopTvOutputOff, QuietInv, StopProgress, DeviceTypeOK, Display
  <1>6. CASE StopTvClosePort
    BY <1>0, CommandOfLabel, <1>6 DEF StopTvClosePort, QuietInv, StopProgress, MaySucceedOrFail, NoPort
  <1>7. CASE StopTvClearSource
    BY <1>0, CommandOfLabel, <1>7 DEF StopTvClearSource, QuietInv, StopProgress
  <1>8. CASE StopTvResetFmt
    BY <1>0, CommandOfLabel, <1>8 DEF StopTvResetFmt, QuietInv, StopProgress, TvTypeOK, SigInfo, NullInfo
  <1>9. CASE StopTvResetStatus
    BY <1>0, CommandOfLabel, <1>9 DEF StopTvResetStatus, QuietInv, StopProgress, StopDone, TempScope,
                      NullInfo, NoCommand
  <1>10. CASE SetEdidVersionSwitch
    BY <1>0, CommandOfLabel, <1>10 DEF SetEdidVersionSwitch, QuietInv, StopDone, NoCommand
  <1>11. CASE StopDecoderTest("cmd")
    BY <1>0, CommandOfLabel, <1>11 DEF StopDecoderTest, AfterStopDecoder, QuietInv, StopProgress, StopDone
  <1>12. CASE StopDecoderIoctl("cmd")
    BY <1>0, CommandOfLabel, <1>12 DEF StopDecoderIoctl, QuietInv, StopProgress, StopDone
  <1>13. CASE StopDecoderFlag("cmd")
    BY <1>0, CommandOfLabel, <1>13 DEF StopDecoderFlag, AfterStopDecoder, QuietInv, StopProgress, StopDone
  <1> QED
    BY <1>1, <1>2, <1>3, <1>4, <1>5, <1>6, <1>7, <1>8, <1>9, <1>10, <1>11, <1>12, <1>13
       DEF CommandBegin, CommandStep

\* Each step keeps a quiet StopTv on its way, and its result once it is done.
LEMMA QuietNext ==
    TypeOK /\ QuietInv /\ CommandLabels /\ TempScope /\ [Next]_vars => QuietInv'
  <1> SUFFICES ASSUME TypeOK, QuietInv, CommandLabels, TempScope, [Next]_vars PROVE QuietInv'
    OBVIOUS
  <1>1. CASE Driver
    BY <1>1 DEF Driver, OtherChange, SignalChange, QuietInv, StopProgress, StopDone, threadVars,
                tvVars, decoderVars, deviceVars
  <1>2. CASE UNCHANGED vars
    BY <1>2 DEF vars, threadVars, tvVars, driverVars, decoderVars, deviceVars, QuietInv,
                StopProgress, StopDone
  <1> QED
    BY <1>1, <1>2, QuietPoll, QuietCommand DEF Next

\* A StopTv that no handler disturbed leaves the port closed, the picture off,
\* the decoder stopped and the signal reset, and no late event undoes it.
THEOREM StopLeavesClean == Spec => []StoppedClean
  <1>1. QuietInv /\ DecoderInv /\ CommandLabels /\ TypeOK => StoppedClean
    <2> SUFFICES ASSUME QuietInv, DecoderInv, CommandLabels, TypeOK, pc["cmd"] = "idle", quietStop
                 PROVE  /\ StopDone /\ ~display.layer
                        /\ audioPatch = "live" => "audio" \in MayFail
                        /\ decoding => (overlapped \/ stopFailed)
      BY DEF StoppedClean, StopDone
    <2>1. command.name # "StopTv"
      BY CommandOfLabel
    <2>2. StopDone /\ ~display.layer /\ (audioPatch = "live" => "audio" \in MayFail)
      BY <2>1 DEF QuietInv
    <2>3. decoding => (overlapped \/ stopFailed)
      BY <2>2 DEF DecoderInv, InDecoderCall, StopDone, TypeOK, DecoderTypeOK
    <2> QED
      BY <2>2, <2>3
  <1> QED
    BY <1>1, TypeInit, TypeNext, DecoderInit, DecoderNext, QuietInit, QuietNext, CommandLabelsNext,
       TempScopeNext, PTL DEF Spec

-----------------------------------------------------------------------------

\* Each step keeps the poll thread within the handler it dispatched, with the
\* status it was dispatched for, or the reset one, on record.
LEMMA DispatchNext == TypeOK /\ DispatchInv /\ [Next]_vars => DispatchInv'
  <1> SUFFICES ASSUME TypeOK, DispatchInv, [Next]_vars PROVE DispatchInv'
    OBVIOUS
  <1> USE DEF DispatchInv, HandlerLabels, HandlerSteps, EventTellsDispatchedStatus, StatusOf
  <1>1. CASE CommandBegin \/ CommandStep
    <2>1. UNCHANGED <<handler, event>> /\ pc'["poll"] = pc["poll"]
      BY <1>1, CommandFrame
         DEF TypeOK, CommandBegin, StartTvBegin, StopTvBegin, SetEdidVersionBegin,
             CommandStep, StartTvOpenPort, StartTvSetSource, StopTvOutputOff, StopTvClosePort,
             StopTvClearSource, StopTvResetFmt, StopTvResetStatus, SetEdidVersionSwitch,
             StopDecoderTest, StopDecoderIoctl, StopDecoderFlag
    <2>2. mCurrentSignalInfo'.status \in {mCurrentSignalInfo.status, "NULL"}
      BY <1>1
         DEF TypeOK, TvTypeOK, SigInfo, NullInfo, tvVars,
             CommandBegin, StartTvBegin, StopTvBegin, SetEdidVersionBegin,
             CommandStep, StartTvOpenPort, StartTvSetSource, StopTvOutputOff, StopTvClosePort,
             StopTvClearSource, StopTvResetFmt, StopTvResetStatus, SetEdidVersionSwitch,
             StopDecoderTest, StopDecoderIoctl, StopDecoderFlag
    <2> QED
      BY <2>1, <2>2
  <1>2. CASE Driver
    BY <1>2 DEF Driver, OtherChange, SignalChange, threadVars, tvVars
  <1>3. CASE PollStep
    <2> USE DEF TypeOK, PcTypeOK, LocalTypeOK, TvTypeOK, Goto, Thread, At, HandlerReturns, tvVars
    <2>1. CASE PollWake
      BY <2>1 DEF PollWake
    <2>2. CASE GetSignalEventInfo
      BY <2>2 DEF GetSignalEventInfo
    <2>3. CASE GetSignalInfo
      BY <2>3 DEF GetSignalInfo
    <2>4. CASE CheckStatus
      BY <2>4 DEF CheckStatus
    <2>5. CASE SetField
      BY <2>5 DEF SetField
    <2>6. CASE SetInfoFmt
      BY <2>6 DEF SetInfoFmt
    <2>7. CASE SetInfoStatus
      BY <2>7 DEF SetInfoStatus
    <2>8. CASE Dispatch
      BY <2>8 DEF Dispatch
    <2>9. CASE SetSnowShowEnable
      BY <2>9 DEF SetSnowShowEnable
    <2>10. CASE LayerOn
      BY <2>10 DEF LayerOn
    <2>11. CASE OutputOn
      BY <2>11 DEF OutputOn
    <2>12. CASE ColorOff
      BY <2>12 DEF ColorOff
    <2>13. CASE EventSource
      BY <2>13 DEF EventSource
    <2>14. CASE EventFmt
      BY <2>14 DEF EventFmt
    <2>15. CASE EventStatus
      BY <2>15 DEF EventStatus
    <2>16. CASE SendTvEvent
      BY <2>16 DEF SendTvEvent
    <2>17. CASE StartDecoderTest
      BY <2>17 DEF StartDecoderTest
    <2>18. CASE StartDecoderIoctl
      BY <2>18 DEF StartDecoderIoctl
    <2>19. CASE StartDecoderFlag
      BY <2>19 DEF StartDecoderFlag
    <2>20. CASE StopDecoderTest("poll")
      BY <2>20 DEF StopDecoderTest, AfterStopDecoder
    <2>21. CASE StopDecoderIoctl("poll")
      BY <2>21 DEF StopDecoderIoctl, AfterStopDecoder
    <2>22. CASE StopDecoderFlag("poll")
      BY <2>22 DEF StopDecoderFlag, AfterStopDecoder
    <2>23. CASE ReadSourceType
      BY <2>23 DEF ReadSourceType
    <2>24. CASE CompareField
      BY <2>24 DEF CompareField
    <2>25. CASE needSnowEffect
      BY <2>25 DEF needSnowEffect
    <2> QED
      BY <1>3, <2>1, <2>2, <2>3, <2>4, <2>5, <2>6, <2>7, <2>8, <2>9, <2>10, <2>11, <2>12, <2>13,
         <2>14, <2>15, <2>16, <2>17, <2>18, <2>19, <2>20, <2>21, <2>22, <2>23, <2>24, <2>25
         DEF PollStep
  <1>4. CASE UNCHANGED vars
    BY <1>4 DEF vars, threadVars, tvVars
  <1> QED
    BY <1>1, <1>2, <1>3, <1>4 DEF Next

\* A client is told the status that the handler which sends the event was
\* chosen for, or the one a StopTv resets to, whatever the commands and the
\* driver do in between.
THEOREM EventsTellStatus == Spec => []EventTellsDispatchedStatus
  <1>1. Init => DispatchInv
    BY DEF Init, DispatchInv, HandlerLabels, HandlerSteps, EventTellsDispatchedStatus, Thread
  <1>2. DispatchInv => EventTellsDispatchedStatus
    BY DEF DispatchInv
  <1> QED
    BY <1>1, <1>2, TypeInit, TypeNext, DispatchNext, PTL DEF Spec

-----------------------------------------------------------------------------
(***************************************************************************)
(* CTv: the server's view of the signal and the picture follow the driver  *)
(* (ViewAgrees and DisplayFollowsSignal).                                  *)
(***************************************************************************)

\* The steps of the two threads between which a change is known in part.
RecordLabel == {"readSource", "getInfo", "checkStatus", "compareField", "setField", "setFmt",
                "setStatus", "resetStatus"}

\* A step that neither moves a change of the signal along nor loses one.
Plain(t) ==
    /\ UNCHANGED <<port, signal, sigFlags, lost, mCurrentSignalInfo>>
    /\ t = "cmd" => UNCHANGED <<handler, tempSignalInfo>>
    /\ pc[t] \notin RecordLabel
    /\ \E l \in Label \ RecordLabel : Goto(t, l)

LEMMA ViewPlain ==
    ASSUME PcTypeOK, ViewInv, NEW t \in Thread, Plain(t) PROVE ViewInv'
  <1> USE DEF Plain, Goto, PcTypeOK, Thread, RecordLabel, At
  <1>1. \A l \in RecordLabel \ {"resetStatus"} :
           (pc'["poll"] = l <=> pc["poll"] = l)
             /\ (pc["poll"] = l => UNCHANGED <<handler, tempSignalInfo>>)
    OBVIOUS
  <1>2. pc'["cmd"] = "resetStatus" <=> pc["cmd"] = "resetStatus"
    OBVIOUS
  <1>3. \A flag : Unread(flag)' <=> Unread(flag)
    BY <1>1 DEF Unread, FlagOf
  <1> QED
    BY <1>1, <1>2, <1>3
       DEF ViewInv, ReadLabels, StatusView, StatusKnown, HdrView, AfdView, FieldView,
           AfdReadsStable, Watched

\* Commands: opening or closing the port starts from nothing known, and a reset
\* of the view of an open port loses the status.
LEMMA ViewCommand ==
    ASSUME TypeOK, ViewInv, CommandBegin \/ CommandStep PROVE ViewInv'
  <1> USE DEF TypeOK, Thread
  <1>0. UNCHANGED <<handler, tempSignalInfo>> /\ pc'["poll"] = pc["poll"]
    BY CommandFrame
  <1>1. CASE StartTvOpenPort \/ StopTvClosePort
    <2>1. CASE UNCHANGED <<port, signal>>
      <3>1. Plain("cmd")
        BY <1>0, <1>1, <2>1
           DEF StartTvOpenPort, StopTvClosePort, Plain, At, RecordLabel, Label, tvVars
      <3> QED
        BY <3>1, ViewPlain
    <2>2. CASE ~(UNCHANGED <<port, signal>>)
      <3>1. signal' = NullInfo
        BY <1>1, <2>2 DEF StartTvOpenPort, StopTvClosePort
      <3>2. ~Watched'
        BY <3>1 DEF Watched, NullInfo
      <3> QED
        BY <1>0, <3>2
           DEF ViewInv, ReadLabels, StatusView, HdrView, AfdView, FieldView, AfdReadsStable, At
    <2> QED
      BY <2>1, <2>2
  <1>2. CASE StopTvResetFmt
    <2>1. pc'["cmd"] = "resetStatus"
      BY <1>2 DEF StopTvResetFmt, PcTypeOK, Goto
    <2> QED
      BY <1>0, <1>2, <2>1
         DEF ViewInv, ReadLabels, StatusView, HdrView, AfdView, FieldView, AfdReadsStable, At,
             StopTvResetFmt, Watched, Unread, FlagOf, driverVars
  <1>3. CASE StopTvResetStatus
    <2>1. ~Watched'
      BY <1>3 DEF StopTvResetStatus, Watched, driverVars
    <2> QED
      BY <1>0, <2>1
         DEF ViewInv, ReadLabels, StatusView, HdrView, AfdView, FieldView, AfdReadsStable, At
  <1>4. CASE CommandBegin \/ StartTvSetSource \/ StopTvOutputOff \/ StopTvClearSource
               \/ SetEdidVersionSwitch \/ StopDecoderTest("cmd") \/ StopDecoderIoctl("cmd")
               \/ StopDecoderFlag("cmd")
    <2>1. Plain("cmd")
      BY <1>0, <1>4
         DEF CommandBegin, StartTvBegin, StopTvBegin, SetEdidVersionBegin, StartTvSetSource,
             StopTvOutputOff, StopTvClearSource, SetEdidVersionSwitch, StopDecoderTest,
             StopDecoderIoctl, StopDecoderFlag, AfterStopDecoder, Plain, At, RecordLabel, Label,
             tvVars, driverVars
    <2> QED
      BY <2>1, ViewPlain
  <1> QED
    BY <1>1, <1>2, <1>3, <1>4 DEF CommandStep

\* A change of the signal raises the bit of what changed.
LEMMA ViewDriver == ASSUME TypeOK, ViewInv, Driver PROVE ViewInv'
  <1>0. UNCHANGED <<pc, handler, tempSignalInfo, mCurrentSignalInfo, port, lost>>
    BY DEF Driver, OtherChange, SignalChange, threadVars, tvVars
  <1>1. CASE OtherChange
    BY <1>0, <1>1
       DEF OtherChange, ViewInv, ReadLabels, StatusView, StatusKnown, HdrView, AfdView, FieldView,
           AfdReadsStable, Watched, Unread, FlagOf, At
  <1>2. ASSUME NEW s \in Signals, SignalChange(s) PROVE ViewInv'
    <2>1. ReadLabels'
      BY <1>0 DEF ViewInv, ReadLabels, At
    <2>2. CASE s.status # signal.status \/ s.fmt # signal.fmt
      <3>1. Unread("STS")'
        BY <1>2, <2>2 DEF SignalChange, Unread
      <3> QED
        BY <2>1, <3>1 DEF ViewInv, StatusView, HdrView, AfdView, FieldView, AfdReadsStable
    <2>3. CASE s.status = signal.status /\ s.fmt = signal.fmt
      <3>1. /\ signal' = s /\ sigFlags \subseteq sigFlags'
            /\ s.hdr_info = signal.hdr_info \/ "HDR" \in sigFlags'
            /\ s.aspect_ratio = signal.aspect_ratio \/ "AFD" \in sigFlags'
        BY <1>2, <2>3 DEF SignalChange
      <3>2. \A flag : Unread(flag) => Unread(flag)'
        BY <1>0, <3>1 DEF Unread, At, FlagOf
      <3>3. Watched' => Watched
        BY <1>0, <2>3, <3>1 DEF Watched
      <3>4. StatusView' /\ AfdReadsStable'
        BY <1>0, <2>3, <3>1, <3>2, <3>3
           DEF ViewInv, StatusView, StatusKnown, AfdReadsStable, At
      <3>5. HdrView'
        BY <1>0, <2>3, <3>1, <3>2, <3>3 DEF ViewInv, HdrView, FieldView, Unread
      <3>6. AfdView'
        BY <1>0, <2>3, <3>1, <3>2, <3>3 DEF ViewInv, AfdView, FieldView, Unread
      <3> QED
        BY <2>1, <3>4, <3>5, <3>6 DEF ViewInv
    <2> QED
      BY <2>2, <2>3
  <1> QED
    BY <1>1, <1>2 DEF Driver

\* The steps of the poll thread that read a change, copy it and record it.
LEMMA ViewRead ==
    ASSUME TypeOK, ViewInv,
           GetSignalEventInfo \/ ReadSourceType \/ GetSignalInfo \/ CheckStatus \/ CompareField
             \/ SetField \/ SetInfoFmt \/ SetInfoStatus
    PROVE  ViewInv'
  <1> USE DEF TypeOK, PcTypeOK, Thread, Goto, At, HandlerReturns, tvVars, driverVars, ViewInv,
              ReadLabels, StatusView, StatusKnown, HdrView, AfdView, FieldView, AfdReadsStable,
              Watched, Unread, FlagOf
  <1>1. CASE GetSignalEventInfo
    BY <1>1 DEF GetSignalEventInfo, EventHandler
  <1>2. CASE GetSignalInfo
    BY <1>2 DEF GetSignalInfo
  <1>3. CASE ReadSourceType \/ CheckStatus \/ CompareField
    BY <1>3 DEF ReadSourceType, CheckStatus, CompareField
  <1>4. CASE SetField
    BY <1>4 DEF SetField, TvTypeOK, LocalTypeOK, SigInfo
  <1>5. CASE SetInfoFmt
    BY <1>5 DEF SetInfoFmt, TvTypeOK, LocalTypeOK, SigInfo
  <1>6. CASE SetInfoStatus
    BY <1>6 DEF SetInfoStatus, TvTypeOK, LocalTypeOK, SigInfo
  <1> QED
    BY <1>1, <1>2, <1>3, <1>4, <1>5, <1>6

\* Every step keeps track of where a change of the signal has got to.
LEMMA ViewNext == TypeOK /\ ViewInv /\ [Next]_vars => ViewInv'
  <1> SUFFICES ASSUME TypeOK, ViewInv, [Next]_vars PROVE ViewInv'
    OBVIOUS
  <1>1. CASE PollStep
    <2> USE DEF TypeOK, Thread, Plain, At, RecordLabel, Label, tvVars, driverVars
    <2>1. CASE GetSignalEventInfo \/ ReadSourceType \/ GetSignalInfo \/ CheckStatus \/ CompareField
                 \/ SetField \/ SetInfoFmt \/ SetInfoStatus
      BY <2>1, ViewRead
    <2>2. CASE PollWake \/ Dispatch \/ needSnowEffect
      <3>1. Plain("poll")
        BY <2>2 DEF PollWake, Dispatch, needSnowEffect
      <3> QED
        BY <3>1, ViewPlain
    <2>3. CASE SetSnowShowEnable \/ LayerOn \/ OutputOn \/ ColorOff \/ EventSource \/ EventFmt
                 \/ EventStatus \/ SendTvEvent
      <3>1. Plain("poll")
        BY <2>3 DEF SetSnowShowEnable, LayerOn, OutputOn, ColorOff, EventSource, EventFmt,
                    EventStatus, SendTvEvent, HandlerReturns
      <3> QED
        BY <3>1, ViewPlain
    <2>4. CASE StartDecoderTest \/ StartDecoderIoctl \/ StartDecoderFlag
      <3>1. Plain("poll")
        BY <2>4 DEF StartDecoderTest, StartDecoderIoctl, StartDecoderFlag
      <3> QED
        BY <3>1, ViewPlain
    <2>5. CASE StopDecoderTest("poll") \/ StopDecoderIoctl("poll") \/ StopDecoderFlag("poll")
      <3>1. Plain("poll")
        BY <2>5 DEF StopDecoderTest, StopDecoderIoctl, StopDecoderFlag, AfterStopDecoder
      <3> QED
        BY <3>1, ViewPlain
    <2> QED
      BY <1>1, <2>1, <2>2, <2>3, <2>4, <2>5 DEF PollStep
  <1>2. CASE UNCHANGED vars
    BY <1>2
       DEF vars, threadVars, tvVars, driverVars, ViewInv, ReadLabels, StatusView, StatusKnown,
           HdrView, AfdView, FieldView, AfdReadsStable, Watched, Unread, FlagOf, At
  <1> QED
    BY <1>1, <1>2, ViewCommand, ViewDriver DEF Next

LEMMA ViewInit == Init => ViewInv
  BY DEF Init, ViewInv, ReadLabels, StatusView, HdrView, AfdView, FieldView, AfdReadsStable,
         Watched, NullInfo, At, Thread

\* Once everything has settled the server's view of the signal is the driver's,
\* whatever the two threads, the driver and failing calls have done in between,
\* unless a change was lost in one of the ways the code has.
THEOREM ViewCorrect == Spec => []ViewAgrees
  <1>1. ViewInv => ViewAgrees
    BY DEF ViewInv, StatusView, StatusKnown, HdrView, AfdView, FieldView, Watched, Unread,
           ViewAgrees, Settled, Idle, At
  <1> QED
    BY <1>1, TypeInit, TypeNext, ViewInit, ViewNext, PTL DEF Spec

-----------------------------------------------------------------------------

\* What a step leaves alone that DisplayInv speaks of, when it is not one of the
\* signal's changes, of the handlers' steps or of a command's beginning or end.
LEMMA DisplayCommand ==
    ASSUME TypeOK, CommandLabels, DisplayInv, CommandBegin \/ CommandStep PROVE DisplayInv'
  <1>0. UNCHANGED <<handler, tempSignalInfo>> /\ pc'["poll"] = pc["poll"]
    BY CommandFrame DEF TypeOK
  <1>1. Unread("STS")' <=> (Unread("STS") \/ ("STS" \in sigFlags' \ sigFlags))
    BY <1>0 DEF CommandBegin, StartTvBegin, StopTvBegin, SetEdidVersionBegin, CommandStep,
                StartTvOpenPort, StartTvSetSource, StopTvOutputOff, StopTvClosePort,
                StopTvClearSource, StopTvResetFmt, StopTvResetStatus, SetEdidVersionSwitch,
                StopDecoderTest, StopDecoderIoctl, StopDecoderFlag, Unread, FlagOf, At, driverVars
  <1> USE CommandOfLabel
      DEF TypeOK, At, tvVars, driverVars, decoderVars, deviceVars, DisplayInv, Following, Watched,
          StableShown, RefusedStopped, AbsentIsSnow
  <1>2. CASE \E source \in Sources : StartTvBegin(source)
    BY <1>0, <1>1, <1>2 DEF StartTvBegin, NoCommand, DeviceTypeOK, Display
  <1>3. CASE StopTvBegin
    BY <1>0, <1>1, <1>3 DEF StopTvBegin, NoCommand, DeviceTypeOK, Display
  <1>4. CASE \E source \in Sources, version \in EdidVersions : SetEdidVersionBegin(source, version)
    BY <1>0, <1>1, <1>4 DEF SetEdidVersionBegin
  <1>5. CASE StartTvOpenPort
    BY <1>0, <1>1, <1>5 DEF StartTvOpenPort, NullInfo
  <1>6. CASE StartTvSetSource
    BY <1>0, <1>1, <1>6 DEF StartTvSetSource, NoCommand
  <1>7. CASE StopTvOutputOff
    BY <1>0, <1>1, <1>7 DEF StopTvOutputOff, DeviceTypeOK, Display
  <1>8. CASE StopTvClosePort
    BY <1>0, <1>1, <1>8 DEF StopTvClosePort, NullInfo
  <1>9. CASE StopTvClearSource \/ StopTvResetFmt
    BY <1>0, <1>1, <1>9 DEF StopTvClearSource, StopTvResetFmt
  <1>10. CASE StopTvResetStatus
    BY <1>0, <1>1, <1>10 DEF StopTvResetStatus, NoCommand
  <1>11. CASE SetEdidVersionSwitch
    BY <1>0, <1>1, <1>11 DEF SetEdidVersionSwitch, NoCommand
  <1>12. CASE StopDecoderTest("cmd") \/ StopDecoderIoctl("cmd")
    BY <1>0, <1>1, <1>12 DEF StopDecoderTest, StopDecoderIoctl
  <1>13. CASE StopDecoderFlag("cmd")
    <2>1. command.name \in {"StopTv", "SetEdidVersion"}
      BY <1>13 DEF StopDecoderFlag, CommandLabels, LocalTypeOK, Command, CommandName
    <2> QED
      BY <1>0, <1>1, <1>13, <2>1 DEF StopDecoderFlag
  <1> QED
    BY <1>2, <1>3, <1>4, <1>5, <1>6, <1>7, <1>8, <1>9, <1>10, <1>11, <1>12, <1>13
       DEF CommandBegin, CommandStep

LEMMA DisplayDriver == ASSUME TypeOK, DisplayInv, Driver PROVE DisplayInv'
  <1>1. Following' => Following /\ signal'.status = signal.status
    BY DEF Driver, OtherChange, SignalChange, Following, Watched, Unread, At, FlagOf, threadVars
  <1> QED
    BY <1>1 DEF Driver, OtherChange, SignalChange, DisplayInv, StableShown, RefusedStopped,
                AbsentIsSnow, At, threadVars, decoderVars, deviceVars

\* The poll thread reads a change of status and chooses the handler by it, and
\* the handler's steps do what is promised.
LEMMA DisplayPoll ==
    ASSUME TypeOK, CommandLabels, HandlerLabels, ViewInv, DisplayInv, PollStep PROVE DisplayInv'
  <1> USE DEF TypeOK, PcTypeOK, Thread, Goto, At, HandlerReturns, tvVars, driverVars, decoderVars,
              deviceVars, DisplayInv, Following, Watched, Unread, FlagOf, HandlerLabels,
              HandlerSteps, HandlerOf, Starting, Stopping, StableShown, RefusedStopped,
              AbsentIsSnow, StatusOf
  <1>1. CASE PollWake
    BY <1>1 DEF PollWake
  <1>2. CASE GetSignalEventInfo
    BY <1>2 DEF GetSignalEventInfo, EventHandler
  <1>3. CASE GetSignalInfo
    BY <1>3 DEF GetSignalInfo, ViewInv, ReadLabels
  <1>4. CASE ReadSourceType \/ CheckStatus \/ CompareField \/ SetField
    BY <1>4 DEF ReadSourceType, CheckStatus, CompareField, SetField, ViewInv, ReadLabels
  <1>5. CASE SetInfoFmt \/ SetInfoStatus
    BY <1>5 DEF SetInfoFmt, SetInfoStatus
  <1>6. CASE Dispatch
    <2>1. Following' => mCurrentSignalInfo.status = signal.status
      BY <1>6, CommandOfLabel DEF Dispatch, ViewInv, StatusView, StatusKnown
    <2>2. signal.status \in SigStatus
      BY DEF DriverTypeOK, SigInfo
    <2> QED
      BY <1>6, <2>1, <2>2 DEF Dispatch, SigStatus
  <1>7. CASE SetSnowShowEnable
    BY <1>7 DEF SetSnowShowEnable, DeviceTypeOK, Display
  <1>8. CASE StartDecoderTest
    BY <1>8 DEF StartDecoderTest
  <1>9. CASE StartDecoderIoctl
    BY <1>9 DEF StartDecoderIoctl, MaySucceedOrFail
  <1>10. CASE StartDecoderFlag
    <2>1. CASE At("poll", "startedFlag")
      <3>1. mDecoderStarted' = TRUE
        BY <1>10, <2>1 DEF StartDecoderFlag
      <3> QED
        BY <1>10, <2>1, <3>1 DEF StartDecoderFlag
    <2>2. CASE At("poll", "startFailedFlag")
      <3>1. mDecoderStarted' = FALSE
        BY <1>10, <2>2 DEF StartDecoderFlag
      <3> QED
        BY <1>10, <2>2, <3>1 DEF StartDecoderFlag
    <2> QED
      BY <1>10, <2>1, <2>2 DEF StartDecoderFlag
  <1>11. CASE LayerOn
    BY <1>11 DEF LayerOn, DeviceTypeOK, Display
  <1>12. CASE OutputOn
    BY <1>12 DEF OutputOn, DeviceTypeOK, Display
  <1>13. CASE ColorOff
    BY <1>13 DEF ColorOff, DeviceTypeOK, Display
  <1>14. CASE StopDecoderTest("poll")
    BY <1>14 DEF StopDecoderTest, AfterStopDecoder
  <1>15. CASE StopDecoderIoctl("poll")
    BY <1>15 DEF StopDecoderIoctl
  <1>16. CASE StopDecoderFlag("poll")
    BY <1>16 DEF StopDecoderFlag, AfterStopDecoder
  <1>17. CASE EventSource \/ EventFmt \/ EventStatus
    BY <1>17 DEF EventSource, EventFmt, EventStatus
  <1>18. CASE SendTvEvent
    BY <1>18 DEF SendTvEvent
  <1>19. CASE needSnowEffect
    <2>1. signal.status \in SigStatus /\ handler = "toNoSig" /\ pc["poll"] = "needSnow"
      BY <1>19 DEF needSnowEffect, DriverTypeOK, SigInfo
    <2>2. CASE pc'["poll"] = "snowOn" /\ handler' = "toSnow"
      BY <1>19, <2>1, <2>2 DEF needSnowEffect, SigStatus
    <2>3. CASE pc'["poll"] = "colorOff" /\ handler' = handler
      BY <1>19, <2>1, <2>3 DEF needSnowEffect, SigStatus
    <2> QED
      BY <1>19, <2>2, <2>3 DEF needSnowEffect
  <1> QED
    BY <1>1, <1>2, <1>3, <1>4, <1>5, <1>6, <1>7, <1>8, <1>9, <1>10, <1>11, <1>12, <1>13, <1>14,
       <1>15, <1>16, <1>17, <1>18, <1>19
       DEF PollStep

\* Every step keeps the picture where the reading of the signal has led it.
LEMMA DisplayNext ==
    TypeOK /\ CommandLabels /\ DispatchInv /\ ViewInv /\ DisplayInv /\ [Next]_vars => DisplayInv'
  <1> SUFFICES ASSUME TypeOK, CommandLabels, DispatchInv, ViewInv, DisplayInv, [Next]_vars
               PROVE  DisplayInv'
    OBVIOUS
  <1>1. CASE UNCHANGED vars
    BY <1>1
       DEF vars, threadVars, driverVars, decoderVars, deviceVars, DisplayInv, Following, Watched,
           Unread, FlagOf, StableShown, RefusedStopped, AbsentIsSnow, At
  <1>2. HandlerLabels
    BY DEF DispatchInv
  <1> QED
    BY <1>1, <1>2, DisplayCommand, DisplayDriver, DisplayPoll DEF Next

LEMMA DisplayInit == Init => DisplayInv
  BY DEF Init, DisplayInv, Following, Watched, NullInfo, NoCommand, Starting, At, Thread

\* Once everything has settled the picture is the one the signal calls for: a
\* stable signal is shown and decoded, a refused or absent one is not decoded.
THEOREM DisplayCorrect == Spec => []DisplayFollowsSignal
  <1>1. TypeOK /\ CommandLabels /\ DisplayInv => DisplayFollowsSignal
    <2> SUFFICES ASSUME TypeOK, CommandLabels, DisplayInv, Settled, "STS" \notin lost
                 PROVE  DisplayFollowsSignal
      BY DEF DisplayFollowsSignal
    <2>1. Following
      BY CommandOfLabel DEF Settled, Idle, Following, Watched, Unread, At
    <2> QED
      BY <2>1
         DEF DisplayInv, DisplayFollowsSignal, StableShown, RefusedStopped, AbsentIsSnow, Starting,
             Stopping, Settled, Idle
  <1>2. Init => DispatchInv
    BY DEF Init, DispatchInv, HandlerLabels, HandlerSteps, EventTellsDispatchedStatus, Thread
  <1> QED
    BY <1>1, <1>2, TypeInit, TypeNext, QuietInit, CommandLabelsNext, DispatchNext, ViewInit,
       ViewNext, DisplayInit, DisplayNext, PTL
       DEF Spec

-----------------------------------------------------------------------------
(***************************************************************************)
(* The service: it implements both of its parts, so that what is proved of *)
(* CTv and of the callback registry holds of it, and its clients know the  *)
(* signal (ClientsKnowSignal).                                             *)
(***************************************************************************)

\* A step of the service is a step of CTv, or leaves it alone.
LEMMA CoreStep == SystemNext => [Next]_vars
  BY DEF SystemNext, SystemPoll, TvStep, sendTvEvent, CallClients, onTvEventReturns, ClientCall,
         Next, PollStep

\* ... and a step of the callback registry, or leaves that alone.
LEMMA ServiceStep == SystemNext => [Service!Next]_(Service!vars)
  BY DEF SystemNext, SystemPoll, TvStep, sendTvEvent, CallClients, onTvEventReturns, ClientCall,
         Service!Next, Service!vars, Service!registryVars, Service!senderVars, serviceVars

\* Seen through the variables of CTv, the service does what TvCore says, whatever
\* its clients do while the poll thread is in TvService::onTvEvent.
THEOREM SystemImplementsCore == SystemSpec => Spec
  <1>1. SystemInit => Init
    BY DEF SystemInit
  <1>2. [SystemNext]_systemVars => [Next]_vars
    BY CoreStep DEF systemVars
  <1> QED
    BY <1>1, <1>2, PTL DEF SystemSpec, Spec

\* Seen through its map of binders, the service does what TvServiceCallbacks
\* says: a send loop only runs for an event that a handler of CTv has made.
THEOREM SystemImplementsCallbacks == SystemSpec => Service!Spec
  <1>1. SystemInit => Service!Init
    BY DEF SystemInit
  <1>2. [SystemNext]_systemVars => [Service!Next]_(Service!vars)
    BY ServiceStep
       DEF systemVars, serviceVars, Service!vars, Service!registryVars, Service!senderVars
  <1> QED
    BY <1>1, <1>2, PTL DEF SystemSpec, Service!Spec

-----------------------------------------------------------------------------

\* What is proved of CTv's steps.
CoreInv == TypeOK /\ CommandLabels /\ DispatchInv /\ ViewInv /\ DisplayInv

LEMMA CoreInit == Init => CoreInv
  BY TypeInit, QuietInit, ViewInit, DisplayInit
     DEF CoreInv, Init, DispatchInv, HandlerLabels, HandlerSteps, EventTellsDispatchedStatus, Thread

LEMMA CoreNext == CoreInv /\ [Next]_vars => CoreInv'
  BY TypeNext, CommandLabelsNext, DispatchNext, ViewNext, DisplayNext DEF CoreInv

\* Every client is at a step of its registration or removal.
CallType == call \in [Clients -> Service!CallState]

LEMMA CallNext == CallType /\ [Service!Next]_(Service!vars) => CallType'
  BY DEF CallType, Service!Next, Service!SendEvent, Service!SenderStep, Service!TestCallback,
         Service!Transact, Service!ClientStep, Service!SetTvServiceCallBack, Service!ScanSlot,
         Service!AssignSlot, Service!RemoveTvServiceCallBack, Service!ClientDies, Service!vars,
         Service!registryVars, Service!senderVars, Service!CallState

-----------------------------------------------------------------------------

\* The commands open, assign, close and clear the input in this order; nothing
\* else touches it.
LEMMA SourceNext ==
    TypeOK /\ CommandLabels /\ SourceView /\ [Next]_vars => SourceView'
  <1> SUFFICES ASSUME TypeOK, CommandLabels, SourceView, [Next]_vars, PortsWork PROVE SourceView'
    BY DEF SourceView
  <1> USE DEF TypeOK, PcTypeOK, Thread, Goto, At, SourceView, tvVars, driverVars
  <1>1. CASE PollStep \/ Driver
    <2>1. UNCHANGED <<command, port, mCurrentSource>> /\ pc'["cmd"] = pc["cmd"]
      BY <1>1, PollFrame
         DEF PollStep, PollWake, GetSignalEventInfo, GetSignalInfo, ReadSourceType,
             CheckStatus, CompareField, SetField,
             SetInfoFmt, SetInfoStatus, Dispatch, needSnowEffect, SetSnowShowEnable, LayerOn, OutputOn,
             ColorOff,
             StartDecoderTest, StartDecoderIoctl, StartDecoderFlag, StopDecoderTest,
             StopDecoderIoctl, StopDecoderFlag, EventSource, EventFmt, EventStatus, SendTvEvent,
             Driver, OtherChange, SignalChange
    <2> QED
      BY <2>1
  <1>2. CASE UNCHANGED vars
    BY <1>2 DEF vars, threadVars
  <1>3. CASE CommandBegin
    BY <1>3 DEF CommandBegin, StartTvBegin, StopTvBegin, SetEdidVersionBegin
  <1>4. CASE StartTvOpenPort \/ StopTvClosePort
    BY <1>4 DEF StartTvOpenPort, StopTvClosePort, MaySucceedOrFail, PortsWork, NoPort
  <1>5. CASE StartTvSetSource \/ StopTvClearSource
    BY <1>5 DEF StartTvSetSource, StopTvClearSource
  <1>6. CASE StopTvOutputOff \/ StopTvResetFmt \/ StopTvResetStatus \/ SetEdidVersionSwitch
    BY <1>6 DEF StopTvOutputOff, StopTvResetFmt, StopTvResetStatus, SetEdidVersionSwitch
  <1>7. CASE StopDecoderTest("cmd") \/ StopDecoderIoctl("cmd") \/ StopDecoderFlag("cmd")
    BY <1>7 DEF StopDecoderTest, StopDecoderIoctl, StopDecoderFlag, AfterStopDecoder
  <1> QED
    BY <1>1, <1>2, <1>3, <1>4, <1>5, <1>6, <1>7 DEF Next, CommandStep

\* A signal to announce is either the one that was, or has just been dispatched.
Announcing ==
    \/ ToAnnounce /\ signal'.status = signal.status /\ signal'.fmt = signal.fmt /\ port' = port
    \/ At("poll", "dispatch") /\ pc'["poll"] \in HandlerSteps \ {"eventFmt", "eventStatus", "sendEvent"}

LEMMA AnnounceNext == ASSUME CoreInv, [Next]_vars, ToAnnounce' PROVE Announcing
  <1> USE DEF CoreInv, TypeOK, PcTypeOK, Thread, Goto, At, tvVars, driverVars, ToAnnounce,
              Following, Watched, Unread, FlagOf, Announcing
  <1>1. CASE CommandBegin \/ CommandStep
    <2>0. UNCHANGED <<handler, tempSignalInfo>> /\ pc'["poll"] = pc["poll"]
      BY <1>1, CommandFrame
    <2>1. CASE CommandBegin
      BY <1>1, <2>0, <2>1, CommandOfLabel
         DEF CommandBegin, StartTvBegin, StopTvBegin, SetEdidVersionBegin
    <2>2. CASE StartTvOpenPort
      BY <2>0, <2>2, CommandOfLabel DEF StartTvOpenPort, NullInfo
    <2>3. CASE StopTvClosePort \/ StopTvOutputOff \/ StopTvClearSource \/ StopTvResetFmt
      BY <2>0, <2>3, CommandOfLabel
         DEF StopTvClosePort, StopTvOutputOff, StopTvClearSource, StopTvResetFmt
    <2>4. CASE StopTvResetStatus
      BY <2>4 DEF StopTvResetStatus
    <2>5. CASE StartTvSetSource \/ SetEdidVersionSwitch
      BY <2>0, <2>5, CommandOfLabel DEF StartTvSetSource, SetEdidVersionSwitch
    <2>6. CASE StopDecoderTest("cmd") \/ StopDecoderIoctl("cmd") \/ StopDecoderFlag("cmd")
      BY <2>0, <2>6 DEF StopDecoderTest, StopDecoderIoctl, StopDecoderFlag
    <2> QED
      BY <1>1, <2>1, <2>2, <2>3, <2>4, <2>5, <2>6 DEF CommandStep
  <1>2. CASE Driver
    BY <1>2 DEF Driver, OtherChange, SignalChange, threadVars
  <1>3. CASE Dispatch
    <2>1. mCurrentSignalInfo.status = signal.status /\ signal.status \in Announced
      BY <1>3, CommandOfLabel DEF Dispatch, ViewInv, StatusView, StatusKnown
    <2> QED
      BY <1>3, <2>1 DEF Dispatch, Announced, HandlerSteps
  <1>4. CASE GetSignalEventInfo \/ GetSignalInfo
    BY <1>4 DEF GetSignalEventInfo, GetSignalInfo, EventHandler, ViewInv, ReadLabels
  <1>5. CASE PollWake \/ ReadSourceType \/ CheckStatus \/ CompareField \/ SetField \/ SetInfoFmt
               \/ SetInfoStatus
    BY <1>5
       DEF PollWake, ReadSourceType, CheckStatus, CompareField, SetField, SetInfoFmt,
           SetInfoStatus, HandlerReturns, ViewInv, ReadLabels
  <1>6. CASE needSnowEffect \/ SetSnowShowEnable \/ LayerOn \/ OutputOn \/ ColorOff
               \/ StartDecoderTest \/ StartDecoderIoctl \/ StartDecoderFlag
    BY <1>6
       DEF needSnowEffect, SetSnowShowEnable, LayerOn, OutputOn, ColorOff, StartDecoderTest,
           StartDecoderIoctl, StartDecoderFlag
  <1>7. CASE StopDecoderTest("poll") \/ StopDecoderIoctl("poll") \/ StopDecoderFlag("poll")
    BY <1>7 DEF StopDecoderTest, StopDecoderIoctl, StopDecoderFlag
  <1>8. CASE EventSource \/ EventFmt \/ EventStatus \/ SendTvEvent
    BY <1>8 DEF EventSource, EventFmt, EventStatus, SendTvEvent, HandlerReturns
  <1>9. CASE UNCHANGED vars
    BY <1>9 DEF vars, threadVars
  <1> QED
    BY <1>1, <1>2, <1>3, <1>4, <1>5, <1>6, <1>7, <1>8, <1>9 DEF Next, PollStep

-----------------------------------------------------------------------------

\* The steps that are not CTv's.
ServiceOnly == sendTvEvent \/ CallClients \/ \E c \in Clients : ClientCall(c)

LEMMA StepKinds ==
    SystemNext =>
        \/ ServiceOnly
        \/ TvStep(CommandBegin \/ CommandStep \/ Driver)
        \/ TvStep(PollStep)
        \/ onTvEventReturns
  BY DEF SystemNext, SystemPoll, ServiceOnly, TvStep

\* Commands and the driver leave the poll thread where it is.
LEMMA OthersFrame ==
    ASSUME TypeOK, CommandBegin \/ CommandStep \/ Driver
    PROVE  UNCHANGED event /\ pc'["poll"] = pc["poll"]
  BY CommandFrame
     DEF TypeOK, CommandBegin, StartTvBegin, StopTvBegin, SetEdidVersionBegin, CommandStep,
         StartTvOpenPort, StartTvSetSource, StopTvOutputOff, StopTvClosePort, StopTvClearSource,
         StopTvResetFmt, StopTvResetStatus, SetEdidVersionSwitch, StopDecoderTest,
         StopDecoderIoctl, StopDecoderFlag, Driver, OtherChange, SignalChange, threadVars

\* What the poll thread does to the event, by where it is.
LEMMA PollEvent ==
    ASSUME TypeOK, PollStep, ~SendTvEvent
    PROVE  /\ ~At("poll", "sendEvent")
           /\ \/ EventSource \/ EventFmt \/ EventStatus
              \/ pc'["poll"] \notin {"eventFmt", "eventStatus", "sendEvent"}
           /\ (EventSource \/ EventFmt \/ EventStatus \/ UNCHANGED event)
  <1> USE DEF TypeOK, PcTypeOK, Thread, Goto, At
  <1>1. CASE PollWake \/ GetSignalEventInfo \/ ReadSourceType \/ GetSignalInfo \/ CheckStatus
               \/ CompareField \/ SetField \/ SetInfoFmt \/ SetInfoStatus \/ Dispatch
               \/ needSnowEffect
    BY <1>1 DEF PollWake, GetSignalEventInfo, ReadSourceType, GetSignalInfo, CheckStatus,
                CompareField, SetField, SetInfoFmt, SetInfoStatus, Dispatch, needSnowEffect,
                HandlerReturns
  <1>2. CASE SetSnowShowEnable \/ LayerOn \/ OutputOn \/ ColorOff \/ StartDecoderTest
               \/ StartDecoderIoctl \/ StartDecoderFlag
    BY <1>2 DEF SetSnowShowEnable, LayerOn, OutputOn, ColorOff, StartDecoderTest,
                StartDecoderIoctl, StartDecoderFlag
  <1>3. CASE StopDecoderTest("poll") \/ StopDecoderIoctl("poll") \/ StopDecoderFlag("poll")
    BY <1>3 DEF StopDecoderTest, StopDecoderIoctl, StopDecoderFlag, AfterStopDecoder
  <1>4. CASE EventSource \/ EventFmt \/ EventStatus
    BY <1>4 DEF EventSource, EventFmt, EventStatus
  <1> QED
    BY <1>1, <1>2, <1>3, <1>4 DEF PollStep

\* The members are read into the event while they agree with the driver.
LEMMA EventNext ==
    ASSUME CoreInv, SourceView, EventView, SystemNext PROVE EventView'
  <1> SUFFICES ASSUME ToAnnounce' PROVE EventView'
    BY DEF EventView
  <1> USE DEF EventView, At
  <1>0. TypeOK /\ [Next]_vars /\ Announcing
    BY CoreStep, AnnounceNext DEF CoreInv
  <1>1. CASE At("poll", "dispatch") /\ pc'["poll"] \notin {"eventFmt", "eventStatus", "sendEvent"}
    BY <1>1
  <1>2. CASE ToAnnounce /\ signal'.status = signal.status /\ signal'.fmt = signal.fmt /\ port' = port
    <2>1. CASE ServiceOnly
      BY <1>2, <2>1
         DEF ServiceOnly, sendTvEvent, CallClients, ClientCall, vars, threadVars
    <2>2. CASE TvStep(CommandBegin \/ CommandStep \/ Driver)
      <3>1. UNCHANGED event /\ pc'["poll"] = pc["poll"]
        BY <1>0, <2>2, OthersFrame DEF TvStep
      <3>2. ~EventSource \/ ~(pc'["poll"] \in {"eventFmt", "eventStatus", "sendEvent"})
        BY <3>1 DEF EventSource
      <3> QED
        BY <1>2, <2>2, <3>1, <3>2 DEF TvStep
    <2>3. CASE onTvEventReturns
      BY <1>0, <2>3 DEF onTvEventReturns, SendTvEvent, HandlerReturns, Goto, TypeOK, PcTypeOK, Thread
    <2>4. CASE TvStep(PollStep)
      <3> USE DEF TypeOK, PcTypeOK, Thread, Goto
      <3>0. event \in SignalEvent
        BY <1>0 DEF LocalTypeOK
      <3>1. CASE EventSource
        <4>1. early' = At("cmd", "setSource") /\ pc'["poll"] = "eventFmt" /\ event'.source = mCurrentSource
          BY <1>0, <2>4, <3>0, <3>1 DEF TvStep, EventSource, SignalEvent
        <4>2. port # NoPort /\ pc'["cmd"] = pc["cmd"]
          BY <1>0, <1>2, <3>1 DEF ToAnnounce, Following, Watched, EventSource
        <4> QED
          BY <1>2, <4>1, <4>2 DEF SourceView
      <3>2. CASE EventFmt \/ EventStatus
        <4>1. early' = early
          BY <2>4, <3>2 DEF TvStep, EventSource, EventFmt, EventStatus
        <4>2. mCurrentSignalInfo.fmt = signal.fmt /\ mCurrentSignalInfo.status = signal.status
          BY <1>0, <1>2, <3>2, CommandOfLabel
             DEF ToAnnounce, Following, CoreInv, ViewInv, StatusView, StatusKnown, EventFmt,
                 EventStatus
        <4>3. CASE EventFmt
          BY <1>0, <1>2, <3>0, <4>1, <4>2, <4>3 DEF EventFmt, SignalEvent
        <4>4. CASE EventStatus
          BY <1>0, <1>2, <3>0, <4>1, <4>2, <4>4 DEF EventStatus, SignalEvent
        <4> QED
          BY <3>2, <4>3, <4>4
      <3>3. CASE pc'["poll"] \notin {"eventFmt", "eventStatus", "sendEvent"}
        BY <3>3
      <3> QED
        BY <1>0, <2>4, <3>1, <3>2, <3>3, PollEvent DEF TvStep
    <2> QED
      BY <2>1, <2>2, <2>3, <2>4, StepKinds
  <1> QED
    BY <1>0, <1>1, <1>2 DEF Announcing

\* While the loop runs the poll thread waits in sendTvEvent and the event stays.
LEMMA LoopNext ==
    ASSUME TypeOK, LoopTells, SystemNext PROVE LoopTells'
  <1> SUFFICES ASSUME sending'
               PROVE  /\ At("poll", "sendEvent")'
                      /\ \A c \in Clients \cap delivered' : told'[c] = event'
    BY DEF LoopTells
  <1> USE DEF LoopTells, At
  <1>1. CASE sendTvEvent
    BY <1>1 DEF sendTvEvent, Service!SendEvent, vars, threadVars
  <1>2. CASE CallClients
    <2>1. UNCHANGED <<pc, event>> /\ sending
      BY <1>2 DEF CallClients, vars, threadVars
    <2>2. told' = [c \in Clients |-> IF c \in delivered' \ delivered THEN event ELSE told[c]]
      BY <1>2 DEF CallClients
    <2> QED
      BY <2>1, <2>2
  <1>3. ASSUME NEW c \in Clients, ClientCall(c) PROVE LoopTells'
    <2>1. UNCHANGED <<pc, event, sending, told>>
      BY <1>3 DEF ClientCall, vars, threadVars
    <2>2. UNCHANGED delivered
      BY <1>3 DEF ClientCall, Service!ClientStep, Service!SetTvServiceCallBack, Service!ScanSlot,
                  Service!AssignSlot, Service!RemoveTvServiceCallBack, Service!ClientDies,
                  Service!senderVars
    <2> QED
      BY <2>1, <2>2
  <1>4. CASE TvStep(CommandBegin \/ CommandStep \/ Driver)
    BY <1>4, OthersFrame DEF TvStep, serviceVars
  <1>5. CASE TvStep(PollStep)
    BY <1>5, PollEvent DEF TvStep, serviceVars
  <1>6. CASE onTvEventReturns
    BY <1>6 DEF onTvEventReturns
  <1> QED
    BY <1>1, <1>2, <1>3, <1>4, <1>5, <1>6, StepKinds DEF ServiceOnly

\* What a client knows stays what it knows while the signal, the port and what it
\* was told stay.
LEMMA KnowsStable ==
    ASSUME NEW c \in Clients, Knows(c), told'[c] = told[c], early' = early, port' = port,
           signal'.status = signal.status, signal'.fmt = signal.fmt
    PROVE  Knows(c)'
  BY DEF Knows

\* A handler that the signal called for ends by telling the clients; a client that
\* comes later is one the loop has missed.
LEMMA ToldNext ==
    ASSUME CoreInv, CallType, EventView, LoopTells, ToldView, SystemNext PROVE ToldView'
  <1> SUFFICES ASSUME ToAnnounce', pc'["poll"] \notin HandlerSteps,
                      NEW c \in Clients, call'[c] = "registered", c \notin missed'
               PROVE  Knows(c)'
    BY DEF ToldView
  <1>0. TypeOK /\ [Next]_vars
    BY CoreStep DEF CoreInv
  <1>1. ToAnnounce /\ signal'.status = signal.status /\ signal'.fmt = signal.fmt /\ port' = port
    BY <1>0, AnnounceNext DEF Announcing
  <1>2. CASE onTvEventReturns
    <2>1. c \in delivered /\ sending /\ At("poll", "sendEvent") /\ UNCHANGED <<told, early>>
      BY <1>2 DEF onTvEventReturns, serviceVars, SendTvEvent
    <2>2. told[c] = event
      BY <2>1 DEF LoopTells
    <2>3. Knows(c)
      BY <1>1, <2>1, <2>2 DEF EventView, Knows, At
    <2> QED
      BY <1>1, <2>1, <2>3, KnowsStable
  <1>3. CASE TvStep(PollStep)
    <2>1. pc["poll"] \notin HandlerSteps
      <3> USE DEF TypeOK, PcTypeOK, Thread, Goto, At, HandlerSteps
      <3>1. CASE PollWake \/ GetSignalEventInfo \/ ReadSourceType \/ GetSignalInfo \/ CheckStatus
                   \/ CompareField \/ SetField \/ SetInfoFmt \/ SetInfoStatus \/ Dispatch
        BY <3>1 DEF PollWake, GetSignalEventInfo, ReadSourceType, GetSignalInfo, CheckStatus,
                    CompareField, SetField, SetInfoFmt, SetInfoStatus, Dispatch
      <3>2. CASE needSnowEffect \/ SetSnowShowEnable \/ LayerOn \/ OutputOn \/ ColorOff
                   \/ StartDecoderTest \/ StartDecoderIoctl \/ StartDecoderFlag
        BY <1>0, <3>2 DEF needSnowEffect, SetSnowShowEnable, LayerOn, OutputOn, ColorOff, StartDecoderTest,
                    StartDecoderIoctl, StartDecoderFlag
      <3>3. CASE StopDecoderTest("poll") \/ StopDecoderIoctl("poll") \/ StopDecoderFlag("poll")
        <4>1. handler # "toUnstable"
          BY <1>1, <3>3
             DEF CoreInv, DisplayInv, ToAnnounce, Following, HandlerOf, Announced,
                 StopDecoderTest, StopDecoderIoctl, StopDecoderFlag
        <4> QED
          BY <1>0, <3>3, <4>1
             DEF StopDecoderTest, StopDecoderIoctl, StopDecoderFlag, AfterStopDecoder
      <3>4. CASE EventSource \/ EventFmt \/ EventStatus
        BY <1>0, <3>4 DEF EventSource, EventFmt, EventStatus
      <3> QED
        BY <1>3, <3>1, <3>2, <3>3, <3>4 DEF TvStep, PollStep
    <2>2. UNCHANGED <<told, early, call, missed>>
      BY <1>3, <2>1 DEF TvStep, serviceVars, EventSource, At, HandlerSteps
    <2> QED
      BY <1>1, <2>1, <2>2, KnowsStable DEF ToldView
  <1>4. CASE TvStep(CommandBegin \/ CommandStep \/ Driver)
    <2>1. pc'["poll"] = pc["poll"]
      BY <1>0, <1>4, OthersFrame DEF TvStep
    <2>2. pc["poll"] \notin HandlerSteps /\ UNCHANGED <<told, early, call, missed>>
      BY <1>4, <2>1 DEF TvStep, serviceVars, EventSource, At, HandlerSteps
    <2> QED
      BY <1>1, <2>2, KnowsStable DEF ToldView
  <1>5. CASE ServiceOnly
    <2>1. UNCHANGED <<pc, early>> /\ pc["poll"] \notin HandlerSteps
      BY <1>5 DEF ServiceOnly, sendTvEvent, CallClients, ClientCall, vars, threadVars
    <2>2. ~sending /\ ~At("poll", "sendEvent")
      BY <2>1 DEF LoopTells, At, HandlerSteps
    <2>3. PICK d \in Clients : ClientCall(d)
      BY <1>5, <2>2 DEF ServiceOnly, sendTvEvent, CallClients
    <2>4. UNCHANGED told
      BY <2>3 DEF ClientCall
    <2>5. call[c] = "registered" /\ c \notin missed
      <3>1. c \notin missed
        BY <2>3 DEF ClientCall
      <3>2. CASE c = d
        BY <2>3, <3>2 DEF ClientCall
      <3>3. CASE c # d
        BY <2>3, <3>3
           DEF ClientCall, CallType, Service!ClientStep, Service!SetTvServiceCallBack,
               Service!ScanSlot, Service!AssignSlot, Service!RemoveTvServiceCallBack,
               Service!ClientDies
      <3> QED
        BY <3>1, <3>2, <3>3
    <2> QED
      BY <1>1, <2>1, <2>4, <2>5, KnowsStable DEF ToldView
  <1> QED
    BY <1>2, <1>3, <1>4, <1>5, StepKinds

\* A step that changes nothing changes none of this.
LEMMA KnowStutter ==
    KnowInv /\ CallType /\ UNCHANGED systemVars => KnowInv' /\ CallType'
  BY DEF KnowInv, SourceView, EventView, LoopTells, ToldView, Knows, CallType, systemVars, vars,
         serviceVars, threadVars, tvVars, driverVars, At, ToAnnounce, Following, Watched, Unread,
         FlagOf

LEMMA KnowNext ==
    CoreInv /\ CallType /\ KnowInv /\ [SystemNext]_systemVars => KnowInv' /\ CallType'
  <1> SUFFICES ASSUME CoreInv, CallType, KnowInv, SystemNext PROVE KnowInv' /\ CallType'
    BY KnowStutter
  <1>1. TypeOK /\ CommandLabels /\ [Next]_vars /\ [Service!Next]_(Service!vars)
    BY CoreStep, ServiceStep DEF CoreInv
  <1> QED
    BY <1>1, CallNext, SourceNext, EventNext, LoopNext, ToldNext DEF KnowInv

LEMMA KnowInit == SystemInit => KnowInv /\ CallType
  BY DEF SystemInit, Init, Service!Init, KnowInv, SourceView, EventView, LoopTells, ToldView,
         CallType, Service!CallState, ToAnnounce, Following, Watched, At, Thread, HandlerSteps

\* Once the service has settled, every client that the last send loop called knows
\* the status, format and input that the driver has, whatever the threads, the
\* driver and other clients have done, but for the ways the code has of dropping a
\* change.
THEOREM ClientsKnow == SystemSpec => []ClientsKnowSignal
  <1>1. CoreInv /\ KnowInv => ClientsKnowSignal
    <2> SUFFICES ASSUME CoreInv, KnowInv, Settled, "STS" \notin lost, signal.status \in Announced
                 PROVE  ClientsKnowSignal
      BY DEF ClientsKnowSignal
    <2>1. ToAnnounce /\ pc["poll"] \notin HandlerSteps
      BY CommandOfLabel
         DEF CoreInv, Settled, Idle, ToAnnounce, Following, Watched, Unread, At, HandlerSteps
    <2> QED
      BY <2>1 DEF KnowInv, ToldView, ClientsKnowSignal
  <1>2. SystemInit => CoreInv /\ CallType /\ KnowInv
    BY CoreInit, KnowInit DEF SystemInit
  <1>3. CoreInv /\ CallType /\ KnowInv /\ [SystemNext]_systemVars
            => (CoreInv /\ CallType /\ KnowInv)'
    <2>1. [SystemNext]_systemVars => [Next]_vars
      BY CoreStep DEF systemVars
    <2> QED
      BY <2>1, CoreNext, KnowNext
  <1> QED
    BY <1>1, <1>2, <1>3, PTL DEF SystemSpec

=============================================================================

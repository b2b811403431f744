-------------------------- MODULE TvCommandsProofs --------------------------
(***************************************************************************)
(* Theorems about TvCommands, for every set of threads, calls and inputs   *)
(* and whatever device calls may fail.                                     *)
(***************************************************************************)
EXTENDS TvCommands, SequenceTheorems, TLAPS

\* What a field of a text can be.
Keyword ==
    {"control", "edid", "hdmi", "set", "get", "TV_CONTROL_START_TV", "TV_CONTROL_STOP_TV",
     "TV_CONTROL_VDIN_WORK_MODE_SET", "TV_CONTROL_GET_FRAME_HEIGHT",
     "TV_CONTROL_GET_FRAME_WIDTH", "TV_CONTROL_GET_FRAME_RATE", "TV_CONTROL_GET_COLOR_DEPTH",
     "TV_CONTROL_GET_LINE_SCAN_MODE", "TV_CONTROL_GET_CONNECT_STATUS", "HDMI_EDID_VER_SET",
     "HDMI_EDID_VER_GET", "HDMI_EDID_DATA_SET", "HDMI_EDID_DATA_GET", "HDMI_GET_ASPECT_RATIO",
     "HDMI_GET_COLOR_FORMAT", "HDMI_GET_COLOR_RANGE"}

Field == Keyword \cup {c.source : c \in Calls} \cup {c.value : c \in Calls}

\* The calls whose text ends with an input or a mode, and those without any.
WithArgument == {"StartTv", "StopTv", "SetVdinWorkMode", "GetSourceConnectStatus"}
Query ==
    {"GetCurrentSourceFrameHeight", "GetCurrentSourceFrameWidth", "GetCurrentSourceFrameFps",
     "GetCurrentSourceColorDepth", "GetCurrentSourceLineScanMode", "GetCurrentSourceAspectRatio",
     "GetCurrentSourceColorFormat", "GetCurrentSourceColorRange"}

SeqTypeOK == words \in [Threads -> Seq(Field)] /\ strtok \in Seq(Field)

ControlOK == ThreadsOK /\ MutexOK /\ service \in {"alive", "killed"}

Inv == SeqTypeOK /\ ControlOK /\ WordsOfText

\* Each text is a sequence of fields and not empty.
LEMMA TextType ==
    ASSUME NEW c \in Calls
    PROVE  /\ Text(c) \in Seq(Field)
           /\ Text(c) # <<>>
           /\ c # NoCall
  <1>1. c.name \in ApiName /\ c.source \in Field /\ c.value \in Field
    BY CallsAssumption DEF Field
  <1>2. Keyword \subseteq Field
    BY DEF Field
  <1>3. c # NoCall
    BY <1>1 DEF ApiName, NoCall
  <1>4. Text(c) \in Seq(Field) /\ Text(c) # <<>>
    <2>1. \/ \E x, y \in Field : Text(c) = <<x, y>>
          \/ \E x, y, z \in Field : Text(c) = <<x, y, z>>
          \/ \E x, y, z, u \in Field : Text(c) = <<x, y, z, u>>
          \/ \E x, y, z, u, v \in Field : Text(c) = <<x, y, z, u, v>>
      <3> USE <1>1, <1>2 DEF Text, Keyword
      <3>1. CASE c.name \in WithArgument
        <4>1. \E y, z \in Field : Text(c) = <<"control", y, z>>
          BY <3>1 DEF WithArgument
        <4> QED
          BY <4>1
      <3>2. CASE c.name \in {"SetEdidVersion", "GetEdidVersion", "GetEdidData", "SetEdidData"}
        BY <3>2
      <3>3. CASE c.name \in Query
        BY <3>3 DEF Query
      <3> QED
        BY <3>1, <3>2, <3>3 DEF ApiName, WithArgument, Query
    <2>2. ASSUME NEW x \in Field, NEW y \in Field, Text(c) = <<x, y>> 
          PROVE  Text(c) \in Seq(Field) /\ Text(c) # <<>>
      BY <2>2
    <2>3. ASSUME NEW x \in Field, NEW y \in Field, NEW z \in Field, Text(c) = <<x, y, z>>
          PROVE  Text(c) \in Seq(Field) /\ Text(c) # <<>>
      BY <2>3
    <2>4. ASSUME NEW x \in Field, NEW y \in Field, NEW z \in Field, NEW u \in Field,
                 Text(c) = <<x, y, z, u>>
          PROVE  Text(c) \in Seq(Field) /\ Text(c) # <<>>
      BY <2>4
    <2>5. ASSUME NEW x \in Field, NEW y \in Field, NEW z \in Field, NEW u \in Field,
                 NEW v \in Field, Text(c) = <<x, y, z, u, v>>
          PROVE  Text(c) \in Seq(Field) /\ Text(c) # <<>>
      BY <2>5
    <2> QED
      BY <2>1, <2>2, <2>3, <2>4, <2>5
  <1> QED
    BY <1>3, <1>4

\* Taking the next field moves it from what is left to what is taken.
LEMMA TakeOne ==
    ASSUME NEW w \in Seq(Field), NEW s \in Seq(Field), s # <<>>
    PROVE  Append(w, Head(s)) \o Tail(s) = w \o s
  OBVIOUS

LEMMA InvInit == Init => Inv
  BY ThreadsAssumption DEF Init, Inv, SeqTypeOK, ControlOK, ThreadsOK, MutexOK, WordsOfText, PC

\* Only the thread that holds the mutex uses strtok.
LEMMA InvNext == Inv /\ [Next]_vars => Inv'
  <1> SUFFICES ASSUME Inv, [Next]_vars PROVE Inv'
    OBVIOUS
  <1> USE ThreadsAssumption DEF Inv, SeqTypeOK, ControlOK, ThreadsOK, MutexOK, WordsOfText, PC
  <1>1. ASSUME NEW t \in Threads, NEW c \in Calls, Send(t, c) PROVE Inv'
    BY <1>1, TextType DEF Send
  <1>2. ASSUME NEW t \in Threads, Enter(t) PROVE Inv'
    <2> DEFINE text == Text(request[t])
    <2>1. request[t] \in Calls /\ pc[t] = "sent" /\ service = "alive" /\ tvservice_mutex = Nobody
      BY <1>2 DEF Enter
    <2>2. text \in Seq(Field) /\ text # <<>>
      BY <2>1, TextType
    <2>3. /\ Head(text) \in Field /\ Tail(text) \in Seq(Field)
          /\ <<Head(text)>> \in Seq(Field) /\ <<Head(text)>> # <<>>
          /\ <<Head(text)>> \o Tail(text) = text
      BY <2>2
    <2> HIDE DEF text
    <2>4. /\ pc' = [pc EXCEPT ![t] = "parse"]
          /\ words' = [words EXCEPT ![t] = <<Head(text)>>]
          /\ strtok' = Tail(text)
          /\ tvservice_mutex' = t
          /\ UNCHANGED <<request, ret, service>>
      BY <1>2 DEF Enter, text
    <2>5. SeqTypeOK'
      BY <2>3, <2>4
    <2>6. ControlOK'
      BY <2>1, <2>3, <2>4
    <2>7. WordsOfText'
      BY <2>1, <2>3, <2>4 DEF text
    <2> QED
      BY <2>5, <2>6, <2>7
  <1>3. ASSUME NEW t \in Threads, TakeField(t) PROVE Inv'
    <2> DEFINE taken == Append(words[t], Head(strtok))
    <2>1. pc[t] = "parse" /\ service = "alive" /\ tvservice_mutex = t
      BY <1>3 DEF TakeField, Wanting
    <2>2. /\ taken \in Seq(Field) /\ taken # <<>> /\ Tail(strtok) \in Seq(Field)
          /\ taken \o Tail(strtok) = words[t] \o strtok
      <3>1. words[t] \in Seq(Field) /\ strtok \in Seq(Field) /\ strtok # <<>>
        BY <1>3 DEF TakeField
      <3> QED
        BY <3>1, TakeOne
    <2> HIDE DEF taken
    <2>3. /\ words' = [words EXCEPT ![t] = taken]
          /\ strtok' = Tail(strtok)
          /\ UNCHANGED <<pc, request, ret, tvservice_mutex, service>>
      BY <1>3 DEF TakeField, taken
    <2>4. SeqTypeOK' /\ ControlOK'
      BY <2>1, <2>2, <2>3
    <2>5. WordsOfText'
      BY <2>1, <2>2, <2>3
    <2> QED
      BY <2>4, <2>5
  <1>4. ASSUME NEW t \in Threads, Execute(t) PROVE Inv'
    BY <1>4 DEF Execute
  <1>5. ASSUME NEW t \in Threads, Reply(t) PROVE Inv'
    BY <1>5 DEF Reply
  <1>6. ASSUME NEW t \in Threads, TransactFails(t) PROVE Inv'
    BY <1>6 DEF TransactFails
  <1>7. ASSUME NEW t \in Threads, Return(t) PROVE Inv'
    BY <1>7 DEF Return
  <1>8. ASSUME NEW r \in Readings, Change(r) PROVE Inv'
    BY <1>8 DEF Change
  <1>9. CASE Kill
    BY <1>9 DEF Kill
  <1>10. CASE UNCHANGED vars
    BY <1>10 DEF vars
  <1> QED
    BY <1>1, <1>2, <1>3, <1>4, <1>5, <1>6, <1>7, <1>8, <1>9, <1>10 DEF Next, CallStep

-----------------------------------------------------------------------------

\* What a thread in the dispatcher knows of its text.
LEMMA WordsKnown ==
    ASSUME Inv, NEW t \in Threads, service = "alive", pc[t] = "parse"
    PROVE  /\ request[t] \in Calls
           /\ Len(words[t]) \in Nat \ {0} /\ Len(strtok) \in Nat
           /\ Len(words[t]) + Len(strtok) = Len(Text(request[t]))
           /\ \A i \in 1 .. Len(words[t]) : words[t][i] = Text(request[t])[i]
  <1>1. request[t] \in Calls
    BY DEF Inv, ControlOK, ThreadsOK
  <1>2. /\ words[t] \in Seq(Field) /\ strtok \in Seq(Field) /\ words[t] # <<>>
        /\ words[t] \o strtok = Text(request[t])
    BY DEF Inv, SeqTypeOK, ControlOK, ThreadsOK, MutexOK, WordsOfText
  <1> QED
    BY <1>1, <1>2

\* The dispatcher never runs out of the fields it asks for, whatever other
\* threads do: the texts of the client library have them.
THEOREM FieldsAreFound == Spec => []FieldsFound
  <1>1. Inv => FieldsFound
    <2> SUFFICES ASSUME Inv, NEW t \in Threads, Wanting(t), strtok = <<>> PROVE FALSE
      BY DEF FieldsFound
    <2> DEFINE c == request[t]
               n == Len(words[t])
    <2>1. /\ c \in Calls /\ n \in Nat \ {0} /\ n = Len(Text(c))
          /\ \A i \in 1 .. n : words[t][i] = Text(c)[i]
      BY WordsKnown DEF Wanting
    <2>2. WantsMore(Code(c), words[t])
      BY DEF Wanting
    <2>3. c.name \in ApiName
      BY <2>1, CallsAssumption
    <2> HIDE DEF c
    <2>4. CASE c.name = "SetEdidData"
      <3>1. Len(Text(c)) = 2 /\ Code(c) = "DATA_SET_ACTION"
        BY <2>4 DEF Text, Code
      <3> QED
        BY <2>1, <2>2, <3>1 DEF WantsMore
    <2>5. CASE c.name \in WithArgument
      <3>1. Len(Text(c)) = 3 /\ Text(c)[1] = "control" /\ Code(c) = "CMD_TV_ACTION"
        BY <2>5 DEF Text, Code, WithArgument
      <3> QED
        BY <2>1, <2>2, <3>1 DEF WantsMore
    <2>6. CASE c.name = "SetEdidVersion"
      <3>1. Len(Text(c)) = 5 /\ Code(c) = "CMD_TV_ACTION"
        BY <2>6 DEF Text, Code
      <3> QED
        BY <2>1, <2>2, <3>1 DEF WantsMore
    <2>7. CASE c.name \in {"GetEdidVersion", "GetEdidData"}
      <3>1. Len(Text(c)) = 4 /\ Text(c)[2] = "get" /\ Code(c) = "CMD_TV_ACTION"
        BY <2>7 DEF Text, Code
      <3> QED
        BY <2>1, <2>2, <3>1 DEF WantsMore
    <2>8. CASE c.name \in Query
      <3>1. /\ Len(Text(c)) = 2 /\ Code(c) = "CMD_TV_ACTION"
            /\ Text(c)[1] \in {"control", "hdmi"} /\ Text(c)[2] \notin WithField
        BY <2>8 DEF Text, Code, Query, WithField
      <3> QED
        BY <2>1, <2>2, <3>1 DEF WantsMore
    <2> QED
      BY <2>3, <2>4, <2>5, <2>6, <2>7, <2>8 DEF ApiName, WithArgument, Query
  <1> QED
    BY <1>1, InvInit, InvNext, PTL DEF Spec

-----------------------------------------------------------------------------

\* TvApi's operations are the ones the dispatcher calls.
LEMMA SameOperations ==
    /\ \A source : Api!StartTv(tv, source) = StartTv(tv, source)
    /\ \A source : Api!StopTv(tv, source) = StopTv(tv, source)
    /\ \A mode : Api!SetVdinWorkMode(tv, mode) = SetVdinWorkMode(tv, mode)
    /\ \A source : Api!GetEdidVersion(tv, source) = GetEdidVersion(tv, source)
    /\ \A source, version :
           Api!SetEdidVersion(tv, source, version) = SetEdidVersion(tv, source, version)
    /\ \A source, block : Api!SetEDIDData(tv, source, block) = SetEDIDData(tv, source, block)
    /\ \A source : Api!GetEDIDData(tv, source) = GetEDIDData(tv, source)
    /\ \A field : Api!GetFrontendInfo(tv, field) = GetFrontendInfo(tv, field)
    /\ \A field : Api!GetCurrentSourceInfo(tv, field) = GetCurrentSourceInfo(tv, field)
    /\ Api!GetColorRangeMode(tv) = GetColorRangeMode(tv)
    /\ \A source : Api!GetSourceConnectStatus(tv, source) = GetSourceConnectStatus(tv, source)
  <1>1. \A source : Api!StartTv(tv, source) = StartTv(tv, source)
    BY DEF StartTv, Api!StartTv, Outcome, Api!Outcome, MaySucceedOrFail,
           Api!MaySucceedOrFail
  <1>2. \A source : Api!StopTv(tv, source) = StopTv(tv, source)
    BY DEF StopTv, Api!StopTv, MaySucceedOrFail, Api!MaySucceedOrFail
  <1>3. \A mode : Api!SetVdinWorkMode(tv, mode) = SetVdinWorkMode(tv, mode)
    BY DEF SetVdinWorkMode, Api!SetVdinWorkMode, Outcome, Api!Outcome
  <1>4. \A source : Api!GetEdidVersion(tv, source) = GetEdidVersion(tv, source)
    BY DEF GetEdidVersion, Api!GetEdidVersion, Answers, Api!Answers, GetEdidVersionOf,
           Api!GetEdidVersionOf, Hdmi, Api!Hdmi
  <1>5. \A source, version :
             Api!SetEdidVersion(tv, source, version) = SetEdidVersion(tv, source, version)
    BY DEF SetEdidVersion, Api!SetEdidVersion, Answers, Api!Answers, GetEdidVersionOf,
           Api!GetEdidVersionOf, Hdmi, Api!Hdmi, Outcome, Api!Outcome, MaySucceedOrFail,
           Api!MaySucceedOrFail
  <1>6. \A source, block : Api!SetEDIDData(tv, source, block) = SetEDIDData(tv, source, block)
    BY DEF SetEDIDData, Api!SetEDIDData, Outcome, Api!Outcome, MaySucceedOrFail,
           Api!MaySucceedOrFail
  <1>7. \A source : Api!GetEDIDData(tv, source) = GetEDIDData(tv, source)
    BY DEF GetEDIDData, Api!GetEDIDData, Answers, Api!Answers
  <1>8. \A field : Api!GetFrontendInfo(tv, field) = GetFrontendInfo(tv, field)
    BY DEF GetFrontendInfo, Api!GetFrontendInfo, Answers, Api!Answers, MaySucceedOrFail,
           Api!MaySucceedOrFail
  <1>9. \A field : Api!GetCurrentSourceInfo(tv, field) = GetCurrentSourceInfo(tv, field)
    BY DEF GetCurrentSourceInfo, Api!GetCurrentSourceInfo, Answers, Api!Answers
  <1>10. Api!GetColorRangeMode(tv) = GetColorRangeMode(tv)
    BY DEF GetColorRangeMode, Api!GetColorRangeMode, Answers, Api!Answers, MaySucceedOrFail,
           Api!MaySucceedOrFail
  <1>11. \A source : Api!GetSourceConnectStatus(tv, source) = GetSourceConnectStatus(tv, source)
    BY DEF GetSourceConnectStatus, Api!GetSourceConnectStatus, Answers, Api!Answers, Hdmi,
           Api!Hdmi, Av, Api!Av, PLUG_IN, Api!PLUG_IN, PLUG_OUT, Api!PLUG_OUT,
           MaySucceedOrFail, Api!MaySucceedOrFail
  <1> QED
    BY <1>1, <1>2, <1>3, <1>4, <1>5, <1>6, <1>7, <1>8, <1>9, <1>10, <1>11

\* When the dispatcher asks for no more fields it has them all,
LEMMA WordsComplete ==
    ASSUME Inv, NEW t \in Threads, service = "alive", pc[t] = "parse",
           ~WantsMore(Code(request[t]), words[t])
    PROVE  /\ request[t] \in Calls
           /\ Len(words[t]) = Len(Text(request[t]))
           /\ \A i \in 1 .. Len(words[t]) : words[t][i] = Text(request[t])[i]
  <1> DEFINE c == request[t]
             w == words[t]
  <1>1. /\ c \in Calls /\ Len(w) \in Nat \ {0} /\ Len(w) <= Len(Text(c))
        /\ \A i \in 1 .. Len(w) : w[i] = Text(c)[i]
    BY WordsKnown
  <1>2. c.name \in ApiName
    BY <1>1, CallsAssumption
  <1>3. ~WantsMore(Code(c), w)
    OBVIOUS
  <1>4. PICK n \in Nat \ {0} :
            /\ Len(w) = n /\ n <= Len(Text(c)) /\ w[1] = Text(c)[1]
            /\ n >= 2 => w[2] = Text(c)[2]
            /\ n >= 3 => w[3] = Text(c)[3]
    BY <1>1
  <1> SUFFICES ASSUME n < Len(Text(c)) PROVE WantsMore(Code(c), w)
    BY <1>1, <1>3, <1>4, TextType
  <1> HIDE DEF c, w
  <1>5. CASE c.name = "SetEdidData"
    <2>1. /\ Len(Text(c)) = 2 /\ Text(c)[1] = "HDMI_EDID_DATA_SET"
          /\ Code(c) = "DATA_SET_ACTION"
      BY <1>5 DEF Text, Code
    <2> QED
      BY <1>4, <2>1 DEF WantsMore
  <1>6. CASE c.name \in WithArgument
    <2>1. /\ Len(Text(c)) = 3 /\ Text(c)[1] = "control" /\ Text(c)[2] \in WithField
          /\ Code(c) = "CMD_TV_ACTION"
      BY <1>6 DEF Text, Code, WithArgument, WithField
    <2> QED
      BY <1>4, <2>1 DEF WantsMore
  <1>7. CASE c.name = "SetEdidVersion"
    <2>1. /\ Len(Text(c)) = 5 /\ Text(c)[1] = "edid" /\ Text(c)[2] = "set"
          /\ Text(c)[3] = "HDMI_EDID_VER_SET" /\ Code(c) = "CMD_TV_ACTION"
      BY <1>7 DEF Text, Code
    <2> QED
      BY <1>4, <2>1 DEF WantsMore
  <1>8. CASE c.name \in {"GetEdidVersion", "GetEdidData"}
    <2>1. /\ Len(Text(c)) = 4 /\ Text(c)[1] = "edid" /\ Text(c)[2] = "get"
          /\ Code(c) = "CMD_TV_ACTION"
      BY <1>8 DEF Text, Code
    <2> QED
      BY <1>4, <2>1 DEF WantsMore
  <1>9. CASE c.name \in Query
    <2>1. /\ Len(Text(c)) = 2 /\ Text(c)[1] \in {"control", "hdmi"}
          /\ Code(c) = "CMD_TV_ACTION"
      BY <1>9 DEF Text, Code, Query
    <2> QED
      BY <1>4, <2>1 DEF WantsMore
  <1> QED
    BY <1>2, <1>5, <1>6, <1>7, <1>8, <1>9 DEF ApiName, WithArgument, Query

\* ... and then it calls the operation that the function of the library promises.
LEMMA DispatchesTheCall ==
    ASSUME Inv, NEW t \in Threads, service = "alive", pc[t] = "parse",
           ~WantsMore(Code(request[t]), words[t])
    PROVE  Operation(request[t], words[t]) = Api!Promise(request[t])
  <1> DEFINE c == request[t]
             w == words[t]
  <1>1. /\ c \in Calls /\ Len(w) = Len(Text(c))
        /\ \A i \in 1 .. Len(w) : w[i] = Text(c)[i]
    BY WordsComplete
  <1>2. c.name \in ApiName
    BY <1>1, CallsAssumption
  <1> SUFFICES Operation(c, w) = Api!Promise(c)
    OBVIOUS
  <1> HIDE DEF c, w
  <1>3. CASE c.name = "SetEdidData"
    <2>1. w[1] = "HDMI_EDID_DATA_SET" /\ w[2] = c.source /\ Code(c) = "DATA_SET_ACTION"
      BY <1>1, <1>3 DEF Text, Code
    <2> QED
      BY <1>3, <2>1, SameOperations DEF Operation, DataCommand, Api!Promise
  <1>4. CASE c.name \in WithArgument
    <2>1. /\ w[1] = "control" /\ Code(c) = "CMD_TV_ACTION"
          /\ c.name = "StartTv" => w[2] = "TV_CONTROL_START_TV" /\ w[3] = c.source
          /\ c.name = "StopTv" => w[2] = "TV_CONTROL_STOP_TV" /\ w[3] = c.source
          /\ c.name = "SetVdinWorkMode" =>
                w[2] = "TV_CONTROL_VDIN_WORK_MODE_SET" /\ w[3] = c.value
          /\ c.name = "GetSourceConnectStatus" =>
                w[2] = "TV_CONTROL_GET_CONNECT_STATUS" /\ w[3] = c.source
      BY <1>1, <1>4 DEF Text, Code, WithArgument
    <2> QED
      BY <1>4, <2>1, SameOperations DEF Operation, Control, Api!Promise, WithArgument
  <1>5. CASE c.name = "SetEdidVersion"
    <2>1. /\ w[1] = "edid" /\ w[2] = "set" /\ w[3] = "HDMI_EDID_VER_SET"
          /\ w[4] = c.source /\ w[5] = c.value /\ Code(c) = "CMD_TV_ACTION"
      BY <1>1, <1>5 DEF Text, Code
    <2> QED
      BY <1>5, <2>1, SameOperations DEF Operation, Edid, Api!Promise
  <1>6. CASE c.name = "GetEdidVersion"
    <2>1. /\ w[1] = "edid" /\ w[2] = "get" /\ w[3] = "HDMI_EDID_VER_GET"
          /\ w[4] = c.source /\ Code(c) = "CMD_TV_ACTION"
      BY <1>1, <1>6 DEF Text, Code
    <2> QED
      BY <1>6, <2>1, SameOperations DEF Operation, Edid, Api!Promise
  <1>7. CASE c.name = "GetEdidData"
    <2>1. /\ w[1] = "edid" /\ w[2] = "get" /\ w[3] = "HDMI_EDID_DATA_GET"
          /\ w[4] = c.source /\ Code(c) = "CMD_TV_ACTION"
      BY <1>1, <1>7 DEF Text, Code
    <2> QED
      BY <1>7, <2>1, SameOperations DEF Operation, Edid, Api!Promise, GetEDIDData
  <1>8. CASE c.name \in Query
    <2>1. /\ Code(c) = "CMD_TV_ACTION"
          /\ w[1] = Text(c)[1] /\ w[2] = Text(c)[2]
      BY <1>1, <1>8 DEF Text, Code, Query
    <2>2. CASE c.name \in {"GetCurrentSourceAspectRatio", "GetCurrentSourceColorFormat",
                          "GetCurrentSourceColorRange"}
      BY <2>1, <2>2, SameOperations DEF Operation, HdmiCommand, Api!Promise, Text
    <2>3. CASE c.name \notin {"GetCurrentSourceAspectRatio", "GetCurrentSourceColorFormat",
                             "GetCurrentSourceColorRange"}
      BY <1>8, <2>1, <2>3, SameOperations DEF Operation, Control, Api!Promise, Text, Query
    <2> QED
      BY <2>2, <2>3
  <1> QED
    BY <1>2, <1>3, <1>4, <1>5, <1>6, <1>7, <1>8 DEF ApiName, WithArgument, Query

\* A step of the service is a step of the library's promise or none.
LEMMA ApiNext == Inv /\ [Next]_vars => [Api!Next]_(Api!vars)
  <1> SUFFICES ASSUME Inv, [Next]_vars PROVE Api!Next \/ UNCHANGED Api!vars
    OBVIOUS
  <1> DEFINE Answer == [t \in Threads |-> IF pc[t] \in {"executed", "replied"}
                                          THEN <<ret[t]>> ELSE <<>>]
  <1> USE DEF Inv, ControlOK, ThreadsOK, MutexOK, PC, Api!vars, Api!NoCall, NoCall, Api!Pending
  <1>1. ASSUME NEW t \in Threads, NEW c \in Calls, Send(t, c) PROVE Api!Ask(t, c)
    BY <1>1 DEF Send, Api!Ask
  <1>2. ASSUME NEW t \in Threads, Enter(t) PROVE UNCHANGED Api!vars
    BY <1>2 DEF Enter
  <1>3. ASSUME NEW t \in Threads, TakeField(t) PROVE UNCHANGED Api!vars
    BY <1>3 DEF TakeField
  <1>4. ASSUME NEW t \in Threads, Execute(t) PROVE Api!Perform(t)
    <2>1. Operation(request[t], words[t]) = Api!Promise(request[t])
      BY <1>4, DispatchesTheCall DEF Execute
    <2>2. PICK o \in Api!Promise(request[t]) : tv' = o.tv /\ ret' = [ret EXCEPT ![t] = o.ret]
      BY <1>4, <2>1 DEF Execute
    <2>3. Answer[t] = <<>> /\ request[t] # NoCall /\ service = "alive"
      BY <1>4 DEF Execute
    <2>4. Answer' = [Answer EXCEPT ![t] = <<o.ret>>]
      BY <1>4, <2>2 DEF Execute
    <2>5. request' = request /\ (service' = "alive") = (service = "alive")
      BY <1>4 DEF Execute
    <2> QED
      BY <2>2, <2>3, <2>4, <2>5 DEF Api!Perform
  <1>5. ASSUME NEW t \in Threads, Reply(t) PROVE UNCHANGED Api!vars
    BY <1>5 DEF Reply
  <1>6. ASSUME NEW t \in Threads, TransactFails(t) PROVE Api!Fail(t)
    <2>1. /\ service # "alive" /\ request[t] # NoCall /\ UNCHANGED <<request, tv>>
          /\ (service' = "alive") = (service = "alive")
      BY <1>6 DEF TransactFails
    <2>2. Answer' = [Answer EXCEPT ![t] = <<"-1">>]
      BY <1>6 DEF TransactFails
    <2> QED
      BY <2>1, <2>2 DEF Api!Fail
  <1>7. ASSUME NEW t \in Threads, Return(t) PROVE Api!Return(t)
    <2>1. /\ request' = [request EXCEPT ![t] = NoCall] /\ UNCHANGED tv
          /\ (service' = "alive") = (service = "alive")
      BY <1>7 DEF Return
    <2>2. Answer[t] # <<>> /\ Answer' = [Answer EXCEPT ![t] = <<>>]
      BY <1>7 DEF Return
    <2> QED
      BY <2>1, <2>2 DEF Api!Return
  <1>8. ASSUME NEW r \in Readings, Change(r) PROVE Api!Change(r)
    BY <1>8 DEF Change, Api!Change
  <1>9. ASSUME Kill PROVE Api!Kill
    <2>1. (service' = "alive") = FALSE /\ UNCHANGED <<request, tv>>
      BY <1>9 DEF Kill
    <2>2. Answer' = Answer
      BY <1>9 DEF Kill
    <2> QED
      BY <2>1, <2>2 DEF Api!Kill
  <1>10. CASE UNCHANGED vars
    BY <1>10 DEF vars
  <1> QED
    BY <1>1, <1>2, <1>3, <1>4, <1>5, <1>6, <1>7, <1>8, <1>9, <1>10 DEF Next, CallStep, Api!Next

\* Each call that a client makes is performed as the function of the library
\* promises: at one instant, at most once, with that operation's result, or fails
\* with -1 when the service is gone.
THEOREM CommandsImplementApi == Spec => ImplementsApi
  <1>1. Init => Api!Init
    BY ThreadsAssumption DEF Init, Api!Init, Api!Pending, Api!NoCall, NoCall, Api!Fresh, Fresh,
                             Api!Hdmi, Hdmi
  <1> QED
    BY <1>1, InvInit, InvNext, ApiNext, PTL DEF Spec, ImplementsApi, Api!Spec

\* A query changes nothing of the TV.
LEMMA QueriesKeepTv ==
    /\ \A source : \A o \in GetEdidVersion(tv, source) : o.tv = tv
    /\ \A source : \A o \in GetEDIDData(tv, source) : o.tv = tv
    /\ \A field : \A o \in GetFrontendInfo(tv, field) : o.tv = tv
    /\ \A field : \A o \in GetCurrentSourceInfo(tv, field) : o.tv = tv
    /\ \A o \in GetColorRangeMode(tv) : o.tv = tv
    /\ \A source : \A o \in GetSourceConnectStatus(tv, source) : o.tv = tv
  <1>1. \A values : \A o \in Answers(tv, values) : o.tv = tv
    BY DEF Answers
  <1> QED
    BY <1>1 DEF GetEdidVersion, GetEDIDData, GetFrontendInfo, GetCurrentSourceInfo,
                GetColorRangeMode, GetSourceConnectStatus

\* An operation leaves the TV in a state of its type.
LEMMA OutcomeType ==
    ASSUME tv \in TvState, NEW c \in Calls, NEW o \in Api!Promise(c) PROVE o.tv \in TvState
  <1>1. c.name \in ApiName
    BY CallsAssumption
  <1>2. CASE c.name = "StartTv"
    <2>1. o \in StartTv(tv, c.source) /\ c.source \in Sources
      BY <1>2, SameOperations, ArgumentsAssumption DEF Api!Promise
    <2> QED
      BY <2>1 DEF StartTv, Outcome, TvState
  <1>3. CASE c.name = "StopTv"
    <2>1. o \in StopTv(tv, c.source)
      BY <1>3, SameOperations DEF Api!Promise
    <2> QED
      <3>1. PICK ok \in MaySucceedOrFail("close") :
               o = [tv  |-> [tv EXCEPT !.port = IF ok THEN "NO_PORT" ELSE tv.port,
                                       !.mVdinWorkMode = "VDIN_WORK_MODE_VFM"],
                    ret |-> "0"]
        BY <2>1 DEF StopTv
      <3>2. tv.port \in Sources \cup {"NO_PORT"}
        BY DEF TvState
      <3>3. PICK p \in Sources \cup {"NO_PORT"} :
               o.tv = [tv EXCEPT !.port = p, !.mVdinWorkMode = "VDIN_WORK_MODE_VFM"]
        BY <3>1, <3>2
      <3> QED
        BY <3>3, ModesAssumption DEF TvState
  <1>4. CASE c.name = "SetVdinWorkMode"
    <2>1. o \in SetVdinWorkMode(tv, c.value) /\ c.value \in WorkModes
      BY <1>4, SameOperations, ArgumentsAssumption DEF Api!Promise
    <2> QED
      BY <2>1 DEF SetVdinWorkMode, Outcome, TvState
  <1>5. CASE c.name = "SetEdidVersion"
    <2>1. o \in SetEdidVersion(tv, c.source, c.value) /\ c.value \in EdidVersions
      BY <1>5, SameOperations, ArgumentsAssumption DEF Api!Promise
    <2> DEFINE versions == [s \in Hdmi |-> IF s = c.source THEN c.value ELSE tv.edidVersion[s]]
    <2>2. versions \in [Hdmi -> EdidVersions]
      BY <2>1 DEF TvState
    <2> HIDE DEF versions
    <2>3. [tv EXCEPT !.edidVersion = versions] \in TvState
      BY <2>2 DEF TvState
    <2>4. o.tv \in {tv, [tv EXCEPT !.edidVersion = versions]}
      BY <2>1 DEF SetEdidVersion, Answers, Outcome, versions
    <2> QED
      BY <2>3, <2>4
  <1>6. CASE c.name = "SetEdidData"
    <2>1. o \in SetEDIDData(tv, c.source, c.value) /\ c.source \in Sources /\ c.value \in EdidBlocks
      BY <1>6, SameOperations, ArgumentsAssumption DEF Api!Promise
    <2> DEFINE blocks == [tv.block EXCEPT ![c.source] = c.value]
    <2>2. blocks \in [Sources -> EdidBlocks \cup {"none"}]
      BY <2>1 DEF TvState
    <2>3. [tv EXCEPT !.block[c.source] = c.value] = [tv EXCEPT !.block = blocks]
      BY DEF TvState
    <2> HIDE DEF blocks
    <2>4. [tv EXCEPT !.block = blocks] \in TvState
      BY <2>2 DEF TvState
    <2>5. o.tv \in {tv, [tv EXCEPT !.block = blocks]}
      <3>1. PICK ok \in MaySucceedOrFail("edid") :
               o = Outcome(ok, tv, [tv EXCEPT !.block[c.source] = c.value])
        BY <2>1 DEF SetEDIDData
      <3> QED
        BY <2>3, <3>1 DEF Outcome
    <2> QED
      BY <2>4, <2>5
  <1>7. CASE c.name \in Query \cup {"GetEdidVersion", "GetEdidData", "GetSourceConnectStatus"}
    <2>1. o.tv = tv
      BY <1>7, SameOperations, QueriesKeepTv DEF Api!Promise, Query
    <2> QED
      BY <2>1
  <1> QED
    BY <1>1, <1>2, <1>3, <1>4, <1>5, <1>6, <1>7 DEF ApiName, Query

\* Every variable keeps its type, and the mutex is held exactly between the lock
\* and the unlock of a parser.
THEOREM CommandsTypeCorrect == Spec => []TypeOK
  <1>1. Init => tv \in TvState
    BY ModesAssumption, VersionsAssumption DEF Init, Fresh, TvState
  <1>2. Inv /\ tv \in TvState /\ [Next]_vars => (tv \in TvState)'
    <2> SUFFICES ASSUME Inv, tv \in TvState, [Next]_vars PROVE tv' \in TvState
      OBVIOUS
    <2>1. ASSUME NEW t \in Threads, Execute(t) PROVE tv' \in TvState
      <3>1. request[t] \in Calls
        BY <2>1, WordsKnown DEF Execute
      <3>2. Operation(request[t], words[t]) = Api!Promise(request[t])
        BY <2>1, DispatchesTheCall DEF Execute
      <3> QED
        BY <2>1, <3>1, <3>2, OutcomeType DEF Execute
    <2>2. ASSUME NEW r \in Readings, Change(r) PROVE tv' \in TvState
      BY <2>2 DEF Change, TvState
    <2>3. ASSUME NEW t \in Threads, ~Execute(t), CallStep(t) PROVE tv' = tv
      BY <2>3 DEF CallStep, TakeField, Reply, TransactFails, Return
    <2>4. ASSUME NEW t \in Threads, (\E c \in Calls : Send(t, c)) \/ Enter(t) PROVE tv' = tv
      BY <2>4 DEF Send, Enter
    <2>5. Kill \/ UNCHANGED vars => tv' = tv
      BY DEF Kill, vars
    <2> QED
      BY <2>1, <2>2, <2>3, <2>4, <2>5 DEF Next
  <1>3. Inv /\ tv \in TvState => TypeOK
    BY DEF Inv, ControlOK, TypeOK
  <1> QED
    BY <1>1, <1>2, <1>3, InvInit, InvNext, PTL DEF Spec

=============================================================================

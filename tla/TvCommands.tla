----------------------------- MODULE TvCommands -----------------------------
(***************************************************************************)
(* A call of the client library on its way: TvClient (src/client/          *)
(* TvClient.cpp) writes it as text, tvservice (src/service/TvService.cpp)  *)
(* takes the text apart, performs an operation of CTv and replies.         *)
(*                                                                         *)
(* The calls of all threads of all clients arrive on the binder threads of *)
(* the service.  They are kept apart by tvservice_mutex alone: the text is *)
(* taken apart by strtok, whose position is one variable of the process.   *)
(*                                                                         *)
(* A text is the sequence of its fields; an enumerator stands for its      *)
(* number, and a last field that is empty, which strtok does not see, is   *)
(* left out.                                                               *)
(***************************************************************************)
EXTENDS TvOperations, Naturals, Sequences

CONSTANTS
    Threads,  \* threads of clients
    Calls     \* the calls they make

VARIABLES
    pc,        \* where each thread's call stands
    request,   \* the call each thread is in
    words,     \* the fields the dispatcher has taken from its text
    ret,       \* its return value
    tvservice_mutex,
    strtok,    \* the fields strtok has still to return
    tv,
    service    \* "alive" or "killed"

vars == <<pc, request, words, ret, tvservice_mutex, strtok, tv, service>>

NoCall == [name |-> "none", source |-> "SOURCE_INVALID", value |-> "0"]
Nobody == "nobody"

ApiName ==
    {"StartTv", "StopTv", "SetVdinWorkMode", "SetEdidVersion", "GetEdidVersion", "SetEdidData",
     "GetEdidData", "GetCurrentSourceFrameHeight", "GetCurrentSourceFrameWidth",
     "GetCurrentSourceFrameFps", "GetCurrentSourceColorDepth", "GetCurrentSourceLineScanMode",
     "GetCurrentSourceAspectRatio", "GetCurrentSourceColorFormat", "GetCurrentSourceColorRange",
     "GetSourceConnectStatus"}

ASSUME ThreadsAssumption == Nobody \notin Threads
ASSUME CallsAssumption ==
    \A c \in Calls : c.name \in ApiName /\ c = [name |-> c.name, source |-> c.source, value |-> c.value]
ASSUME ArgumentsAssumption ==
    \A c \in Calls :
        /\ c.name \in {"StartTv", "SetEdidData"} => c.source \in Sources
        /\ c.name = "SetVdinWorkMode" => c.value \in WorkModes
        /\ c.name = "SetEdidVersion" => c.value \in EdidVersions
        /\ c.name = "SetEdidData" => c.value \in EdidBlocks

\* The text TvClient writes for a call.
Text(c) ==
    CASE c.name = "StartTv" -> <<"control", "TV_CONTROL_START_TV", c.source>>
      [] c.name = "StopTv"  -> <<"control", "TV_CONTROL_STOP_TV", c.source>>
      [] c.name = "SetVdinWorkMode" -> <<"control", "TV_CONTROL_VDIN_WORK_MODE_SET", c.value>>
      [] c.name = "SetEdidVersion"  -> <<"edid", "set", "HDMI_EDID_VER_SET", c.source, c.value>>
      [] c.name = "GetEdidVersion"  -> <<"edid", "get", "HDMI_EDID_VER_GET", c.source>>
      [] c.name = "SetEdidData"     -> <<"HDMI_EDID_DATA_SET", c.source>>
      [] c.name = "GetEdidData"     -> <<"edid", "get", "HDMI_EDID_DATA_GET", c.source>>
      [] c.name = "GetCurrentSourceFrameHeight"  -> <<"control", "TV_CONTROL_GET_FRAME_HEIGHT">>
      [] c.name = "GetCurrentSourceFrameWidth"   -> <<"control", "TV_CONTROL_GET_FRAME_WIDTH">>
      [] c.name = "GetCurrentSourceFrameFps"     -> <<"control", "TV_CONTROL_GET_FRAME_RATE">>
      [] c.name = "GetCurrentSourceColorDepth"   -> <<"control", "TV_CONTROL_GET_COLOR_DEPTH">>
      [] c.name = "GetCurrentSourceLineScanMode" -> <<"control", "TV_CONTROL_GET_LINE_SCAN_MODE">>
      [] c.name = "GetCurrentSourceAspectRatio"  -> <<"hdmi", "HDMI_GET_ASPECT_RATIO">>
      [] c.name = "GetCurrentSourceColorFormat"  -> <<"hdmi", "HDMI_GET_COLOR_FORMAT">>
      [] c.name = "GetCurrentSourceColorRange"   -> <<"hdmi", "HDMI_GET_COLOR_RANGE">>
      [] c.name = "GetSourceConnectStatus" ->
             <<"control", "TV_CONTROL_GET_CONNECT_STATUS", c.source>>

\* All calls but one are sent with CMD_TV_ACTION.
Code(c) == IF c.name = "SetEdidData" THEN "DATA_SET_ACTION" ELSE "CMD_TV_ACTION"

Init ==
    /\ pc = [t \in Threads |-> "idle"]
    /\ request = [t \in Threads |-> NoCall]
    /\ words = [t \in Threads |-> <<>>]
    /\ ret = [t \in Threads |-> "0"]
    /\ tvservice_mutex = Nobody
    /\ strtok = <<>>
    /\ tv \in {Fresh(r) : r \in Readings}
    /\ service = "alive"

-----------------------------------------------------------------------------

\* SendMethodCall or SetEdidData: the parcel is built and sent.
Send(t, c) ==
    /\ pc[t] = "idle"
    /\ pc' = [pc EXCEPT ![t] = "sent"]
    /\ request' = [request EXCEPT ![t] = c]
    /\ UNCHANGED <<words, ret, tvservice_mutex, strtok, tv, service>>

\* Fault: the dispatcher does not lock.
EnterUnlocked(t) ==
    /\ service = "alive"
    /\ pc[t] = "sent"
    /\ tvservice_mutex' = t
    /\ words' = [words EXCEPT ![t] = <<Head(Text(request[t]))>>]
    /\ strtok' = Tail(Text(request[t]))
    /\ pc' = [pc EXCEPT ![t] = "parse"]
    /\ UNCHANGED <<request, ret, tv, service>>

\* ParserTvCommand and ParserTvDataCommand lock, and give strtok the text.
Enter(t) ==
    /\ service = "alive"
    /\ pc[t] = "sent"
    /\ tvservice_mutex = Nobody
    /\ tvservice_mutex' = t
    /\ words' = [words EXCEPT ![t] = <<Head(Text(request[t]))>>]
    /\ strtok' = Tail(Text(request[t]))
    /\ pc' = [pc EXCEPT ![t] = "parse"]
    /\ UNCHANGED <<request, ret, tv, service>>

\* Fault: the query of the height takes a field too.
WithFieldOfHeight == {"TV_CONTROL_START_TV", "TV_CONTROL_STOP_TV", "TV_CONTROL_VDIN_WORK_MODE_SET",
                      "TV_CONTROL_GET_CONNECT_STATUS", "TV_CONTROL_GET_FRAME_HEIGHT"}

\* The control commands that read a field after their number.
WithField == {"TV_CONTROL_START_TV", "TV_CONTROL_STOP_TV", "TV_CONTROL_VDIN_WORK_MODE_SET",
              "TV_CONTROL_GET_CONNECT_STATUS"}

\* Whether the dispatcher calls strtok again after the words w.
WantsMore(code, w) ==
    IF code = "DATA_SET_ACTION"
    THEN Len(w) = 1 /\ w[1] \in {"HDMI_EDID_DATA_SET", "HDMI_EDID_DATA_GET"}
    ELSE \/ Len(w) = 1 /\ w[1] \in {"control", "edid", "hdmi"}
         \/ Len(w) = 2 /\ w[1] = "control" /\ w[2] \in WithField
         \/ Len(w) = 2 /\ w[1] = "edid" /\ w[2] \in {"set", "get"}
         \/ Len(w) = 3 /\ w[1] = "edid"
         \/ Len(w) = 4 /\ w[1] = "edid" /\ w[2] = "set" /\ w[3] = "HDMI_EDID_VER_SET"

Wanting(t) ==
    service = "alive" /\ pc[t] = "parse" /\ WantsMore(Code(request[t]), words[t])

\* temp = strtok(NULL, "."), whoever's text strtok was given last.  At its end the
\* code would take atoi or strcmp of NULL; FieldsFound says that it never does.
TakeField(t) ==
    /\ Wanting(t)
    /\ strtok # <<>>
    /\ words' = [words EXCEPT ![t] = Append(@, Head(strtok))]
    /\ strtok' = Tail(strtok)
    /\ UNCHANGED <<pc, request, ret, tvservice_mutex, tv, service>>

\* What the branches of the two parsers call; an invalid command returns 0.
Control(w) ==
    CASE w[2] = "TV_CONTROL_START_TV" -> StartTv(tv, w[3])
      [] w[2] = "TV_CONTROL_STOP_TV"  -> StopTv(tv, w[3])
      [] w[2] = "TV_CONTROL_VDIN_WORK_MODE_SET" -> SetVdinWorkMode(tv, w[3])
      [] w[2] = "TV_CONTROL_GET_FRAME_HEIGHT"   -> GetFrontendInfo(tv, "height")
      [] w[2] = "TV_CONTROL_GET_FRAME_WIDTH"    -> GetFrontendInfo(tv, "width")
      [] w[2] = "TV_CONTROL_GET_FRAME_RATE"     -> GetFrontendInfo(tv, "fps")
      [] w[2] = "TV_CONTROL_GET_COLOR_DEPTH"    -> GetFrontendInfo(tv, "colordepth")
      [] w[2] = "TV_CONTROL_GET_LINE_SCAN_MODE" -> GetFrontendInfo(tv, "scan_mode")
      [] w[2] = "TV_CONTROL_GET_CONNECT_STATUS" -> GetSourceConnectStatus(tv, w[3])
      [] OTHER -> Answers(tv, {"0"})

Edid(w) ==
    CASE w[2] = "set" /\ w[3] = "HDMI_EDID_VER_SET" -> SetEdidVersion(tv, w[4], w[5])
      [] w[2] = "get" /\ w[3] = "HDMI_EDID_VER_GET" -> GetEdidVersion(tv, w[4])
      [] OTHER -> Answers(tv, {"0"})

\* Fault: the aspect ratio is answered with the colour format.
HdmiSwapped(w) ==
    CASE w[2] \in {"HDMI_GET_COLOR_FORMAT", "HDMI_GET_ASPECT_RATIO"} -> GetCurrentSourceInfo(tv, "cfmt")
      [] w[2] = "HDMI_GET_COLOR_RANGE"  -> GetColorRangeMode(tv)
      [] OTHER -> Answers(tv, {"0"})

\* The branch of HDMI_GET_COLOR_DEPTH answers from the zeroed frontendInfo.
HdmiCommand(w) ==
    CASE w[2] = "HDMI_GET_COLOR_FORMAT" -> GetCurrentSourceInfo(tv, "cfmt")
      [] w[2] = "HDMI_GET_COLOR_RANGE"  -> GetColorRangeMode(tv)
      [] w[2] = "HDMI_GET_ASPECT_RATIO" -> GetCurrentSourceInfo(tv, "aspect_ratio")
      [] OTHER -> Answers(tv, {"0"})

DataCommand(w, block) ==
    CASE w[1] = "HDMI_EDID_DATA_SET" -> SetEDIDData(tv, w[2], block)
      [] w[1] = "HDMI_EDID_DATA_GET" -> GetEDIDData(tv, w[2])
      [] OTHER -> Answers(tv, {"0"})

Operation(c, w) ==
    CASE Code(c) = "DATA_SET_ACTION" -> DataCommand(w, c.value)
      [] w[1] = "control" -> Control(w)
      [] w[1] = "edid"    -> Edid(w)
      [] w[1] = "hdmi"    -> HdmiCommand(w)
      [] OTHER -> Answers(tv, {"0"})

Execute(t) ==
    /\ service = "alive"
    /\ pc[t] = "parse"
    /\ ~WantsMore(Code(request[t]), words[t])
    /\ \E o \in Operation(request[t], words[t]) :
          tv' = o.tv /\ ret' = [ret EXCEPT ![t] = o.ret]
    /\ pc' = [pc EXCEPT ![t] = "executed"]
    /\ UNCHANGED <<request, words, tvservice_mutex, strtok, service>>

\* Fault: the parser returns without unlocking.
ReplyLocked(t) ==
    /\ service = "alive"
    /\ pc[t] = "executed"
    /\ words' = [words EXCEPT ![t] = <<>>]
    /\ pc' = [pc EXCEPT ![t] = "replied"]
    /\ UNCHANGED <<request, ret, tvservice_mutex, strtok, tv, service>>

\* The parser unlocks and returns, and onTransact writes the reply.
Reply(t) ==
    /\ service = "alive"
    /\ pc[t] = "executed"
    /\ tvservice_mutex' = Nobody
    /\ words' = [words EXCEPT ![t] = <<>>]
    /\ pc' = [pc EXCEPT ![t] = "replied"]
    /\ UNCHANGED <<request, ret, strtok, tv, service>>

\* transact returns an error: the service is gone, before or after it performed
\* the call.  Its binder stays in tvServicebinder for good.
TransactFails(t) ==
    /\ service # "alive"
    /\ pc[t] \in {"sent", "parse", "executed"}
    /\ ret' = [ret EXCEPT ![t] = "-1"]
    /\ words' = [words EXCEPT ![t] = <<>>]
    /\ pc' = [pc EXCEPT ![t] = "replied"]
    /\ UNCHANGED <<request, tvservice_mutex, strtok, tv, service>>

\* The call returns what readInt32 found in the reply.
Return(t) ==
    /\ pc[t] = "replied"
    /\ pc' = [pc EXCEPT ![t] = "idle"]
    /\ request' = [request EXCEPT ![t] = NoCall]
    /\ ret' = [ret EXCEPT ![t] = "0"]
    /\ UNCHANGED <<words, tvservice_mutex, strtok, tv, service>>

\* The poll thread records another signal, or the devices have other news.
Change(r) ==
    /\ service = "alive"
    /\ tv' = [tv EXCEPT !.reading = r]
    /\ UNCHANGED <<pc, request, words, ret, tvservice_mutex, strtok, service>>

Kill ==
    /\ service = "alive"
    /\ service' = "killed"
    /\ UNCHANGED <<pc, request, words, ret, tvservice_mutex, strtok, tv>>

CallStep(t) ==
    \/ TakeField(t) \/ Execute(t) \/ Reply(t) \/ TransactFails(t) \/ Return(t)

Next ==
    \/ \E t \in Threads : (\E c \in Calls : Send(t, c)) \/ Enter(t) \/ CallStep(t)
    \/ \E r \in Readings : Change(r)
    \/ Kill

Spec == Init /\ [][Next]_vars

-----------------------------------------------------------------------------

PC == {"idle", "sent", "parse", "executed", "replied"}

\* What a thread holds is what its place in the call says it holds.
ThreadsOK ==
    /\ pc \in [Threads -> PC]
    /\ request \in [Threads -> Calls \cup {NoCall}]
    /\ \A t \in Threads : pc[t] = "idle" <=> request[t] = NoCall
    /\ \A t \in Threads : words[t] # <<>> <=> pc[t] \in {"parse", "executed"}
    /\ DOMAIN ret = Threads

MutexOK ==
    /\ tvservice_mutex \in Threads \cup {Nobody}
    /\ service = "alive" => \A t \in Threads : tvservice_mutex = t <=> pc[t] \in {"parse", "executed"}

\* Every variable has its type, and tvservice_mutex is held by the thread that is
\* between its lock and its unlock.
TypeOK == ThreadsOK /\ MutexOK /\ tv \in TvState /\ service \in {"alive", "killed"}

Api == INSTANCE TvApi WITH
    asked  <- request,
    answer <- [t \in Threads |-> IF pc[t] \in {"executed", "replied"} THEN <<ret[t]>> ELSE <<>>],
    alive  <- service = "alive"

\* Every call does what its name promises, at one instant and at most once, and
\* returns that operation's result (TvClient.cpp:166-309 against
\* TvService.cpp:110-255): the text a client writes is the one the dispatcher
\* expects, and calls of other threads do not mix with it.
ImplementsApi == Api!Spec

\* The dispatcher finds in every text the fields it asks strtok for: where it
\* takes one, one is left.
FieldsFound == \A t \in Threads : Wanting(t) => strtok # <<>>

\* What makes it so: the words taken and those left are the text of the call.
WordsOfText ==
    \A t \in Threads :
        (service = "alive" /\ pc[t] = "parse") => words[t] \o strtok = Text(request[t])

=============================================================================

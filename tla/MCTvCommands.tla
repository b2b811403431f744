---------------------------- MODULE MCTvCommands ----------------------------
(***************************************************************************)
(* Values of TvCommands' constants for TLC.                                *)
(***************************************************************************)
EXTENDS TvCommands, TLC

\* The fields of a reading have different values.
Reading(n, plug) ==
    [height |-> n \o "h", width |-> n \o "w", fps |-> n \o "f", colordepth |-> n \o "d",
     scan_mode |-> n \o "s", cfmt |-> n \o "c", aspect_ratio |-> n \o "a", range |-> n \o "r",
     cable |-> [s \in Sources |-> plug]]
TwoReadings == {Reading("x", PLUG_IN), Reading("y", PLUG_OUT)}

Call(n, s, v) == [name |-> n, source |-> s, value |-> v]

\* Each function of the library, with each argument it takes.
AllCalls ==
    {Call(n, "SOURCE_INVALID", "0") : n \in ApiName \
        {"StartTv", "StopTv", "SetVdinWorkMode", "SetEdidVersion", "GetEdidVersion",
         "SetEdidData", "GetEdidData", "GetSourceConnectStatus"}}
    \cup {Call(n, s, "0") : n \in {"StartTv", "StopTv", "GetEdidVersion", "GetEdidData",
                                   "GetSourceConnectStatus"}, s \in Sources}
    \cup {Call("SetVdinWorkMode", "SOURCE_INVALID", m) : m \in WorkModes}
    \cup {Call("SetEdidVersion", s, v) : s \in Sources, v \in EdidVersions}
    \cup {Call("SetEdidData", s, b) : s \in Sources, b \in EdidBlocks}

\* The threads make the same calls.
Interchangeable == Permutations(Threads)

=============================================================================

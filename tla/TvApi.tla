------------------------------- MODULE TvApi -------------------------------
(***************************************************************************)
(* What the client library promises (src/client/include/TvClientWrapper.h): *)
(* each call is performed at most once, at one instant between call and    *)
(* return, and returns what its operation returned then; -1 when the       *)
(* service is gone, whether the call was performed or not.                 *)
(***************************************************************************)
EXTENDS TvOperations

CONSTANTS Threads, Calls

VARIABLES
    asked,   \* the call each thread is in
    answer,  \* <<its return value>> once the call has been performed or has failed
    tv,      \* the TV
    alive    \* the service runs

vars == <<asked, answer, tv, alive>>

NoCall  == [name |-> "none", source |-> "SOURCE_INVALID", value |-> "0"]
Pending == <<>>

\* The function of the library by its name, and what it stands for.
Promise(c) ==
    CASE c.name = "StartTv"         -> StartTv(tv, c.source)
      [] c.name = "StopTv"          -> StopTv(tv, c.source)
      [] c.name = "SetVdinWorkMode" -> SetVdinWorkMode(tv, c.value)
      [] c.name = "SetEdidVersion"  -> SetEdidVersion(tv, c.source, c.value)
      [] c.name = "GetEdidVersion"  -> GetEdidVersion(tv, c.source)
      [] c.name = "SetEdidData"     -> SetEDIDData(tv, c.source, c.value)
      [] c.name = "GetEdidData"     -> GetEDIDData(tv, c.source)
      [] c.name = "GetCurrentSourceFrameHeight"  -> GetFrontendInfo(tv, "height")
      [] c.name = "GetCurrentSourceFrameWidth"   -> GetFrontendInfo(tv, "width")
      [] c.name = "GetCurrentSourceFrameFps"     -> GetFrontendInfo(tv, "fps")
      [] c.name = "GetCurrentSourceColorDepth"   -> GetFrontendInfo(tv, "colordepth")
      [] c.name = "GetCurrentSourceLineScanMode" -> GetFrontendInfo(tv, "scan_mode")
      [] c.name = "GetCurrentSourceAspectRatio"  -> GetCurrentSourceInfo(tv, "aspect_ratio")
      [] c.name = "GetCurrentSourceColorFormat"  -> GetCurrentSourceInfo(tv, "cfmt")
      [] c.name = "GetCurrentSourceColorRange"   -> GetColorRangeMode(tv)
      [] c.name = "GetSourceConnectStatus"       -> GetSourceConnectStatus(tv, c.source)

Init ==
    /\ asked = [t \in Threads |-> NoCall]
    /\ answer = [t \in Threads |-> Pending]
    /\ tv \in {Fresh(r) : r \in Readings}
    /\ alive = TRUE

Ask(t, c) ==
    /\ asked[t] = NoCall
    /\ asked' = [asked EXCEPT ![t] = c]
    /\ UNCHANGED <<answer, tv, alive>>

Perform(t) ==
    /\ alive
    /\ asked[t] # NoCall
    /\ answer[t] = Pending
    /\ \E o \in Promise(asked[t]) : tv' = o.tv /\ answer' = [answer EXCEPT ![t] = <<o.ret>>]
    /\ UNCHANGED <<asked, alive>>

Fail(t) ==
    /\ ~alive
    /\ asked[t] # NoCall
    /\ answer' = [answer EXCEPT ![t] = <<"-1">>]
    /\ UNCHANGED <<asked, tv, alive>>

Return(t) ==
    /\ answer[t] # Pending
    /\ asked' = [asked EXCEPT ![t] = NoCall]
    /\ answer' = [answer EXCEPT ![t] = Pending]
    /\ UNCHANGED <<tv, alive>>

\* The signal or a cable changes.
Change(r) ==
    /\ tv' = [tv EXCEPT !.reading = r]
    /\ UNCHANGED <<asked, answer, alive>>

\* The service is killed.
Kill ==
    /\ alive' = FALSE
    /\ UNCHANGED <<asked, answer, tv>>

Next ==
    \/ \E t \in Threads : \/ \E c \in Calls : Ask(t, c)
                          \/ Perform(t) \/ Fail(t) \/ Return(t)
    \/ \E r \in Readings : Change(r)
    \/ Kill

Spec == Init /\ [][Next]_vars

=============================================================================

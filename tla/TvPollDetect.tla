---------------------------- MODULE TvPollDetect ----------------------------
(***************************************************************************)
(* CTvDevicesPollDetect (src/libtv/CTvDevicesPollDetect.cpp): the thread   *)
(* that waits on epoll for the AV-in, HDMI and vdin devices, compares what *)
(* it reads with what it saw last, and reports the cables that changed     *)
(* through CTv::onSourceConnect.                                           *)
(*                                                                         *)
(* The devices are registered edge-triggered: a change that arrives after  *)
(* epoll_wait returned is returned by the next epoll_wait.  They are       *)
(* external, modelled from how src/ opens and reads them; that a reading   *)
(* of AV-in names channel i at place i is assumed of its driver.  The vdin *)
(* event itself is TvCore's; here it only takes its turn.                  *)
(*                                                                         *)
(* After a failed read the local array is uninitialised, channels          *)
(* included: its entries may then name any channel, and report one input   *)
(* while they are kept as the state of another.                            *)
(***************************************************************************)
EXTENDS Naturals

CONSTANTS
    HdmiPorts,   \* the number of HDMI ports compared: four, A to D
    AvChannels,  \* the number of AV-in channels: two
    Openings,    \* the sets of devices that the constructor may have opened
    StackInts,   \* the states an uninitialised entry may hold: any int
    MayFail      \* the devices whose read may fail

ASSUME PortsAssumption == HdmiPorts \in Nat \ {0} /\ AvChannels \in Nat \ {0}
ASSUME OpenAssumption  == Openings \subseteq SUBSET {"hdmi", "avin", "vdin"}
ASSUME FailAssumption  == MayFail \subseteq {"hdmi", "avin"}

VARIABLES
    loop,            \* where ThreadLoop stands
    batch,           \* the devices of the last epoll_wait still to be handled
    index,           \* the port or channel to compare next
    hdmi_status,     \* the local variable: what this round read of the ports
    status,          \* the local array: the entries that each of its places may
                     \* hold, one after a read and any without one
                     \* (both at a fixed value while out of scope)
    m_hdmi_status,   \* what the last round read of the ports
    m_avin_status,   \* the state last kept at each place; its channel is never read
    mpObserver,      \* TvService has set itself as CTv's observer
    opened,          \* the devices the constructor opened and registered
    \* the devices
    hdmiCable, avCable,
    ready,           \* devices that changed since the last epoll_wait
    \* history, read by the properties only
    told,            \* the last report of each source that reached TvService
    readOk,          \* the devices whose last read succeeded
    misled           \* the AV-in sources whose last report and whose kept state
                     \* come from different places of an uninitialised array

loopVars   == <<loop, batch, index>>
statusVars == <<hdmi_status, status, m_hdmi_status, m_avin_status>>
deviceVars == <<opened, hdmiCable, avCable>>
vars == <<loopVars, statusVars, deviceVars, mpObserver, ready, told, readOk, misled>>

Hdmi     == 1 .. HdmiPorts
Av       == 1 .. AvChannels
Device   == {"hdmi", "avin", "vdin"}
Bit      == {0, 1}
AvStatus == {"IN", "OUT", "UNKNOW"}
Ints     == AvStatus \cup StackInts

\* An element of the local array; channel 0 stands for a number of no channel.
Entry == [channel : Av \cup {0}, status : Ints]

\* The inputs, each named by its device and its port or channel.
Source == ({"hdmi"} \X Hdmi) \cup ({"avin"} \X Av)

\* What source -1 stands for.
NoSource == <<"none", 0>>

\* Fault: an unknown state is not reported as no cable.
AvPlugUnknown(s) == CASE s = "IN" -> "PLUG_IN" [] s = "OUT" -> "PLUG_OUT" [] OTHER -> "PLUG_NONE"

HdmiPlug(bit) == IF bit = 1 THEN "PLUG_IN" ELSE "PLUG_OUT"
AvPlug(s)     == IF s = "IN" THEN "PLUG_IN" ELSE "PLUG_OUT"

\* hdmi_status starts at 0, so a failed read is one of no cable; the array
\* for AV-in starts with whatever the stack holds.
NoCable      == [p \in Hdmi |-> 0]
Unread       == [a \in Av |-> Entry]
HdmiRead(ok) == IF ok THEN hdmiCable ELSE NoCable
AvRead(ok)   == IF ok THEN [a \in Av |-> {[channel |-> a, status |-> avCable[a]]}]
                      ELSE Unread

\* The source that an entry is reported for.
EntrySource(entry) == IF entry.channel \in Av THEN <<"avin", entry.channel>> ELSE NoSource

ReadResult(device) ==
    IF device \notin opened THEN {FALSE}
    ELSE IF device \in MayFail THEN BOOLEAN ELSE {TRUE}
Mark(device, ok) == IF ok THEN readOk \cup {device} ELSE readOk \ {device}

Init ==
    /\ loop = "init_hdmi"
    /\ batch = {}
    /\ index = 1
    /\ hdmi_status = NoCable
    /\ status = Unread
    /\ m_hdmi_status = NoCable
    /\ m_avin_status = [a \in Av |-> "IN"]
    /\ mpObserver = FALSE
    /\ opened \in Openings
    /\ hdmiCable \in [Hdmi -> Bit]
    /\ avCable \in [Av -> AvStatus]
    /\ ready \in SUBSET opened
    /\ told = [s \in Source |-> "nothing"]
    /\ readOk = {}
    /\ misled = {}

-----------------------------------------------------------------------------
(***************************************************************************)
(* ThreadLoop                                                              *)
(***************************************************************************)

\* The two reads before the loop; a failed one leaves the members alone.
InitHdmiStatus ==
    /\ loop = "init_hdmi"
    /\ \E ok \in ReadResult("hdmi") :
        /\ m_hdmi_status' = IF ok THEN hdmiCable ELSE m_hdmi_status
        /\ readOk' = Mark("hdmi", ok)
    /\ loop' = "init_avin"
    /\ UNCHANGED <<batch, index, hdmi_status, status, m_avin_status, mpObserver,
                   deviceVars, ready, told, misled>>

InitAvinStatus ==
    /\ loop = "init_avin"
    /\ \E ok \in ReadResult("avin") :
        /\ m_avin_status' = IF ok THEN avCable ELSE m_avin_status
        /\ readOk' = Mark("avin", ok)
    /\ loop' = "wait"
    /\ UNCHANGED <<batch, index, hdmi_status, status, m_hdmi_status, mpObserver,
                   deviceVars, ready, told, misled>>

\* epoll_wait returns the devices with news and forgets them.
Wait ==
    /\ loop = "wait"
    /\ batch = {}
    /\ ready # {}
    /\ batch' = ready
    /\ ready' = {}
    /\ UNCHANGED <<loop, index, statusVars, mpObserver, deviceVars, told, readOk,
                   misled>>

ReadAvin ==
    /\ loop = "wait"
    /\ "avin" \in batch
    /\ \E ok \in ReadResult("avin") :
        /\ status' = AvRead(ok)
        /\ readOk' = Mark("avin", ok)
    /\ batch' = batch \ {"avin"}
    /\ loop' = "avin"
    /\ index' = 1
    /\ UNCHANGED <<hdmi_status, m_hdmi_status, m_avin_status, mpObserver, deviceVars,
                   ready, told, misled>>

ReadHdmi ==
    /\ loop = "wait"
    /\ "hdmi" \in batch
    /\ \E ok \in ReadResult("hdmi") :
        /\ hdmi_status' = HdmiRead(ok)
        /\ readOk' = Mark("hdmi", ok)
    /\ batch' = batch \ {"hdmi"}
    /\ loop' = "hdmi"
    /\ index' = 1
    /\ UNCHANGED <<status, m_hdmi_status, m_avin_status, mpObserver, deviceVars,
                   ready, told, misled>>

\* onVdinSignalChange, which TvCore models.
HandleVdin ==
    /\ loop = "wait"
    /\ "vdin" \in batch
    /\ batch' = batch \ {"vdin"}
    /\ UNCHANGED <<loop, index, statusVars, mpObserver, deviceVars, ready, told, readOk,
                   misled>>

\* Fault: a cable that is pulled out is not reported.
onSourcePlugIn(source, plug) ==
    told' = IF mpObserver /\ source # NoSource /\ plug = "PLUG_IN"
            THEN [told EXCEPT ![source] = plug] ELSE told

\* CTv::onSourceConnect, sendTvEvent: without an observer the event is lost, and
\* one for source -1 tells of no input.
onSourceConnect(source, plug) ==
    told' = IF mpObserver /\ source # NoSource
            THEN [told EXCEPT ![source] = plug] ELSE told

\* A report from a source's own place puts it right; any other misleads about
\* the source that is named and the one that is not.
Mislead(place, source) ==
    misled' = IF ~mpObserver THEN misled
              ELSE IF source = place THEN misled \ {place}
              ELSE misled \cup ({place, source} \ {NoSource})

\* One round of the loop over the array.
CompareAvin ==
    /\ loop = "avin"
    /\ \E entry \in status[index] :
        /\ IF entry.status # m_avin_status[index]
           THEN /\ onSourceConnect(EntrySource(entry), AvPlug(entry.status))
                /\ Mislead(<<"avin", index>>, EntrySource(entry))
           ELSE UNCHANGED <<told, misled>>
        /\ m_avin_status' = [m_avin_status EXCEPT ![index] = entry.status]
    /\ IF index = AvChannels
       THEN loop' = "wait" /\ index' = 1 /\ status' = Unread
       ELSE index' = index + 1 /\ UNCHANGED <<loop, status>>
    /\ UNCHANGED <<batch, hdmi_status, m_hdmi_status, mpObserver, deviceVars, ready, readOk>>

\* One of the four comparisons; what was read is kept after the last.
CompareHdmi ==
    /\ loop = "hdmi"
    /\ IF hdmi_status[index] # m_hdmi_status[index]
       THEN onSourceConnect(<<"hdmi", index>>, HdmiPlug(hdmi_status[index]))
       ELSE UNCHANGED told
    /\ IF index = HdmiPorts
       THEN /\ m_hdmi_status' = hdmi_status
            /\ loop' = "wait" /\ index' = 1 /\ hdmi_status' = NoCable
       ELSE index' = index + 1 /\ UNCHANGED <<loop, hdmi_status, m_hdmi_status>>
    /\ UNCHANGED <<batch, status, m_avin_status, mpObserver, deviceVars, ready, readOk,
                   misled>>

ThreadLoop ==
    \/ InitHdmiStatus \/ InitAvinStatus \/ Wait
    \/ ReadAvin \/ ReadHdmi \/ HandleVdin
    \/ CompareAvin \/ CompareHdmi

-----------------------------------------------------------------------------

\* TvService's constructor sets the observer when CTv's has started the thread.
setTvObserver ==
    /\ ~mpObserver
    /\ mpObserver' = TRUE
    /\ UNCHANGED <<loopVars, statusVars, deviceVars, ready, told, readOk, misled>>

\* A cable is plugged in or out, and the driver wakes epoll.  Nobody can read the
\* cables of a device that is not open.
HdmiCableChange(p) ==
    /\ "hdmi" \in opened
    /\ hdmiCable' = [hdmiCable EXCEPT ![p] = 1 - @]
    /\ ready' = ready \cup {"hdmi"}
    /\ UNCHANGED <<loopVars, statusVars, opened, avCable, mpObserver, told, readOk, misled>>

AvCableChange(a) ==
    /\ "avin" \in opened
    /\ \E s \in AvStatus \ {avCable[a]} : avCable' = [avCable EXCEPT ![a] = s]
    /\ ready' = ready \cup {"avin"}
    /\ UNCHANGED <<loopVars, statusVars, opened, hdmiCable, mpObserver, told, readOk, misled>>

VdinChange ==
    /\ "vdin" \in opened \ ready
    /\ ready' = ready \cup {"vdin"}
    /\ UNCHANGED <<loopVars, statusVars, deviceVars, mpObserver, told, readOk, misled>>

Devices ==
    \/ \E p \in Hdmi : HdmiCableChange(p)
    \/ \E a \in Av : AvCableChange(a)
    \/ VdinChange

\* What a client's query reads: the devices, not the thread's members.  The
\* query is one whose own read succeeds.
GetSourceConnectStatus(source) ==
    IF source[1] = "hdmi" THEN HdmiPlug(hdmiCable[source[2]])
                          ELSE AvPlug(avCable[source[2]])

Next == ThreadLoop \/ setTvObserver \/ Devices

Spec == Init /\ [][Next]_vars

\* The thread is never stopped and its observer returns; each device returned by
\* epoll_wait gets its turn.
FairSpec == Spec /\ WF_vars(ThreadLoop)

-----------------------------------------------------------------------------

\* The program's own types.
TypeOK ==
    /\ loop \in {"init_hdmi", "init_avin", "wait", "hdmi", "avin"}
    /\ opened \in Openings
    /\ batch \subseteq opened
    /\ loop = "hdmi" => index \in Hdmi
    /\ loop = "avin" => index \in Av
    /\ hdmi_status \in [Hdmi -> Bit]
    /\ m_hdmi_status \in [Hdmi -> Bit]
    /\ hdmiCable \in [Hdmi -> Bit]
    /\ status \in [Av -> SUBSET Entry]
    /\ m_avin_status \in [Av -> Ints]
    /\ avCable \in [Av -> AvStatus]
    /\ mpObserver \in BOOLEAN
    /\ ready \subseteq opened
    /\ told \in [Source -> {"nothing", "PLUG_IN", "PLUG_OUT"}]
    /\ readOk \subseteq {"hdmi", "avin"}
    /\ misled \subseteq {"avin"} \X Av

\* Nothing of device d is waiting for the thread, and its last read succeeded.
Settled(d) ==
    /\ loop \notin {"init_hdmi", "init_avin", d}
    /\ d \notin ready \cup batch
    /\ d \in readOk

\* Once the thread has caught up, the last report of every source is what a
\* query answers: no change between a read and the store after it is lost
\* (CTvDevicesPollDetect.cpp:222-314 against 159-208).  A source that the array
\* of a failed read misled about stays wrong until its own place is reported.
ReportsMatchQueries ==
    \A s \in Source :
        (Settled(s[1]) /\ s \notin misled)
            => told[s] \in {"nothing", GetSourceConnectStatus(s)}

\* Every report is news: an HDMI port is never reported twice running with the
\* same plug, nor an AV channel as plugged in from its own place; only states
\* other than IN, told apart by the comparison and not by the report, repeat a
\* plug-out (227-232, 254-312).
ReportsAreNews ==
    [][ /\ CompareHdmi /\ mpObserver /\ hdmi_status[index] # m_hdmi_status[index]
              => told' # told
        /\ CompareAvin /\ mpObserver /\ m_avin_status[index] # "IN"
                /\ m_avin_status'[index] = "IN"
                /\ <<"avin", index>> \notin misled \cup misled'
              => told' # told ]_vars

\* A source whose last report is out of date gets a new report, or its cable
\* goes back, or the last read of its device failed; one that was misled about
\* may also find that the state kept at its place is already the present one.
ReportsCatchUp ==
    \A s \in Source :
        (mpObserver /\ told[s] # "nothing" /\ told[s] # GetSourceConnectStatus(s))
            ~> \/ told[s] = GetSourceConnectStatus(s)
               \/ s[1] \notin readOk
               \/ s \in misled /\ m_avin_status[s[2]] = avCable[s[2]]

-----------------------------------------------------------------------------
(***************************************************************************)
(* What makes the three properties inductive.                              *)
(***************************************************************************)

\* The plug of each source as the thread has it so far: an HDMI round keeps its
\* reading only at its end, an AV-in round channel by channel.
Compared(s) ==
    IF s[1] = "hdmi"
    THEN HdmiPlug(IF loop = "hdmi" /\ s[2] < index THEN hdmi_status[s[2]]
                                                   ELSE m_hdmi_status[s[2]])
    ELSE AvPlug(m_avin_status[s[2]])

\* The last report of a source is what it was last compared with.
ToldCompared == \A s \in Source \ misled : told[s] \in {"nothing", Compared(s)}

\* The last read of device d succeeded and d has had no news since.
UpToDate(d) == d \in readOk /\ d \notin ready \cup batch

\* A successful reading is of the present cables, unless the device has news.
HdmiFresh ==
    UpToDate("hdmi")
        => \A p \in Hdmi :
               (IF loop = "hdmi" THEN hdmi_status[p] ELSE m_hdmi_status[p]) = hdmiCable[p]

AvFresh ==
    UpToDate("avin")
        => \A a \in Av :
               IF loop = "avin" /\ a >= index
               THEN status[a] = {[channel |-> a, status |-> avCable[a]]}
               ELSE m_avin_status[a] = avCable[a]

\* Nobody is told of the first readings, nor of any before the observer is set.
NothingTold ==
    (~mpObserver \/ loop \in {"init_hdmi", "init_avin"})
        => misled = {} /\ \A s \in Source : told[s] = "nothing"

\* A member is read once before it is trusted.
ReadBefore ==
    /\ loop = "init_hdmi" => "hdmi" \notin readOk
    /\ loop \in {"init_hdmi", "init_avin"} => "avin" \notin readOk

=============================================================================

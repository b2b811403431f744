------------------------------- MODULE TvSystem -------------------------------
(***************************************************************************)
(* tvservice as its clients see it: CTv (TvCore) and the callback registry *)
(* of TvService (TvServiceCallbacks) joined where the poll thread, at the  *)
(* end of a handler, calls sendTvEvent: TvService::onTvEvent runs the send *)
(* loop on that thread, and the handler returns when the loop has ended.   *)
(*                                                                         *)
(* While the loop runs, commands, registrations and the driver go on; a    *)
(* null binder called ends the process.  What a client's callback does is  *)
(* TvClientCalls' subject; here it takes note of the event and returns.    *)
(***************************************************************************)
EXTENDS TvCore

CONSTANT Clients   \* binders, one for each TvClient ever created

VARIABLES
    \* TvServiceCallbacks
    mTvServiceCallBack, call, clientSize, cookie, sender, delivered,
    overlappedCalls, disturbed, before,
    \* the poll thread is in TvService::onTvEvent
    sending,
    \* history, read by the properties only
    told,      \* the last event each client was called with
    early,     \* the last event's source was read before StartTv assigned it
    missed     \* registered clients that the last send loop did not call

Service == INSTANCE TvServiceCallbacks WITH overlapped <- overlappedCalls

serviceVars == <<mTvServiceCallBack, call, clientSize, cookie, sender, delivered,
                 overlappedCalls, disturbed, before>>
systemVars  == <<vars, serviceVars, sending, told, early, missed>>

SystemInit ==
    /\ Init
    /\ Service!Init
    /\ sending = FALSE
    /\ told = [c \in Clients |-> NoEvent]
    /\ early = FALSE
    /\ missed = {}

-----------------------------------------------------------------------------

\* A step of CTv on either thread, but for the return of sendTvEvent, or of
\* the driver.
TvStep(step) ==
    /\ Service!Running
    /\ step
    /\ ~SendTvEvent
    /\ early' = IF EventSource THEN At("cmd", "setSource") ELSE early
    /\ UNCHANGED <<serviceVars, sending, told, missed>>

\* CTv::sendTvEvent calls the observer, which reads the number of clients.
sendTvEvent ==
    /\ At("poll", "sendEvent")
    /\ ~sending
    /\ Service!SendEvent
    /\ sending' = TRUE
    /\ UNCHANGED <<vars, told, early, missed>>

\* The loop tests a binder or calls it with the event.
CallClients ==
    /\ sending
    /\ Service!SenderStep
    /\ told' = [c \in Clients |-> IF c \in delivered' \ delivered THEN event ELSE told[c]]
    /\ UNCHANGED <<vars, sending, early, missed>>

\* The loop has ended: onTvEvent and the handler return.
onTvEventReturns ==
    /\ sending
    /\ sender.step = "idle"
    /\ SendTvEvent
    /\ sending' = FALSE
    /\ missed' = {c \in Clients : call[c] = "registered" /\ c \notin delivered}
    /\ UNCHANGED <<serviceVars, told, early>>

\* A client registers, leaves or dies.
ClientCall(c) ==
    /\ Service!ClientStep(c)
    /\ missed' = missed \cup {d \in {c} : call[d] # "registered" /\ call'[d] = "registered"}
    /\ UNCHANGED <<vars, sending, told, early>>

SystemPoll ==
    \/ TvStep(PollStep)
    \/ sendTvEvent \/ CallClients \/ onTvEventReturns

SystemNext ==
    \/ TvStep(CommandBegin) \/ TvStep(CommandStep) \/ TvStep(Driver)
    \/ SystemPoll
    \/ \E c \in Clients : ClientCall(c)

SystemSpec == SystemInit /\ [][SystemNext]_systemVars

\* As in TvCore: both threads run on; nothing makes clients come or signals
\* change.
FairSystemSpec ==
    SystemSpec /\ WF_systemVars(TvStep(CommandStep)) /\ WF_systemVars(SystemPoll)

-----------------------------------------------------------------------------

\* The statuses that clients are told of: nothing is sent for an unstable one.
Announced == {"STABLE", "NOTSUP", "NOSIG"}

\* No port fails to open or to close.
PortsWork == "open" \notin MayFail /\ "close" \notin MayFail

Knows(c) ==
    /\ told[c].status = signal.status
    /\ told[c].fmt = signal.fmt
    /\ (~early /\ PortsWork) => told[c].source = port

\* The promise of the service as a whole: once everything has settled, a client
\* that the last send loop called knows the status and format that the driver
\* has, and of which input, unless the change was dropped (TvCore's lost) or
\* the event was put together before StartTv had assigned the input it had
\* opened; an input that did not open is assigned all the same, and one that did
\* not close is forgotten (CTv.cpp:119-160, 561-574, TvService.cpp:86-108).
ClientsKnowSignal ==
    (Settled /\ Service!Running /\ "STS" \notin lost /\ signal.status \in Announced)
        => \A c \in Clients : (call[c] = "registered" /\ c \notin missed) => Knows(c)

\* Every signal that lasts reaches every client that stays registered: the client
\* ends up knowing its status, unless the change was dropped, the last send loop
\* missed the client or the process has died (CTvDevicesPollDetect.cpp's thread,
\* CTv.cpp:315-339, TvService.cpp:86-108).
SignalReachesClients ==
    \A c \in Clients :
        /\ <>[][UNCHANGED signal]_systemVars
        /\ <>[](signal.status \in Announced /\ call[c] = "registered")
        => <>[](\/ told[c].status = signal.status
                \/ "STS" \in lost \/ c \in missed \/ ~Service!Running)

-----------------------------------------------------------------------------
(***************************************************************************)
(* What makes ClientsKnowSignal inductive, with TvCore's invariants.       *)
(***************************************************************************)

\* StartTv opens the input before it assigns it, StopTv closes it before it
\* clears it.
SourceView ==
    PortsWork =>
        /\ At("cmd", "setSource") => port = command.source
        /\ At("cmd", "clearSource") => port = NoPort
        /\ (port # NoPort /\ ~At("cmd", "setSource")) => mCurrentSource = port

\* The signal has been read and is one that clients are told of.
ToAnnounce == Following /\ signal.status \in Announced

\* The event holds what has been read into it so far.
EventView ==
    ToAnnounce =>
        /\ (pc["poll"] \in {"eventFmt", "eventStatus", "sendEvent"} /\ ~early /\ PortsWork)
               => event.source = port
        /\ pc["poll"] \in {"eventStatus", "sendEvent"} => event.fmt = signal.fmt
        /\ pc["poll"] = "sendEvent" => event.status = signal.status

\* The clients called so far were called with this event.
LoopTells == sending => At("poll", "sendEvent") /\ \A c \in Clients \cap delivered : told[c] = event

\* Between handlers the clients that were not missed know the signal.
ToldView ==
    (ToAnnounce /\ pc["poll"] \notin HandlerSteps)
        => \A c \in Clients : (call[c] = "registered" /\ c \notin missed) => Knows(c)

KnowInv == SourceView /\ EventView /\ LoopTells /\ ToldView

=============================================================================

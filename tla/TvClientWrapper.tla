--------------------------- MODULE TvClientWrapper ---------------------------
(***************************************************************************)
(* The objects of one client process (src/client/TvClientWrapper.cpp,      *)
(* TvClient.cpp): threads of the application get wrappers and release      *)
(* them, and the binder thread hands events to the wrappers.               *)
(*                                                                         *)
(* There is to be one TvClient, behind the static mInstance, and any       *)
(* number of wrappers that observe it; but each wrapper deletes the        *)
(* TvClient, mInstance is created without a lock and never cleared, and    *)
(* the observers are a std::map that is written without a lock and never   *)
(* shrinks.  The use of a null, dangling or uninitialised pointer ends the *)
(* process here.  What callbacks do is TvClientCalls' subject.             *)
(***************************************************************************)
EXTENDS Naturals, Sequences

CONSTANTS
    Threads,       \* of the application; a TvClient is named by its creator
    MaxInstances   \* bound: wrappers each thread gets

ASSUME MaxAssumption == MaxInstances \in Nat
ASSUME ThreadsAssumption == {"NULL", "binder", "free"} \cap Threads = {}

VARIABLES
    pc,               \* where each thread is
    got,              \* how many wrappers each thread has asked for
    mpTvClient,       \* of each thread's last wrapper
    clientSize,       \* the size setTvClientObserver read
    mInstance, tvclient_mutex,
    object,           \* of the TvClient each thread may create: none, alive, freed
    observers,        \* its mTvClientObserver, the keys from 0 as a sequence
    hooked, freed,    \* wrappers with a mEventCallbackFunc; wrappers deleted
    mEventCallback,   \* the application has set its callback
    registered,       \* the TvClients the service calls
    event,            \* the event being handled: its step, the TvClient called, those
                      \* still to call, the observers reached; due is history
    fault,            \* what ended the process
    \* history, read by the properties only
    told,             \* the wrappers the event reached, in order
    overlapped        \* two threads were once in GetInstance together

appVars     == <<pc, got, mpTvClient, clientSize>>
objectVars  == <<mInstance, object, observers, hooked, freed, mEventCallback, registered>>
historyVars == <<told, overlapped>>
vars == <<appVars, objectVars, tvclient_mutex, event, fault, historyVars>>

Wrapper == Threads \X (1 .. MaxInstances)
Mine(t) == <<t, got[t]>>

InGetInstance(t) == pc[t] \notin {"out", "ready", "delete", "clear", "unlockDelete"}

NoEvent == [step |-> "idle", client |-> "NULL", todo |-> {}, index |-> 0, size |-> 0, due |-> {}]

Init ==
    /\ pc = [t \in Threads |-> "out"]
    /\ got = [t \in Threads |-> 0]
    /\ mpTvClient = [t \in Threads |-> "NULL"]
    /\ clientSize = [t \in Threads |-> 0]
    /\ mInstance = "NULL"
    /\ tvclient_mutex = "free"
    /\ object = [t \in Threads |-> "none"]
    /\ observers = [t \in Threads |-> <<>>]
    /\ hooked = {}
    /\ freed = {}
    /\ mEventCallback = FALSE
    /\ registered = {}
    /\ event = NoEvent
    /\ fault = "none"
    /\ told = <<>>
    /\ overlapped = FALSE

Running == fault = "none"
At(t, label) == Running /\ pc[t] = label
Goto(t, label) == pc' = [pc EXCEPT ![t] = label]
Fault(cause) == fault' = cause /\ UNCHANGED <<appVars, objectVars, tvclient_mutex, event, historyVars>>

-----------------------------------------------------------------------------
(***************************************************************************)
(* GetInstance: TvClient::GetInstance, setTvClientObserver and             *)
(* RegisterCallback for a new wrapper.                                     *)
(***************************************************************************)

TestInstance(t) ==
    /\ At(t, "out")
    /\ got[t] < MaxInstances
    /\ got' = [got EXCEPT ![t] = @ + 1]
    /\ Goto(t, IF mInstance = "NULL" THEN "construct" ELSE "return")
    /\ overlapped' = (overlapped \/ \E d \in Threads : InGetInstance(d))
    /\ UNCHANGED <<mpTvClient, clientSize, objectVars, tvclient_mutex, event, fault, told>>

\* Fault: the constructor does not lock.
ConstructUnlocked(t) ==
    /\ At(t, "construct")
    /\ Goto(t, "register")
    /\ UNCHANGED <<got, mpTvClient, clientSize, objectVars, tvclient_mutex, event, fault, historyVars>>

\* The constructor of TvClient: lock, CMD_SET_TV_CB, unlock.
ConstructorLock(t) ==
    /\ At(t, "construct")
    /\ tvclient_mutex = "free"
    /\ tvclient_mutex' = t
    /\ Goto(t, "register")
    /\ UNCHANGED <<got, mpTvClient, clientSize, objectVars, event, fault, historyVars>>

Register(t) ==
    /\ At(t, "register")
    /\ object' = [object EXCEPT ![t] = "alive"]
    /\ registered' = registered \cup {t}
    /\ Goto(t, "unlock")
    /\ UNCHANGED <<got, mpTvClient, clientSize, mInstance, observers, hooked, freed, mEventCallback,
                   tvclient_mutex, event, fault, historyVars>>

ConstructorUnlock(t) ==
    /\ At(t, "unlock")
    /\ tvclient_mutex' = "free"
    /\ Goto(t, "assign")
    /\ UNCHANGED <<got, mpTvClient, clientSize, objectVars, event, fault, historyVars>>

\* mInstance = new TvClient()
AssignInstance(t) ==
    /\ At(t, "assign")
    /\ mInstance' = t
    /\ Goto(t, "return")
    /\ UNCHANGED <<got, mpTvClient, clientSize, object, observers, hooked, freed, mEventCallback,
                   registered, tvclient_mutex, event, fault, historyVars>>

\* return mInstance, which another thread may have assigned since.
ReturnInstance(t) ==
    /\ At(t, "return")
    /\ mpTvClient' = [mpTvClient EXCEPT ![t] = mInstance]
    /\ Goto(t, "observe")
    /\ UNCHANGED <<got, clientSize, objectVars, tvclient_mutex, event, fault, historyVars>>

\* setTvClientObserver reads the size; no observer below it is ever null.
setTvClientObserver(t) ==
    /\ At(t, "observe")
    /\ IF object[mpTvClient[t]] = "freed" THEN Fault("dangling TvClient")
       ELSE /\ clientSize' = [clientSize EXCEPT ![t] = Len(observers[mpTvClient[t]])]
            /\ Goto(t, "store")
            /\ UNCHANGED <<got, mpTvClient, objectVars, tvclient_mutex, event, fault, historyVars>>

\* Fault: the new observer takes the place of the last one.
StoreAtLast(s, n, w) == IF n = 0 THEN <<w>> ELSE [s EXCEPT ![n] = w]

\* map[n] = w, where the map may have grown beyond n.
Store(s, n, w) == IF n < Len(s) THEN [s EXCEPT ![n + 1] = w] ELSE Append(s, w)

StoreObserver(t) ==
    /\ At(t, "store")
    /\ IF object[mpTvClient[t]] = "freed" THEN Fault("dangling TvClient")
       ELSE /\ observers' = [observers EXCEPT ![mpTvClient[t]] = Store(@, clientSize[t], Mine(t))]
            /\ Goto(t, "callback")
            /\ UNCHANGED <<got, mpTvClient, clientSize, mInstance, object, hooked, freed,
                           mEventCallback, registered, tvclient_mutex, event, fault, historyVars>>

\* RegisterCallback, for the mEventCallbackFunc that the constructor left alone.
RegisterCallback(t) ==
    /\ At(t, "callback")
    /\ hooked' = hooked \cup {Mine(t)}
    /\ Goto(t, "ready")
    /\ UNCHANGED <<got, mpTvClient, clientSize, mInstance, object, observers, freed, mEventCallback,
                   registered, tvclient_mutex, event, fault, historyVars>>

\* The application's own callback, one for all wrappers; any time.
setTvEventCallback ==
    /\ Running
    /\ ~mEventCallback
    /\ mEventCallback' = TRUE
    /\ UNCHANGED <<appVars, mInstance, object, observers, hooked, freed, registered, tvclient_mutex,
                   event, fault, historyVars>>

-----------------------------------------------------------------------------
(***************************************************************************)
(* ReleaseInstance: the wrapper deletes the TvClient, its own or not.      *)
(***************************************************************************)

ReleaseInstance(t) ==
    /\ At(t, "ready")
    /\ IF object[mpTvClient[t]] = "freed" THEN Fault("deleted twice")
       ELSE /\ Goto(t, "delete")
            /\ UNCHANGED <<got, mpTvClient, clientSize, objectVars, tvclient_mutex, event, fault,
                           historyVars>>

\* The destructor of TvClient: lock, CMD_CLR_TV_CB, unlock.
DestructorLock(t) ==
    /\ At(t, "delete")
    /\ tvclient_mutex = "free"
    /\ IF object[mpTvClient[t]] = "freed" THEN Fault("deleted twice")
       ELSE /\ tvclient_mutex' = t
            /\ Goto(t, "clear")
            /\ UNCHANGED <<got, mpTvClient, clientSize, objectVars, event, fault, historyVars>>

Unregister(t) ==
    /\ At(t, "clear")
    /\ registered' = registered \ {mpTvClient[t]}
    /\ Goto(t, "unlockDelete")
    /\ UNCHANGED <<got, mpTvClient, clientSize, mInstance, object, observers, hooked, freed,
                   mEventCallback, tvclient_mutex, event, fault, historyVars>>

\* The memory of the TvClient, its map and the wrapper is given back;
\* mInstance still points to it.
DestructorUnlock(t) ==
    /\ At(t, "unlockDelete")
    /\ tvclient_mutex' = "free"
    /\ object' = [object EXCEPT ![mpTvClient[t]] = "freed"]
    /\ freed' = freed \cup {Mine(t)}
    /\ mpTvClient' = [mpTvClient EXCEPT ![t] = "NULL"]
    /\ Goto(t, "out")
    /\ UNCHANGED <<got, clientSize, mInstance, observers, hooked, mEventCallback, registered, event,
                   fault, historyVars>>

-----------------------------------------------------------------------------
(***************************************************************************)
(* The binder thread, on which the service calls each TvClient registered. *)
(***************************************************************************)

Ready(t) == pc[t] = "ready" /\ object[mpTvClient[t]] = "alive"

\* The service's send loop begins.
SendEvent ==
    /\ Running
    /\ event.step = "idle"
    /\ registered # {}
    /\ event' = [NoEvent EXCEPT !.step = "next", !.todo = registered,
                                !.due = {Mine(t) : t \in {t \in Threads : Ready(t)}}]
    /\ told' = <<>>
    /\ UNCHANGED <<appVars, objectVars, tvclient_mutex, fault, overlapped>>

\* It calls a TvClient that is registered still, or has called them all.
NextClient ==
    /\ Running
    /\ event.step = "next"
    /\ IF event.todo \cap registered = {} THEN event' = [NoEvent EXCEPT !.due = event.due]
       ELSE \E o \in event.todo \cap registered :
               event' = [event EXCEPT !.step = "lock", !.client = o, !.todo = @ \ {o}]
    /\ UNCHANGED <<appVars, objectVars, tvclient_mutex, fault, historyVars>>

onTransact ==
    /\ Running
    /\ event.step = "lock"
    /\ tvclient_mutex = "free"
    /\ IF object[event.client] = "freed" THEN Fault("dangling TvClient")
       ELSE /\ tvclient_mutex' = "binder"
            /\ event' = [event EXCEPT !.step = "handle"]
            /\ UNCHANGED <<appVars, objectVars, fault, historyVars>>

\* HandSourceConnectEvent, HandSignalDetectEvent: the event goes to the
\* observers of mInstance, whatever TvClient was called.
SendTvClientEvent ==
    /\ Running
    /\ event.step = "handle"
    /\ IF mInstance = "NULL" \/ (mInstance # "NULL" /\ object[mInstance] = "freed")
       THEN Fault("no mInstance")
       ELSE /\ event' = [event EXCEPT !.step = IF observers[mInstance] = <<>> THEN "unlock" ELSE "call",
                                      !.client = mInstance, !.index = 1,
                                      !.size = Len(observers[mInstance])]
            /\ UNCHANGED <<appVars, objectVars, tvclient_mutex, fault, historyVars>>

\* onTvClientEvent of the next observer; HandleTvClientEvent calls mEventCallback.
onTvClientEvent ==
    /\ Running
    /\ event.step = "call"
    /\ LET w == observers[event.client][event.index] IN
       CASE w \in freed -> Fault("dangling observer")
         [] w \notin freed \cup hooked -> Fault("no mEventCallbackFunc")
         [] w \notin freed /\ w \in hooked /\ ~mEventCallback -> Fault("no mEventCallback")
         [] OTHER -> /\ told' = Append(told, w)
                     /\ event' = [event EXCEPT !.step = IF event.index = event.size THEN "unlock" ELSE @,
                                               !.index = @ + 1]
                     /\ UNCHANGED <<appVars, objectVars, tvclient_mutex, fault, overlapped>>

TransactUnlock ==
    /\ Running
    /\ event.step = "unlock"
    /\ tvclient_mutex' = "free"
    /\ event' = [event EXCEPT !.step = "next", !.client = "NULL", !.index = 0, !.size = 0]
    /\ UNCHANGED <<appVars, objectVars, fault, historyVars>>

AppStep(t) ==
    \/ TestInstance(t) \/ ConstructorLock(t) \/ Register(t) \/ ConstructorUnlock(t)
    \/ AssignInstance(t) \/ ReturnInstance(t) \/ setTvClientObserver(t) \/ StoreObserver(t)
    \/ RegisterCallback(t)
    \/ ReleaseInstance(t) \/ DestructorLock(t) \/ Unregister(t) \/ DestructorUnlock(t)

BinderStep == SendEvent \/ NextClient \/ onTransact \/ SendTvClientEvent \/ onTvClientEvent \/ TransactUnlock

Next == setTvEventCallback \/ BinderStep \/ \E t \in Threads : AppStep(t)

Spec == Init /\ [][Next]_vars

-----------------------------------------------------------------------------

Label == {"out", "construct", "register", "unlock", "assign", "return", "observe", "store",
          "callback", "ready", "delete", "clear", "unlockDelete"}

\* Every variable has its type; who is past TvClient::GetInstance has a TvClient,
\* and the mutex is held where the code holds it.
TypeOK ==
    /\ pc \in [Threads -> Label]
    /\ got \in [Threads -> 0 .. MaxInstances]
    /\ mpTvClient \in [Threads -> Threads \cup {"NULL"}]
    /\ \A t \in Threads : pc[t] \in {"observe", "store", "callback", "ready", "delete", "clear",
                                    "unlockDelete"} => mpTvClient[t] # "NULL"
    /\ \A t \in Threads : tvclient_mutex = t <=> pc[t] \in {"register", "unlock", "clear", "unlockDelete"}
    /\ tvclient_mutex = "binder" <=> event.step \in {"handle", "call", "unlock"}
    /\ mInstance \in Threads \cup {"NULL"}
    /\ object \in [Threads -> {"none", "alive", "freed"}]
    /\ \A t \in Threads : \A i \in 1 .. Len(observers[t]) : observers[t][i] \in Wrapper
    /\ hooked \subseteq Wrapper /\ freed \subseteq Wrapper
    /\ registered \subseteq Threads
    /\ event.todo \subseteq Threads

NothingReleased ==
    \A t \in Threads : object[t] # "freed" /\ pc[t] \notin {"clear", "unlockDelete"}

\* While nothing has been released and the application's callback is set, an
\* event ends the process only between the constructor's unlock and the
\* assignment of mInstance or, once the wrapper observes, before it has its
\* function (TvClientWrapper.cpp:25-28, 193-200; TvClient.cpp:33-59).
FaultsOnlyInConstruction ==
    (fault # "none" /\ mEventCallback /\ NothingReleased)
        => \E t \in Threads : pc[t] \in {"assign", "callback"}

\* If no two threads were ever in GetInstance together and nothing has been
\* released, an event reaches each wrapper that was ready when it was sent, once.
EachWrapperToldOnce ==
    (~overlapped /\ NothingReleased)
        => /\ \A i, j \in 1 .. Len(told) : told[i] = told[j] => i = j
           /\ event.step = "idle" => \A w \in event.due : \E i \in 1 .. Len(told) : told[i] = w

=============================================================================

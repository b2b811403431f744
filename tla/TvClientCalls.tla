---------------------------- MODULE TvClientCalls ----------------------------
(***************************************************************************)
(* The calls between client processes and tvservice, and the two mutexes   *)
(* they are made under: TvClient (src/client/TvClient.cpp), used directly  *)
(* or through TvClientWrapper.cpp, and TvService::onTransact.              *)
(*                                                                         *)
(* A client process has an application thread, which creates the TvClient, *)
(* sends commands and releases it, and a binder thread, which handles the  *)
(* events.  The service has a poll thread, which calls one client after    *)
(* the other and waits for each, and binder threads, which execute the     *)
(* commands.  A command sent from inside a callback is executed by the     *)
(* waiting poll thread: binder (external) nests it there.  Which clients a *)
(* send loop misses is TvServiceCallbacks' subject; here it may miss any.  *)
(***************************************************************************)
EXTENDS FiniteSets

CONSTANT Clients   \* client processes, each with the one TvClient it may have

VARIABLES
    process,             \* of each client: alive, killed or crashed
    app,                 \* where each application thread is
    binder,              \* where the handling of an event is, in each client
    tvclient_mutex,      \* of each client: the thread that holds it
    tvservice_mutex,     \* the client and thread whose command is executed
    mTvServiceCallBack,  \* the clients registered
    sender               \* the send loop: running or not, the clients called

clientVars == <<process, app, binder, tvclient_mutex>>
vars == <<clientVars, tvservice_mutex, mTvServiceCallBack, sender>>

Alive(c) == process[c] = "alive"
Free == "free"
NoCommand == <<"none", "none">>

Init ==
    /\ process = [c \in Clients |-> "alive"]
    /\ app = [c \in Clients |-> "new"]
    /\ binder = [c \in Clients |-> "idle"]
    /\ tvclient_mutex = [c \in Clients |-> Free]
    /\ tvservice_mutex = NoCommand
    /\ mTvServiceCallBack = {}
    /\ sender = [sending |-> FALSE, called |-> {}]

\* A step of an application thread, and the mutex it leaves.
AppStep(c, from, to) == Alive(c) /\ app[c] = from /\ app' = [app EXCEPT ![c] = to]
Holds(c, holder) == tvclient_mutex' = [tvclient_mutex EXCEPT ![c] = holder]

-----------------------------------------------------------------------------
(***************************************************************************)
(* The application thread: GetInstance, commands, ReleaseInstance.         *)
(***************************************************************************)

\* Fault: the constructor takes no lock.
ConstructUnlocked(c) ==
    /\ AppStep(c, "new", "locked")
    /\ UNCHANGED <<process, binder, tvclient_mutex, tvservice_mutex, mTvServiceCallBack, sender>>

\* The constructor up to the lookup of the service, which it waits for.
Construct(c) ==
    /\ AppStep(c, "new", "locked")
    /\ tvclient_mutex[c] = Free
    /\ Holds(c, "app")
    /\ UNCHANGED <<process, binder, tvservice_mutex, mTvServiceCallBack, sender>>

\* CMD_SET_TV_CB, executed by the service without a lock.
Register(c) ==
    /\ AppStep(c, "locked", "registered")
    /\ mTvServiceCallBack' = mTvServiceCallBack \cup {c}
    /\ UNCHANGED <<process, binder, tvclient_mutex, tvservice_mutex, sender>>

ConstructorUnlock(c) ==
    /\ AppStep(c, "registered", "constructed")
    /\ Holds(c, Free)
    /\ UNCHANGED <<process, binder, tvservice_mutex, mTvServiceCallBack, sender>>

\* GetInstance assigns mInstance, through which events are handled.
AssignInstance(c) ==
    /\ AppStep(c, "constructed", "assigned")
    /\ UNCHANGED <<process, binder, tvclient_mutex, tvservice_mutex, mTvServiceCallBack, sender>>

setTvClientObserver(c) ==
    /\ AppStep(c, "assigned", "ready")
    /\ UNCHANGED <<process, binder, tvclient_mutex, tvservice_mutex, mTvServiceCallBack, sender>>

\* The commands: each API function sends its text and waits for the answer.
SendMethodCall(c) ==
    /\ AppStep(c, "ready", "calling")
    /\ UNCHANGED <<process, binder, tvclient_mutex, tvservice_mutex, mTvServiceCallBack, sender>>

ReleaseInstance(c) ==
    /\ AppStep(c, "ready", "releasing")
    /\ UNCHANGED <<process, binder, tvclient_mutex, tvservice_mutex, mTvServiceCallBack, sender>>

\* The destructor: lock, CMD_CLR_TV_CB, unlock.
DestructorLock(c) ==
    /\ AppStep(c, "releasing", "clearing")
    /\ tvclient_mutex[c] = Free
    /\ Holds(c, "app")
    /\ UNCHANGED <<process, binder, tvservice_mutex, mTvServiceCallBack, sender>>

Unregister(c) ==
    /\ AppStep(c, "clearing", "cleared")
    /\ mTvServiceCallBack' = mTvServiceCallBack \ {c}
    /\ UNCHANGED <<process, binder, tvclient_mutex, tvservice_mutex, sender>>

DestructorUnlock(c) ==
    /\ AppStep(c, "cleared", "released")
    /\ Holds(c, Free)
    /\ UNCHANGED <<process, binder, tvservice_mutex, mTvServiceCallBack, sender>>

-----------------------------------------------------------------------------
(***************************************************************************)
(* The service.                                                            *)
(***************************************************************************)

\* Fault: a callback's thread goes on as an application thread does.
AfterCommandReady(c, thread) == "ready"

\* Where a thread continues when its command was answered.
AfterCommand(c, thread) ==
    IF thread = "app" THEN "ready" ELSE IF Alive(c) THEN "unlock" ELSE "idle"

\* ParserTvCommand and ParserTvDataCommand: lock, execute, unlock.  A command
\* is executed to its end when its client has died in the meantime.
BeginCommand(c, thread) ==
    /\ tvservice_mutex = NoCommand
    /\ tvservice_mutex' = <<c, thread>>
    /\ IF thread = "app"
       THEN app[c] = "calling" /\ app' = [app EXCEPT ![c] = "executing"] /\ UNCHANGED binder
       ELSE binder[c] = "calling" /\ binder' = [binder EXCEPT ![c] = "executing"] /\ UNCHANGED app
    /\ UNCHANGED <<process, tvclient_mutex, mTvServiceCallBack, sender>>

\* Fault: the command of a client that died is given up with the mutex locked.
EndCommandOfLiving(c, thread) ==
    /\ Alive(c)
    /\ tvservice_mutex = <<c, thread>>
    /\ tvservice_mutex' = NoCommand
    /\ IF thread = "app"
       THEN app' = [app EXCEPT ![c] = AfterCommand(c, thread)] /\ UNCHANGED binder
       ELSE binder' = [binder EXCEPT ![c] = AfterCommand(c, thread)] /\ UNCHANGED app
    /\ UNCHANGED <<process, tvclient_mutex, mTvServiceCallBack, sender>>

EndCommand(c, thread) ==
    /\ tvservice_mutex = <<c, thread>>
    /\ tvservice_mutex' = NoCommand
    /\ IF thread = "app"
       THEN app' = [app EXCEPT ![c] = AfterCommand(c, thread)] /\ UNCHANGED binder
       ELSE binder' = [binder EXCEPT ![c] = AfterCommand(c, thread)] /\ UNCHANGED app
    /\ UNCHANGED <<process, tvclient_mutex, mTvServiceCallBack, sender>>

\* The poll thread has an event for the clients.
SendEvent ==
    /\ ~sender.sending
    /\ sender' = [sending |-> TRUE, called |-> {}]
    /\ UNCHANGED <<clientVars, tvservice_mutex, mTvServiceCallBack>>

\* It calls a client and waits; the call of a dead client returns at once.
Transact(c) ==
    /\ sender.sending
    /\ \A d \in Clients : binder[d] = "idle"
    /\ c \in mTvServiceCallBack \ sender.called
    /\ sender' = [sender EXCEPT !.called = @ \cup {c}]
    /\ binder' = [binder EXCEPT ![c] = IF Alive(c) THEN "lock" ELSE "idle"]
    /\ UNCHANGED <<process, app, tvclient_mutex, tvservice_mutex, mTvServiceCallBack>>

EndLoop ==
    /\ sender.sending
    /\ \A d \in Clients : binder[d] = "idle"
    /\ sender' = [sending |-> FALSE, called |-> {}]
    /\ UNCHANGED <<clientVars, tvservice_mutex, mTvServiceCallBack>>

-----------------------------------------------------------------------------
(***************************************************************************)
(* The binder thread of a client: onTransact, SendTvClientEvent and the    *)
(* observer's callback, all under tvclient_mutex, which is not recursive.  *)
(***************************************************************************)

BinderStep(c, from, to) == Alive(c) /\ binder[c] = from /\ binder' = [binder EXCEPT ![c] = to]

OnTransact(c) ==
    /\ BinderStep(c, "lock", "handle")
    /\ tvclient_mutex[c] = Free
    /\ Holds(c, "binder")
    /\ UNCHANGED <<process, app, tvservice_mutex, mTvServiceCallBack, sender>>

\* mInstance is null, or the object it points to was destroyed.
NoInstance(c) == app[c] \in {"new", "locked", "registered", "constructed"}
Destroyed(c)  == app[c] = "released"

\* Nobody observes yet, or whatever is left of a destroyed object answers.
HandleUnobserved(c) ==
    /\ app[c] = "assigned" \/ Destroyed(c)
    /\ BinderStep(c, "handle", "unlock")
    /\ UNCHANGED <<process, app, tvclient_mutex, tvservice_mutex, mTvServiceCallBack, sender>>

\* The callback returns, sends a command, or releases the client.
HandleObserved(c) ==
    /\ ~NoInstance(c) /\ ~Destroyed(c) /\ app[c] # "assigned"
    /\ \E next \in {"unlock", "calling", "selfRelease"} : BinderStep(c, "handle", next)
    /\ UNCHANGED <<process, app, tvclient_mutex, tvservice_mutex, mTvServiceCallBack, sender>>

\* The use of a null or dangling pointer ends the process.
HandleCrashes(c) ==
    /\ NoInstance(c) \/ Destroyed(c)
    /\ BinderStep(c, "handle", "idle")
    /\ process' = [process EXCEPT ![c] = "crashed"]
    /\ UNCHANGED <<app, tvclient_mutex, tvservice_mutex, mTvServiceCallBack, sender>>

\* Fault: onTransact returns without unlocking.
NoTransactUnlock(c) ==
    /\ BinderStep(c, "unlock", "idle")
    /\ UNCHANGED <<process, app, tvclient_mutex, tvservice_mutex, mTvServiceCallBack, sender>>

TransactUnlock(c) ==
    /\ BinderStep(c, "unlock", "idle")
    /\ Holds(c, Free)
    /\ UNCHANGED <<process, app, tvservice_mutex, mTvServiceCallBack, sender>>

\* A process may be killed; an event it was handling is answered by binder
\* with an error, except that a command its callback sent is executed first.
Kill(c) ==
    /\ Alive(c)
    /\ process' = [process EXCEPT ![c] = "killed"]
    /\ binder' = [binder EXCEPT ![c] = IF @ \in {"calling", "executing"} THEN @ ELSE "idle"]
    /\ UNCHANGED <<app, tvclient_mutex, tvservice_mutex, mTvServiceCallBack, sender>>

-----------------------------------------------------------------------------

\* The steps of a release or a construction in progress.
AppContinues(c) ==
    \/ Register(c) \/ ConstructorUnlock(c) \/ AssignInstance(c) \/ setTvClientObserver(c)
    \/ Unregister(c) \/ DestructorUnlock(c)

BinderContinues(c) == HandleUnobserved(c) \/ HandleObserved(c) \/ HandleCrashes(c) \/ TransactUnlock(c)

SenderContinues == EndLoop \/ \E c \in Clients : Transact(c)

Next ==
    \/ SendEvent \/ SenderContinues
    \/ \E c \in Clients :
          \/ Construct(c) \/ SendMethodCall(c) \/ ReleaseInstance(c) \/ DestructorLock(c)
          \/ AppContinues(c)
          \/ OnTransact(c) \/ BinderContinues(c)
          \/ Kill(c)
          \/ \E thread \in {"app", "binder"} : BeginCommand(c, thread) \/ EndCommand(c, thread)

\* Threads that hold a mutex go on.  Those that wait for one get it if it comes
\* free again and again: waiters queue in the kernel.
Fairness ==
    /\ WF_vars(SenderContinues)
    /\ \A c \in Clients :
          /\ WF_vars(AppContinues(c)) /\ WF_vars(BinderContinues(c))
          /\ SF_vars(DestructorLock(c)) /\ SF_vars(OnTransact(c))
          /\ \A thread \in {"app", "binder"} :
                SF_vars(BeginCommand(c, thread)) /\ WF_vars(EndCommand(c, thread))

Spec == Init /\ [][Next]_vars

FairSpec == Spec /\ Fairness

-----------------------------------------------------------------------------

\* The threads are where the code can be, and a mutex is free or has a holder.
TypeOK ==
    /\ process \in [Clients -> {"alive", "killed", "crashed"}]
    /\ app \in [Clients -> {"new", "locked", "registered", "constructed", "assigned", "ready",
                            "calling", "executing", "releasing", "clearing", "cleared",
                            "released"}]
    /\ binder \in [Clients -> {"idle", "lock", "handle", "calling", "executing",
                               "selfRelease", "unlock"}]
    /\ tvclient_mutex \in [Clients -> {Free, "app", "binder"}]
    /\ tvservice_mutex \in {NoCommand} \cup (Clients \X {"app", "binder"})
    /\ mTvServiceCallBack \subseteq Clients
    /\ sender \in [sending : BOOLEAN, called : SUBSET Clients]

\* An event crashes a client only between the constructor's unlock and the
\* assignment of mInstance, or when its TvClient has been destroyed: while the
\* constructor or the destructor runs the event waits (TvClient.cpp:33-71, 311).
CrashWindows ==
    \A c \in Clients : process[c] = "crashed" => app[c] \in {"constructed", "released"}

\* Every call of a client returns to the poll thread, in whatever state the
\* client is and whatever it does in its callback, but for releasing itself
\* there: that waits for the mutex the callback runs under, for ever.
EventsReturn ==
    \A c \in Clients : (binder[c] # "idle") ~> (binder[c] \in {"idle", "selfRelease"})

\* Every command is executed and answered, the application's and the callback's,
\* however many clients send theirs: whoever has tvservice_mutex gives it back
\* without waiting for a client, also when its own client has died and while the
\* poll thread is stuck in a callback that released its client
\* (TvService.cpp:110-255 takes the mutex, 63-108 does not).
CommandsAnswered ==
    \A c \in Clients :
        /\ (app[c] = "calling") ~> (app[c] = "ready")
        /\ (binder[c] = "calling") ~> (binder[c] \notin {"calling", "executing"})

\* A client that wants to leave does, unless it dies or its callback is stuck in
\* a release of its own.
ReleasesReturn ==
    \A c \in Clients :
        (app[c] = "releasing") ~>
            (app[c] = "released" \/ ~Alive(c) \/ binder[c] = "selfRelease")
=============================================================================

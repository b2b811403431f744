------------------------- MODULE TvClientCallsProofs -------------------------
(***************************************************************************)
(* For any number of client processes: the types, and the two places in    *)
(* the life of a TvClient where an event can crash its process.            *)
(***************************************************************************)
EXTENDS TvClientCalls, TLAPS

\* Where a thread that is alive holds tvclient_mutex.
AppInside    == {"locked", "registered", "clearing", "cleared"}
BinderInside == {"handle", "calling", "executing", "selfRelease", "unlock"}

\* The mutex has at most one thread inside, and names it.
MutexNamesHolder(c) ==
    Alive(c) => /\ app[c] \in AppInside => tvclient_mutex[c] = "app"
                /\ binder[c] \in BinderInside => tvclient_mutex[c] = "binder"

\* A command in execution is the one its thread waits for.
CommandOfThread(c) ==
    /\ tvservice_mutex = <<c, "app">> => app[c] = "executing"
    /\ tvservice_mutex = <<c, "binder">> => binder[c] = "executing"

\* A client that has not been constructed gets no event.
NewUnknown(c) == app[c] = "new" => c \notin mTvServiceCallBack /\ binder[c] = "idle"

CrashWindow(c) == process[c] = "crashed" => app[c] \in {"constructed", "released"}

CallInv(c) == MutexNamesHolder(c) /\ CommandOfThread(c) /\ NewUnknown(c) /\ CrashWindow(c)

IInv == TypeOK /\ \A c \in Clients : CallInv(c)

\* The steps of one client c: the part of the invariant that is about another
\* client reads nothing they change.
LEMMA OthersUndisturbed ==
    ASSUME NEW c \in Clients, NEW d \in Clients, d # c, CallInv(d),
           process'[d] = process[d], app'[d] = app[d], binder'[d] = binder[d],
           tvclient_mutex'[d] = tvclient_mutex[d],
           d \in mTvServiceCallBack' => d \in mTvServiceCallBack,
           \/ tvservice_mutex' = tvservice_mutex
           \/ tvservice_mutex' = NoCommand
           \/ \E thread \in {"app", "binder"} : tvservice_mutex' = <<c, thread>>
    PROVE  CallInv(d)'
<1>1. MutexNamesHolder(d)' /\ NewUnknown(d)' /\ CrashWindow(d)'
  BY DEF CallInv, MutexNamesHolder, NewUnknown, CrashWindow, Alive
<1>2. \A thread \in {"app", "binder"} :
        tvservice_mutex' = <<d, thread>> => tvservice_mutex = <<d, thread>>
  BY DEF NoCommand
<1>3. CommandOfThread(d)'
  BY <1>2 DEF CallInv, CommandOfThread
<1>4. QED  BY <1>1, <1>3 DEF CallInv

\* A step of client c keeps the invariant if it keeps the types and the part
\* about c, and leaves the others alone.
LEMMA StepOfClient ==
    ASSUME IInv, TypeOK', NEW c \in Clients, CallInv(c)',
           \A d \in Clients \ {c} :
              /\ process'[d] = process[d] /\ app'[d] = app[d] /\ binder'[d] = binder[d]
              /\ tvclient_mutex'[d] = tvclient_mutex[d]
              /\ d \in mTvServiceCallBack' => d \in mTvServiceCallBack,
           \/ tvservice_mutex' = tvservice_mutex
           \/ tvservice_mutex' = NoCommand
           \/ \E thread \in {"app", "binder"} : tvservice_mutex' = <<c, thread>>
    PROVE  IInv'
<1>1. ASSUME NEW d \in Clients, d # c  PROVE CallInv(d)'
  BY <1>1, OthersUndisturbed DEF IInv
<1>2. QED  BY <1>1 DEF IInv

LEMMA InitInv == Init => IInv
BY DEF Init, IInv, TypeOK, CallInv, MutexNamesHolder, CommandOfThread, NewUnknown, CrashWindow,
       Alive, AppInside, BinderInside, NoCommand, Free

-----------------------------------------------------------------------------
(***************************************************************************)
(* The application thread.                                                 *)
(***************************************************************************)

LEMMA AppKeepsInv ==
    ASSUME IInv, NEW c \in Clients,
           \/ Construct(c) \/ SendMethodCall(c) \/ ReleaseInstance(c) \/ DestructorLock(c)
           \/ AppContinues(c)
    PROVE  IInv'
<1> USE DEF IInv, TypeOK, CallInv, AppStep, Holds, Free, clientVars
<1>1. TypeOK'
  <2>1. CASE Construct(c) \/ DestructorLock(c)
    BY <2>1 DEF Construct, DestructorLock
  <2>2. CASE SendMethodCall(c) \/ ReleaseInstance(c)
    BY <2>2 DEF SendMethodCall, ReleaseInstance
  <2>3. CASE Register(c) \/ Unregister(c)
    BY <2>3 DEF Register, Unregister
  <2>4. CASE ConstructorUnlock(c) \/ DestructorUnlock(c)
    BY <2>4 DEF ConstructorUnlock, DestructorUnlock
  <2>5. CASE AssignInstance(c) \/ setTvClientObserver(c)
    BY <2>5 DEF AssignInstance, setTvClientObserver
  <2>6. QED  BY <2>1, <2>2, <2>3, <2>4, <2>5 DEF AppContinues
<1>2. CallInv(c)'
  <2> USE DEF MutexNamesHolder, CommandOfThread, NewUnknown, CrashWindow, Alive,
              AppInside, BinderInside
  <2>1. CASE Construct(c)  BY <2>1 DEF Construct
  <2>2. CASE DestructorLock(c)  BY <2>2 DEF DestructorLock
  <2>3. CASE SendMethodCall(c)  BY <2>3 DEF SendMethodCall
  <2>4. CASE ReleaseInstance(c)  BY <2>4 DEF ReleaseInstance
  <2>5. CASE Register(c)  BY <2>5 DEF Register
  <2>6. CASE Unregister(c)  BY <2>6 DEF Unregister
  <2>7. CASE ConstructorUnlock(c)  BY <2>7 DEF ConstructorUnlock
  <2>8. CASE DestructorUnlock(c)  BY <2>8 DEF DestructorUnlock
  <2>9. CASE AssignInstance(c)  BY <2>9 DEF AssignInstance
  <2>10. CASE setTvClientObserver(c)  BY <2>10 DEF setTvClientObserver
  <2>11. QED  BY <2>1, <2>2, <2>3, <2>4, <2>5, <2>6, <2>7, <2>8, <2>9, <2>10 DEF AppContinues
<1>3. /\ tvservice_mutex' = tvservice_mutex
      /\ \A d \in Clients \ {c} :
            /\ process'[d] = process[d] /\ app'[d] = app[d] /\ binder'[d] = binder[d]
            /\ tvclient_mutex'[d] = tvclient_mutex[d]
            /\ d \in mTvServiceCallBack' => d \in mTvServiceCallBack
  BY DEF Construct, DestructorLock, SendMethodCall, ReleaseInstance, Register, Unregister,
         ConstructorUnlock, DestructorUnlock, AssignInstance, setTvClientObserver, AppContinues
<1>4. QED  BY <1>1, <1>2, <1>3, StepOfClient

-----------------------------------------------------------------------------
(***************************************************************************)
(* The binder thread of a client, and its end.                             *)
(***************************************************************************)

LEMMA BinderKeepsInv ==
    ASSUME IInv, NEW c \in Clients, OnTransact(c) \/ BinderContinues(c) \/ Kill(c)
    PROVE  IInv'
<1> USE DEF IInv, TypeOK, CallInv, BinderStep, Holds, Free, clientVars
<1>1. TypeOK'
  <2>1. CASE OnTransact(c) \/ TransactUnlock(c)
    BY <2>1 DEF OnTransact, TransactUnlock
  <2>2. CASE HandleUnobserved(c) \/ HandleObserved(c)
    BY <2>2 DEF HandleUnobserved, HandleObserved
  <2>3. CASE HandleCrashes(c) \/ Kill(c)
    BY <2>3 DEF HandleCrashes, Kill
  <2>4. QED  BY <2>1, <2>2, <2>3 DEF BinderContinues
<1>2. CallInv(c)'
  <2> USE DEF MutexNamesHolder, CommandOfThread, NewUnknown, CrashWindow, Alive,
              AppInside, BinderInside
  <2>1. CASE OnTransact(c)  BY <2>1 DEF OnTransact
  <2>2. CASE TransactUnlock(c)  BY <2>2 DEF TransactUnlock
  <2>3. CASE HandleUnobserved(c)  BY <2>3 DEF HandleUnobserved, Destroyed
  <2>4. CASE HandleObserved(c)  BY <2>4 DEF HandleObserved
  <2>5. CASE HandleCrashes(c)  BY <2>5 DEF HandleCrashes, NoInstance, Destroyed
  <2>6. CASE Kill(c)  BY <2>6 DEF Kill
  <2>7. QED  BY <2>1, <2>2, <2>3, <2>4, <2>5, <2>6 DEF BinderContinues
<1>3. /\ tvservice_mutex' = tvservice_mutex
      /\ \A d \in Clients \ {c} :
            /\ process'[d] = process[d] /\ app'[d] = app[d] /\ binder'[d] = binder[d]
            /\ tvclient_mutex'[d] = tvclient_mutex[d]
            /\ d \in mTvServiceCallBack' => d \in mTvServiceCallBack
  BY DEF OnTransact, TransactUnlock, HandleUnobserved, HandleObserved, HandleCrashes, Kill,
         BinderContinues
<1>4. QED  BY <1>1, <1>2, <1>3, StepOfClient

-----------------------------------------------------------------------------
(***************************************************************************)
(* The service.                                                            *)
(***************************************************************************)

LEMMA CommandKeepsInv ==
    ASSUME IInv, NEW c \in Clients, NEW thread \in {"app", "binder"},
           BeginCommand(c, thread) \/ EndCommand(c, thread)
    PROVE  IInv'
<1> USE DEF IInv, TypeOK, CallInv, NoCommand, clientVars
<1>1. TypeOK'
  <2>1. <<c, thread>> \in Clients \X {"app", "binder"}
    OBVIOUS
  <2>2. tvservice_mutex' \in {NoCommand} \cup (Clients \X {"app", "binder"})
    BY <2>1 DEF BeginCommand, EndCommand
  <2>3. CASE BeginCommand(c, thread)
    BY <2>2, <2>3 DEF BeginCommand
  <2>4. CASE EndCommand(c, thread)
    BY <2>2, <2>4 DEF EndCommand, AfterCommand
  <2>5. QED  BY <2>3, <2>4
<1>2. CallInv(c)'
  <2> USE DEF MutexNamesHolder, CommandOfThread, NewUnknown, CrashWindow, Alive,
              AppInside, BinderInside
  <2>1. CASE BeginCommand(c, thread)  BY <2>1 DEF BeginCommand
  <2>2. CASE EndCommand(c, thread)  BY <2>2 DEF EndCommand, AfterCommand
  <2>3. QED  BY <2>1, <2>2
<1>3. /\ tvservice_mutex' = NoCommand \/ tvservice_mutex' = <<c, thread>>
      /\ \A d \in Clients \ {c} :
            /\ process'[d] = process[d] /\ app'[d] = app[d] /\ binder'[d] = binder[d]
            /\ tvclient_mutex'[d] = tvclient_mutex[d]
            /\ d \in mTvServiceCallBack' => d \in mTvServiceCallBack
  BY DEF BeginCommand, EndCommand
<1>4. QED  BY <1>1, <1>2, <1>3, StepOfClient

LEMMA SenderKeepsInv ==
    ASSUME IInv, SendEvent \/ SenderContinues
    PROVE  IInv'
<1> USE DEF IInv, TypeOK, CallInv, clientVars
<1>1. CASE SendEvent \/ EndLoop
  <2>1. TypeOK'
    <3>1. sender' \in [sending : BOOLEAN, called : SUBSET Clients]
      <4>1. \A b \in BOOLEAN : [sending |-> b, called |-> {}] \in
                                   [sending : BOOLEAN, called : SUBSET Clients]
        OBVIOUS
      <4>2. QED  BY <1>1, <4>1, Zenon DEF SendEvent, EndLoop
    <3>2. QED  BY <1>1, <3>1 DEF SendEvent, EndLoop
  <2>2. ASSUME NEW c \in Clients  PROVE CallInv(c)'
    BY <1>1 DEF SendEvent, EndLoop, MutexNamesHolder, CommandOfThread, NewUnknown, CrashWindow,
                Alive
  <2>3. QED  BY <2>1, <2>2
<1>2. ASSUME NEW c \in Clients, Transact(c)
      PROVE  IInv'
  <2>1. TypeOK'
    BY <1>2 DEF Transact
  <2>2. CallInv(c)'
    BY <1>2 DEF Transact, MutexNamesHolder, CommandOfThread, NewUnknown, CrashWindow, Alive,
                BinderInside
  <2>3. /\ tvservice_mutex' = tvservice_mutex
        /\ \A d \in Clients \ {c} :
              /\ process'[d] = process[d] /\ app'[d] = app[d] /\ binder'[d] = binder[d]
              /\ tvclient_mutex'[d] = tvclient_mutex[d]
              /\ d \in mTvServiceCallBack' => d \in mTvServiceCallBack
    BY <1>2 DEF Transact
  <2>4. QED  BY <2>1, <2>2, <2>3, StepOfClient
<1>3. QED  BY <1>1, <1>2 DEF SenderContinues

LEMMA StepKeepsInv == IInv /\ [Next]_vars => IInv'
<1> SUFFICES ASSUME IInv, [Next]_vars  PROVE IInv'
  OBVIOUS
<1>1. CASE UNCHANGED vars
  BY <1>1 DEF vars, clientVars, IInv, TypeOK, CallInv, MutexNamesHolder, CommandOfThread,
              NewUnknown, CrashWindow, Alive
<1>2. CASE Next
  BY <1>2, AppKeepsInv, BinderKeepsInv, CommandKeepsInv, SenderKeepsInv DEF Next
<1>3. QED  BY <1>1, <1>2

LEMMA AlwaysIInv == Spec => []IInv
BY InitInv, StepKeepsInv, PTL DEF Spec

\* The threads of every client are where the code can be, and every mutex is
\* free or has a holder, for any number of clients.
THEOREM ClientCallTypes == Spec => []TypeOK
<1>1. IInv => TypeOK  BY DEF IInv
<1>2. QED  BY <1>1, AlwaysIInv, PTL

\* An event crashes a client only after the constructor's unlock and before
\* GetInstance assigns mInstance, or when its TvClient has been destroyed.
THEOREM EventsCrashOnlyThere == Spec => []CrashWindows
<1>1. IInv => CrashWindows  BY DEF IInv, CallInv, CrashWindow, CrashWindows
<1>2. QED  BY <1>1, AlwaysIInv, PTL
=============================================================================

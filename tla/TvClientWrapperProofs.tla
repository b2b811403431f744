------------------------ MODULE TvClientWrapperProofs ------------------------
(***************************************************************************)
(* TvClientWrapper's invariants, for any number of threads and wrappers.   *)
(*                                                                         *)
(* Three parts are inductive by themselves: the types, where a thread is,  *)
(* and how the TvClients and their observers relate to that.  They bound   *)
(* what an event can end the process with.  On top of them, while no two   *)
(* threads were in GetInstance together and nothing has been released,     *)
(* there is one TvClient, its observers are distinct, and the event in     *)
(* progress has told a beginning of them.                                  *)
(***************************************************************************)
EXTENDS TvClientWrapper, SequenceTheorems, TLAPS

Steps == {"idle", "next", "lock", "handle", "call", "unlock"}

\* The event has its type.
EventType ==
    [step : Steps, client : Threads \cup {"NULL"}, todo : SUBSET Threads, index : Nat, size : Nat,
     due : SUBSET Wrapper]

TypeInv ==
    /\ pc \in [Threads -> Label]
    /\ got \in [Threads -> 0 .. MaxInstances]
    /\ mpTvClient \in [Threads -> Threads \cup {"NULL"}]
    /\ clientSize \in [Threads -> Nat]
    /\ mInstance \in Threads \cup {"NULL"}
    /\ tvclient_mutex \in Threads \cup {"free", "binder"}
    /\ object \in [Threads -> {"none", "alive", "freed"}]
    /\ observers \in [Threads -> Seq(Wrapper)]
    /\ hooked \subseteq Wrapper
    /\ freed \subseteq Wrapper
    /\ mEventCallback \in BOOLEAN
    /\ registered \subseteq Threads
    /\ event \in EventType
    /\ told \in Seq(Wrapper)
    /\ overlapped \in BOOLEAN

Constructing(t) == pc[t] \in {"construct", "register", "unlock", "assign"}

\* The thread has a wrapper with a TvClient.
Holding(t) == pc[t] \in {"observe", "store", "callback", "ready", "delete", "clear", "unlockDelete"}

\* Where a thread is, against mInstance, its wrapper and the mutex.
ControlInv ==
    /\ \A t \in Threads : pc[t] # "out" => got[t] >= 1
    /\ \A t \in Threads : pc[t] = "return" \/ Holding(t) => mInstance # "NULL"
    /\ \A t \in Threads : Holding(t) => mpTvClient[t] # "NULL"
    /\ \A t \in Threads : tvclient_mutex = t <=> pc[t] \in {"register", "unlock", "clear", "unlockDelete"}
    /\ tvclient_mutex = "binder" <=> event.step \in {"handle", "call", "unlock"}

-----------------------------------------------------------------------------

\* The observer stored is in the map, and what else is there was there before.
LEMMA StoreEffect ==
    ASSUME NEW s \in Seq(Wrapper), NEW n \in Nat, NEW w \in Wrapper
    PROVE  /\ Store(s, n, w) \in Seq(Wrapper)
           /\ Len(Store(s, n, w)) \in Nat
           /\ Len(Store(s, n, w)) >= Len(s)
           /\ \E i \in 1 .. Len(Store(s, n, w)) : Store(s, n, w)[i] = w
           /\ \A i \in 1 .. Len(Store(s, n, w)) :
                 Store(s, n, w)[i] = w \/ (i <= Len(s) /\ Store(s, n, w)[i] = s[i])
<1>1. Len(s) \in Nat
  BY LenProperties
<1>2. CASE n < Len(s)
  <2>1. Store(s, n, w) = [s EXCEPT ![n + 1] = w]
    BY <1>2 DEF Store
  <2>2. n + 1 \in 1 .. Len(s)
    BY <1>1, <1>2
  <2>3. [s EXCEPT ![n + 1] = w] \in Seq(Wrapper) /\ Len([s EXCEPT ![n + 1] = w]) = Len(s)
    BY <2>2, ExceptSeq
  <2>4. \A i \in 1 .. Len(s) : [s EXCEPT ![n + 1] = w][i] = IF i = n + 1 THEN w ELSE s[i]
    BY <2>2, <1>1, LenProperties
  <2> QED BY <1>1, <2>1, <2>2, <2>3, <2>4
<1>3. CASE ~(n < Len(s))
  <2>1. Store(s, n, w) = Append(s, w)
    BY <1>3 DEF Store
  <2>2. /\ Append(s, w) \in Seq(Wrapper) /\ Len(Append(s, w)) = Len(s) + 1
        /\ \A i \in 1 .. Len(s) : Append(s, w)[i] = s[i]
        /\ Append(s, w)[Len(s) + 1] = w
    BY AppendProperties
  <2> HIDE DEF Store
  <2> QED BY <1>1, <2>1, <2>2
<1> QED BY <1>2, <1>3

\* The event, field by field.
EventRecord(step, client, todo, index, size, due) ==
    [step |-> step, client |-> client, todo |-> todo, index |-> index, size |-> size, due |-> due]

\* Nothing changes but the application's callback and the fault.
Quiet ==
    UNCHANGED <<pc, got, mpTvClient, clientSize, mInstance, tvclient_mutex, object, observers, hooked,
                freed, registered, event, told, overlapped>>

\* The steps of a thread that use its TvClient: it is freed and nothing else
\* changes, or the step is done.
LEMMA UseEffect ==
    ASSUME NEW t \in Threads
    PROVE  /\ setTvClientObserver(t) => Quiet \/
                 /\ pc[t] = "observe" /\ pc' = [pc EXCEPT ![t] = "store"]
                 /\ clientSize' = [clientSize EXCEPT ![t] = Len(observers[mpTvClient[t]])]
                 /\ UNCHANGED <<got, mpTvClient, objectVars, tvclient_mutex, event, fault, historyVars>>
           /\ StoreObserver(t) => Quiet \/
                 /\ pc[t] = "store" /\ pc' = [pc EXCEPT ![t] = "callback"]
                 /\ observers' = [observers EXCEPT ![mpTvClient[t]] =
                                     Store(observers[mpTvClient[t]], clientSize[t], Mine(t))]
                 /\ UNCHANGED <<got, mpTvClient, mInstance, object, hooked, freed, registered, event,
                                historyVars>>
           /\ ReleaseInstance(t) => Quiet \/
                 /\ pc[t] = "ready" /\ pc' = [pc EXCEPT ![t] = "delete"]
                 /\ UNCHANGED <<got, mpTvClient, clientSize, objectVars, event, historyVars>>
           /\ DestructorLock(t) => Quiet \/
                 /\ pc[t] = "delete" /\ pc' = [pc EXCEPT ![t] = "clear"]
                 /\ tvclient_mutex = "free" /\ tvclient_mutex' = t
                 /\ UNCHANGED <<got, mpTvClient, clientSize, objectVars, event, historyVars>>
<1> USE DEF At, Goto, Fault, Quiet, appVars, objectVars, historyVars
<1>1. CASE object[mpTvClient[t]] = "freed"
  BY <1>1 DEF setTvClientObserver, StoreObserver, ReleaseInstance, DestructorLock
<1>2. CASE object[mpTvClient[t]] # "freed"
  BY <1>2 DEF setTvClientObserver, StoreObserver, ReleaseInstance, DestructorLock
<1> QED BY <1>1, <1>2

\* The next client called.
LEMMA NextClientEffect ==
    ASSUME event \in EventType, registered \subseteq Threads, NextClient
    PROVE  \/ /\ event.todo \cap registered = {}
              /\ event' = EventRecord("idle", "NULL", {}, 0, 0, event.due)
           \/ \E o \in event.todo \cap registered :
                 event' = EventRecord("lock", o, event.todo \ {o}, event.index, event.size, event.due)
<1>1. CASE event.todo \cap registered = {}
  BY <1>1 DEF NextClient, NoEvent, EventRecord
<1>2. CASE event.todo \cap registered # {}
  <2>1. PICK o \in event.todo \cap registered :
           event' = [event EXCEPT !.step = "lock", !.client = o, !.todo = @ \ {o}]
    BY <1>2 DEF NextClient
  <2>2. event' = EventRecord("lock", o, event.todo \ {o}, event.index, event.size, event.due)
    BY <2>1 DEF EventRecord, EventType
  <2> QED BY <2>2
<1> QED BY <1>1, <1>2

\* The event is handed to mInstance, or there is none.
LEMMA SendTvClientEventEffect ==
    ASSUME event \in EventType, SendTvClientEvent
    PROVE  \/ (mInstance = "NULL" \/ object[mInstance] = "freed") /\ Quiet
           \/ /\ mInstance # "NULL"
              /\ event' = EventRecord(IF observers[mInstance] = <<>> THEN "unlock" ELSE "call",
                                      mInstance, event.todo, 1, Len(observers[mInstance]), event.due)
              /\ UNCHANGED <<appVars, objectVars, tvclient_mutex, fault, historyVars>>
<1>1. CASE mInstance = "NULL" \/ object[mInstance] = "freed"
  BY <1>1 DEF SendTvClientEvent, Fault, Quiet, appVars, objectVars, historyVars
<1>2. CASE ~(mInstance = "NULL" \/ object[mInstance] = "freed")
  <2>1. /\ event' = [event EXCEPT !.step = IF observers[mInstance] = <<>> THEN "unlock" ELSE "call",
                                  !.client = mInstance, !.index = 1,
                                  !.size = Len(observers[mInstance])]
        /\ UNCHANGED <<appVars, objectVars, tvclient_mutex, fault, historyVars>>
    BY <1>2 DEF SendTvClientEvent
  <2> QED BY <1>2, <2>1 DEF EventRecord, EventType
<1> QED BY <1>1, <1>2

\* The next observer is told, or its call ends the process.
LEMMA onTvClientEventEffect ==
    ASSUME event \in EventType, onTvClientEvent,
           NEW w, w = observers[event.client][event.index]
    PROVE  \/ (w \in freed \/ w \notin hooked \/ ~mEventCallback) /\ Quiet
           \/ /\ w \in hooked
              /\ told' = Append(told, w)
              /\ event' = EventRecord(IF event.index = event.size THEN "unlock" ELSE "call",
                                      event.client, event.todo, event.index + 1, event.size, event.due)
              /\ UNCHANGED <<appVars, objectVars, tvclient_mutex, fault, overlapped>>
<1>1. CASE w \in freed
  BY <1>1 DEF onTvClientEvent, Fault, Quiet, appVars, objectVars, historyVars
<1>2. CASE w \notin freed \cup hooked
  BY <1>2 DEF onTvClientEvent, Fault, Quiet, appVars, objectVars, historyVars
<1>3. CASE w \notin freed /\ w \in hooked /\ ~mEventCallback
  BY <1>3 DEF onTvClientEvent, Fault, Quiet, appVars, objectVars, historyVars
<1>4. CASE w \notin freed /\ w \in hooked /\ mEventCallback
  <2>1. /\ told' = Append(told, w)
        /\ event' = [event EXCEPT !.step = IF event.index = event.size THEN "unlock" ELSE @,
                                  !.index = @ + 1]
        /\ UNCHANGED <<appVars, objectVars, tvclient_mutex, fault, overlapped>>
    BY <1>4 DEF onTvClientEvent
  <2>2. event.step = "call"
    BY DEF onTvClientEvent
  <2>3. event' = EventRecord(IF event.index = event.size THEN "unlock" ELSE "call",
                             event.client, event.todo, event.index + 1, event.size, event.due)
    BY <2>1, <2>2 DEF EventRecord, EventType
  <2> QED BY <1>4, <2>1, <2>3
<1> QED BY <1>1, <1>2, <1>3, <1>4

\* Initially every variable has its type.
LEMMA TypeInit == Init => TypeInv
<1> SUFFICES ASSUME Init PROVE TypeInv
  OBVIOUS
<1>1. <<>> \in Seq(Wrapper)
  BY EmptySeq
<1>2. event \in EventType
  BY DEF Init, NoEvent, EventType, Steps
<1>3. 0 \in 0 .. MaxInstances
  BY MaxAssumption
<1> QED BY <1>1, <1>2, <1>3 DEF Init, TypeInv, Label

\* Every step keeps the types.
LEMMA TypeStep == TypeInv /\ ControlInv /\ [Next]_vars => TypeInv'
<1> SUFFICES ASSUME TypeInv, ControlInv, [Next]_vars PROVE TypeInv'
  OBVIOUS
<1> USE DEF appVars, objectVars, historyVars, At, Goto, Fault
<1>1. \A t \in Threads : pc[t] # "out" => Mine(t) \in Wrapper
  BY MaxAssumption DEF TypeInv, ControlInv, Mine, Wrapper
<1>2. ASSUME NEW t \in Threads, TestInstance(t) PROVE TypeInv'
  <2>1. got' \in [Threads -> 0 .. MaxInstances]
    BY <1>2, MaxAssumption DEF TestInstance, TypeInv
  <2>2. pc' \in [Threads -> Label]
    BY <1>2 DEF TestInstance, TypeInv, Label
  <2>3. overlapped' \in BOOLEAN
    BY <1>2 DEF TestInstance, TypeInv
  <2> QED BY <1>2, <2>1, <2>2, <2>3 DEF TestInstance, TypeInv
<1>3. ASSUME NEW t \in Threads, ConstructorLock(t) PROVE TypeInv'
  BY <1>3 DEF ConstructorLock, TypeInv, Label
<1>4. ASSUME NEW t \in Threads, Register(t) PROVE TypeInv'
  BY <1>4 DEF Register, TypeInv, Label
<1>5. ASSUME NEW t \in Threads, ConstructorUnlock(t) PROVE TypeInv'
  BY <1>5 DEF ConstructorUnlock, TypeInv, Label
<1>6. ASSUME NEW t \in Threads, AssignInstance(t) PROVE TypeInv'
  BY <1>6 DEF AssignInstance, TypeInv, Label
<1>7. ASSUME NEW t \in Threads, ReturnInstance(t) PROVE TypeInv'
  BY <1>7 DEF ReturnInstance, TypeInv, Label
<1>8. ASSUME NEW t \in Threads, setTvClientObserver(t) PROVE TypeInv'
  <2>1. mpTvClient[t] \in Threads
    BY <1>8 DEF setTvClientObserver, TypeInv, ControlInv, Holding
  <2>2. Len(observers[mpTvClient[t]]) \in Nat
    BY <2>1, LenProperties DEF TypeInv
  <2> QED BY <1>8, <2>2 DEF setTvClientObserver, TypeInv, Label
<1>9. ASSUME NEW t \in Threads, StoreObserver(t) PROVE TypeInv'
  <2>1. mpTvClient[t] \in Threads /\ Mine(t) \in Wrapper
    BY <1>1, <1>9 DEF StoreObserver, TypeInv, ControlInv, Holding
  <2>2. Store(observers[mpTvClient[t]], clientSize[t], Mine(t)) \in Seq(Wrapper)
    BY <2>1, StoreEffect DEF TypeInv
  <2>3. mEventCallback' \in BOOLEAN
    BY <1>9 DEF StoreObserver, TypeInv
  <2>4. CASE Quiet
    BY <2>3, <2>4 DEF Quiet, TypeInv
  <2>5. CASE ~Quiet
    <3>1. /\ pc' = [pc EXCEPT ![t] = "callback"]
          /\ observers' = [observers EXCEPT ![mpTvClient[t]] =
                             Store(observers[mpTvClient[t]], clientSize[t], Mine(t))]
          /\ UNCHANGED <<got, mpTvClient, mInstance, object, hooked, freed, registered, event,
                         historyVars>>
      BY <1>9, <2>5, UseEffect
    <3>2. UNCHANGED <<clientSize, tvclient_mutex>>
      BY <1>9 DEF StoreObserver
    <3>3. observers' \in [Threads -> Seq(Wrapper)]
      BY <2>1, <2>2, <3>1 DEF TypeInv
    <3>4. pc' \in [Threads -> Label]
      BY <3>1 DEF TypeInv, Label
    <3> QED BY <2>3, <3>1, <3>2, <3>3, <3>4 DEF TypeInv
  <2> QED BY <2>4, <2>5
<1>10. ASSUME NEW t \in Threads, RegisterCallback(t) PROVE TypeInv'
  BY <1>1, <1>10 DEF RegisterCallback, TypeInv, Label
<1>11. ASSUME NEW t \in Threads, ReleaseInstance(t) PROVE TypeInv'
  BY <1>11 DEF ReleaseInstance, TypeInv, Label
<1>12. ASSUME NEW t \in Threads, DestructorLock(t) PROVE TypeInv'
  BY <1>12 DEF DestructorLock, TypeInv, Label
<1>13. ASSUME NEW t \in Threads, Unregister(t) PROVE TypeInv'
  BY <1>13 DEF Unregister, TypeInv, Label
<1>14. ASSUME NEW t \in Threads, DestructorUnlock(t) PROVE TypeInv'
  BY <1>1, <1>14 DEF DestructorUnlock, TypeInv, Label
<1>15. CASE setTvEventCallback
  BY <1>15 DEF setTvEventCallback, TypeInv
<1>16. CASE SendEvent
  <2>1. {Mine(t) : t \in {t \in Threads : Ready(t)}} \subseteq Wrapper
    BY <1>1 DEF Ready
  <2>2. event' \in EventType
    BY <1>16, <2>1 DEF SendEvent, NoEvent, EventType, Steps, TypeInv
  <2>3. told' \in Seq(Wrapper)
    BY <1>16, EmptySeq DEF SendEvent
  <2> QED BY <1>16, <2>2, <2>3 DEF SendEvent, TypeInv
<1>17. CASE NextClient
  <2>1. event \in EventType /\ registered \subseteq Threads
    BY DEF TypeInv
  <2>2. event' \in EventType
    BY <1>17, <2>1, NextClientEffect DEF EventRecord, EventType, Steps
  <2> QED BY <1>17, <2>2 DEF NextClient, TypeInv
<1>18. CASE onTransact
  <2>1. mEventCallback' \in BOOLEAN
    BY <1>18 DEF onTransact, TypeInv
  <2>2. CASE Quiet
    BY <2>1, <2>2 DEF Quiet, TypeInv
  <2>3. CASE ~Quiet
    <3>1. /\ event' = [event EXCEPT !.step = "handle"] /\ tvclient_mutex' = "binder"
          /\ UNCHANGED <<appVars, objectVars, historyVars>>
      BY <1>18, <2>3 DEF onTransact, Quiet
    <3>2. event' \in EventType
      BY <3>1 DEF TypeInv, EventType, Steps
    <3> QED BY <3>1, <3>2 DEF TypeInv
  <2> QED BY <2>2, <2>3
<1>19. CASE SendTvClientEvent
  <2>1. event \in EventType
    BY DEF TypeInv
  <2>2. mInstance # "NULL" => mInstance \in Threads /\ Len(observers[mInstance]) \in Nat
    BY LenProperties DEF TypeInv
  <2>3. CASE Quiet
    BY <1>19, <2>3 DEF SendTvClientEvent, Quiet, TypeInv
  <2>4. CASE ~Quiet
    <3>1. event' \in EventType
      BY <1>19, <2>1, <2>2, <2>4, SendTvClientEventEffect DEF EventRecord, EventType, Steps
    <3>2. UNCHANGED <<appVars, objectVars, tvclient_mutex, fault, historyVars>>
      BY <1>19, <2>1, <2>4, SendTvClientEventEffect
    <3> QED BY <3>1, <3>2 DEF TypeInv
  <2> QED BY <2>3, <2>4
<1>20. CASE onTvClientEvent
  <2> DEFINE w == observers[event.client][event.index]
  <2>1. event \in EventType /\ hooked \subseteq Wrapper /\ told \in Seq(Wrapper)
    BY DEF TypeInv
  <2> HIDE DEF w
  <2>2. \/ Quiet
        \/ /\ w \in hooked
           /\ told' = Append(told, w)
           /\ event' = EventRecord(IF event.index = event.size THEN "unlock" ELSE "call",
                                   event.client, event.todo, event.index + 1, event.size, event.due)
           /\ UNCHANGED <<appVars, objectVars, tvclient_mutex, fault, overlapped>>
    BY <1>20, <2>1, onTvClientEventEffect DEF w
  <2>3. CASE Quiet
    <3>1. mEventCallback' \in BOOLEAN
      BY <1>20, <2>3 DEF onTvClientEvent, TypeInv
    <3> QED BY <2>3, <3>1 DEF Quiet, TypeInv
  <2>4. CASE ~Quiet
    <3>1. event' \in EventType
      BY <2>1, <2>2, <2>4 DEF EventRecord, EventType, Steps
    <3>2. told' \in Seq(Wrapper)
      BY <2>1, <2>2, <2>4, AppendProperties
    <3> QED BY <2>2, <2>4, <3>1, <3>2 DEF TypeInv
  <2> QED BY <2>3, <2>4
<1>21. CASE TransactUnlock
  BY <1>21 DEF TransactUnlock, TypeInv, EventType, Steps
<1>22. CASE UNCHANGED vars
  BY <1>22 DEF vars, TypeInv
<1> QED
  BY <1>2, <1>3, <1>4, <1>5, <1>6, <1>7, <1>8, <1>9, <1>10, <1>11, <1>12, <1>13, <1>14, <1>15,
     <1>16, <1>17, <1>18, <1>19, <1>20, <1>21, <1>22 DEF Next, AppStep, BinderStep

-----------------------------------------------------------------------------

\* Initially no thread is on its way.
LEMMA ControlInit == Init => ControlInv
BY ThreadsAssumption DEF Init, NoEvent, ControlInv, Holding

\* Every step keeps what is known of where the threads and the event are.
LEMMA ControlStep == TypeInv /\ ControlInv /\ [Next]_vars => ControlInv'
<1> SUFFICES ASSUME TypeInv, ControlInv, [Next]_vars PROVE ControlInv'
  OBVIOUS
<1> USE ThreadsAssumption DEF appVars, objectVars, historyVars, At, Goto, Fault
<1>1. ASSUME NEW t \in Threads, TestInstance(t) PROVE ControlInv'
  <2>1. got'[t] >= 1
    BY <1>1, MaxAssumption DEF TestInstance, TypeInv
  <2> QED BY <1>1, <2>1 DEF TestInstance, TypeInv, ControlInv, Holding
<1>2. ASSUME NEW t \in Threads, ConstructorLock(t) PROVE ControlInv'
  BY <1>2 DEF ConstructorLock, TypeInv, ControlInv, Holding
<1>3. ASSUME NEW t \in Threads, Register(t) PROVE ControlInv'
  BY <1>3 DEF Register, TypeInv, ControlInv, Holding
<1>4. ASSUME NEW t \in Threads, ConstructorUnlock(t) PROVE ControlInv'
  BY <1>4 DEF ConstructorUnlock, TypeInv, ControlInv, Holding
<1>5. ASSUME NEW t \in Threads, AssignInstance(t) PROVE ControlInv'
  BY <1>5 DEF AssignInstance, TypeInv, ControlInv, Holding
<1>6. ASSUME NEW t \in Threads, ReturnInstance(t) PROVE ControlInv'
  <2>1. /\ pc[t] = "return" /\ pc' = [pc EXCEPT ![t] = "observe"]
        /\ mpTvClient' = [mpTvClient EXCEPT ![t] = mInstance]
        /\ UNCHANGED <<got, mInstance, tvclient_mutex, event>>
    BY <1>6 DEF ReturnInstance
  <2> QED BY <2>1 DEF TypeInv, ControlInv, Holding
<1>7. ASSUME NEW t \in Threads, setTvClientObserver(t) PROVE ControlInv'
  <2>1. CASE Quiet
    BY <2>1 DEF Quiet, ControlInv, Holding
  <2>2. CASE ~Quiet
    <3>1. /\ pc[t] = "observe" /\ pc' = [pc EXCEPT ![t] = "store"]
          /\ UNCHANGED <<got, mpTvClient, mInstance, event>>
      BY <1>7, <2>2, UseEffect
    <3>2. tvclient_mutex' = tvclient_mutex
      BY <1>7 DEF setTvClientObserver
    <3> QED BY <3>1, <3>2 DEF TypeInv, ControlInv, Holding
  <2> QED BY <2>1, <2>2
<1>8. ASSUME NEW t \in Threads, StoreObserver(t) PROVE ControlInv'
  <2>1. CASE Quiet
    BY <2>1 DEF Quiet, ControlInv, Holding
  <2>2. CASE ~Quiet
    <3>1. /\ pc[t] = "store" /\ pc' = [pc EXCEPT ![t] = "callback"]
          /\ UNCHANGED <<got, mpTvClient, mInstance, event>>
      BY <1>8, <2>2, UseEffect
    <3>2. tvclient_mutex' = tvclient_mutex
      BY <1>8 DEF StoreObserver
    <3> QED BY <3>1, <3>2 DEF TypeInv, ControlInv, Holding
  <2> QED BY <2>1, <2>2
<1>9. ASSUME NEW t \in Threads, RegisterCallback(t) PROVE ControlInv'
  BY <1>9 DEF RegisterCallback, TypeInv, ControlInv, Holding
<1>10. ASSUME NEW t \in Threads, ReleaseInstance(t) PROVE ControlInv'
  <2>1. CASE Quiet
    BY <2>1 DEF Quiet, ControlInv, Holding
  <2>2. CASE ~Quiet
    <3>1. /\ pc[t] = "ready" /\ pc' = [pc EXCEPT ![t] = "delete"]
          /\ UNCHANGED <<got, mpTvClient, mInstance, event>>
      BY <1>10, <2>2, UseEffect
    <3>2. tvclient_mutex' = tvclient_mutex
      BY <1>10 DEF ReleaseInstance
    <3> QED BY <3>1, <3>2 DEF TypeInv, ControlInv, Holding
  <2> QED BY <2>1, <2>2
<1>11. ASSUME NEW t \in Threads, DestructorLock(t) PROVE ControlInv'
  <2>1. CASE Quiet
    BY <2>1 DEF Quiet, ControlInv, Holding
  <2>2. CASE ~Quiet
    <3>1. /\ pc[t] = "delete" /\ pc' = [pc EXCEPT ![t] = "clear"]
          /\ tvclient_mutex = "free" /\ tvclient_mutex' = t
          /\ UNCHANGED <<got, mpTvClient, mInstance, event>>
      BY <1>11, <2>2 DEF DestructorLock, Quiet
    <3> QED BY <3>1 DEF TypeInv, ControlInv, Holding
  <2> QED BY <2>1, <2>2
<1>12. ASSUME NEW t \in Threads, Unregister(t) PROVE ControlInv'
  BY <1>12 DEF Unregister, TypeInv, ControlInv, Holding
<1>13. ASSUME NEW t \in Threads, DestructorUnlock(t) PROVE ControlInv'
  BY <1>13 DEF DestructorUnlock, TypeInv, ControlInv, Holding
<1>14. CASE setTvEventCallback
  BY <1>14 DEF setTvEventCallback, ControlInv, Holding
<1>15. event \in EventType /\ registered \subseteq Threads
  BY DEF TypeInv
<1>16. CASE SendEvent
  <2>1. event.step = "idle" /\ event'.step = "next"
    BY <1>16 DEF SendEvent, NoEvent
  <2> QED BY <1>16, <2>1 DEF SendEvent, ControlInv, Holding
<1>17. CASE NextClient
  <2>1. event'.step \in {"idle", "lock"}
    BY <1>15, <1>17, NextClientEffect DEF EventRecord
  <2>2. event.step = "next" /\ UNCHANGED <<appVars, objectVars, tvclient_mutex>>
    BY <1>17 DEF NextClient
  <2> QED BY <2>1, <2>2 DEF ControlInv, Holding
<1>18. CASE onTransact
  <2>1. CASE Quiet
    BY <2>1 DEF Quiet, ControlInv, Holding
  <2>2. CASE ~Quiet
    <3>1. /\ event.step = "lock" /\ event'.step = "handle"
          /\ tvclient_mutex = "free" /\ tvclient_mutex' = "binder"
          /\ UNCHANGED <<pc, got, mpTvClient, mInstance>>
      BY <1>15, <1>18, <2>2 DEF onTransact, Quiet, EventType
    <3> QED BY <3>1 DEF ControlInv, Holding
  <2> QED BY <2>1, <2>2
<1>19. CASE SendTvClientEvent
  <2>1. CASE Quiet
    BY <2>1 DEF Quiet, ControlInv, Holding
  <2>2. CASE ~Quiet
    <3>1. event'.step \in {"unlock", "call"}
      BY <1>15, <1>19, <2>2, SendTvClientEventEffect DEF EventRecord
    <3>3. event.step = "handle"
      BY <1>19 DEF SendTvClientEvent
    <3>2. UNCHANGED <<appVars, objectVars, tvclient_mutex, fault, historyVars>>
      BY <1>15, <1>19, <2>2, SendTvClientEventEffect
    <3> QED BY <3>1, <3>2, <3>3 DEF ControlInv, Holding
  <2> QED BY <2>1, <2>2
<1>20. CASE onTvClientEvent
  <2>1. CASE Quiet
    BY <2>1 DEF Quiet, ControlInv, Holding
  <2>2. CASE ~Quiet
    <3>1. event.step = "call" /\ event'.step \in {"unlock", "call"}
      BY <1>15, <1>20, <2>2, onTvClientEventEffect DEF onTvClientEvent, EventRecord
    <3>2. UNCHANGED <<appVars, objectVars, tvclient_mutex, fault, overlapped>>
      BY <1>15, <1>20, <2>2, onTvClientEventEffect
    <3> QED BY <3>1, <3>2 DEF ControlInv, Holding
  <2> QED BY <2>1, <2>2
<1>21. CASE TransactUnlock
  <2>1. event.step = "unlock" /\ event'.step = "next"
    BY <1>15, <1>21 DEF TransactUnlock, EventType
  <2> QED BY <1>21, <2>1 DEF TransactUnlock, ControlInv, Holding
<1>22. CASE UNCHANGED vars
  BY <1>22 DEF vars, ControlInv, Holding
<1> QED
  BY <1>1, <1>2, <1>3, <1>4, <1>5, <1>6, <1>7, <1>8, <1>9, <1>10, <1>11, <1>12, <1>13, <1>14,
     <1>16, <1>17, <1>18, <1>19, <1>20, <1>21, <1>22 DEF Next, AppStep, BinderStep

\* The inductive part that TypeOK follows from.
LEMMA BaseInvariant == Spec => [](TypeInv /\ ControlInv)
<1>1. Init => TypeInv /\ ControlInv
  BY TypeInit, ControlInit
<1>2. TypeInv /\ ControlInv /\ [Next]_vars => (TypeInv /\ ControlInv)'
  BY TypeStep, ControlStep
<1> QED BY <1>1, <1>2, PTL DEF Spec

\* Every variable has its type; who is past TvClient::GetInstance has a
\* TvClient, and the mutex is held where the code holds it.
THEOREM TypeCorrect == Spec => []TypeOK
<1>1. TypeInv /\ ControlInv => TypeOK
  <2> SUFFICES ASSUME TypeInv, ControlInv PROVE TypeOK
    OBVIOUS
  <2>1. \A t \in Threads : \A i \in 1 .. Len(observers[t]) : observers[t][i] \in Wrapper
    BY ElementOfSeq DEF TypeInv
  <2> QED BY <2>1 DEF TypeInv, ControlInv, TypeOK, EventType, Holding
<1> QED BY <1>1, BaseInvariant, PTL

-----------------------------------------------------------------------------

\* What the TvClients are, against what the threads do: a TvClient that a
\* wrapper has or mInstance is, or that was freed, is not constructed again;
\* one that is registered is mInstance or about to be.
ObjectInv ==
    /\ \A t \in Threads : mpTvClient[t] # "NULL" => mInstance # "NULL"
    /\ \A o \in Threads : mInstance = o => ~Constructing(o)
    /\ \A t, o \in Threads : mpTvClient[t] = o => ~Constructing(o)
    /\ \A t \in Threads : object[t] = "freed" => mInstance # "NULL" /\ ~Constructing(t)
    /\ freed # {} => \E t \in Threads : object[t] = "freed"
    /\ \A t \in registered : mInstance # "NULL" \/ pc[t] \in {"unlock", "assign"}
    /\ event.step \in {"lock", "handle"} =>
          event.client \in Threads /\ (mInstance # "NULL" \/ pc[event.client] \in {"unlock", "assign"})

\* Initially there is no TvClient.
LEMMA ObjectInit == Init => ObjectInv
BY ThreadsAssumption DEF Init, NoEvent, ObjectInv, Constructing

\* Every step keeps what is known of the TvClients.
LEMMA ObjectStep == TypeInv /\ ControlInv /\ ObjectInv /\ [Next]_vars => ObjectInv'
<1> SUFFICES ASSUME TypeInv, ControlInv, ObjectInv, [Next]_vars PROVE ObjectInv'
  OBVIOUS
<1> USE ThreadsAssumption DEF appVars, objectVars, historyVars, At, Goto, Fault, Constructing
<1>1. ASSUME NEW t \in Threads, TestInstance(t) PROVE ObjectInv'
  BY <1>1 DEF TestInstance, TypeInv, ObjectInv
<1>2. ASSUME NEW t \in Threads, ConstructorLock(t) PROVE ObjectInv'
  BY <1>2 DEF ConstructorLock, TypeInv, ObjectInv
<1>3. ASSUME NEW t \in Threads, Register(t) PROVE ObjectInv'
  BY <1>3 DEF Register, TypeInv, ObjectInv
<1>4. ASSUME NEW t \in Threads, ConstructorUnlock(t) PROVE ObjectInv'
  BY <1>4 DEF ConstructorUnlock, TypeInv, ObjectInv
<1>5. ASSUME NEW t \in Threads, AssignInstance(t) PROVE ObjectInv'
  BY <1>5 DEF AssignInstance, TypeInv, ObjectInv
<1>6. ASSUME NEW t \in Threads, ReturnInstance(t) PROVE ObjectInv'
  BY <1>6 DEF ReturnInstance, TypeInv, ControlInv, ObjectInv
<1>7. ASSUME NEW t \in Threads, setTvClientObserver(t) PROVE ObjectInv'
  <2>1. CASE Quiet
    BY <2>1 DEF Quiet, ObjectInv
  <2>2. CASE ~Quiet
    <3>1. /\ pc[t] = "observe" /\ pc' = [pc EXCEPT ![t] = "store"]
          /\ UNCHANGED <<mpTvClient, mInstance, object, freed, registered, event>>
      BY <1>7, <2>2, UseEffect
    <3> QED BY <3>1 DEF TypeInv, ObjectInv
  <2> QED BY <2>1, <2>2
<1>8. ASSUME NEW t \in Threads, StoreObserver(t) PROVE ObjectInv'
  <2>1. CASE Quiet
    BY <2>1 DEF Quiet, ObjectInv
  <2>2. CASE ~Quiet
    <3>1. /\ pc[t] = "store" /\ pc' = [pc EXCEPT ![t] = "callback"]
          /\ UNCHANGED <<mpTvClient, mInstance, object, freed, registered, event>>
      BY <1>8, <2>2, UseEffect
    <3> QED BY <3>1 DEF TypeInv, ObjectInv
  <2> QED BY <2>1, <2>2
<1>9. ASSUME NEW t \in Threads, RegisterCallback(t) PROVE ObjectInv'
  BY <1>9 DEF RegisterCallback, TypeInv, ObjectInv
<1>10. ASSUME NEW t \in Threads, ReleaseInstance(t) PROVE ObjectInv'
  <2>1. CASE Quiet
    BY <2>1 DEF Quiet, ObjectInv
  <2>2. CASE ~Quiet
    <3>1. /\ pc[t] = "ready" /\ pc' = [pc EXCEPT ![t] = "delete"]
          /\ UNCHANGED <<mpTvClient, mInstance, object, freed, registered, event>>
      BY <1>10, <2>2, UseEffect
    <3> QED BY <3>1 DEF TypeInv, ObjectInv
  <2> QED BY <2>1, <2>2
<1>11. ASSUME NEW t \in Threads, DestructorLock(t) PROVE ObjectInv'
  <2>1. CASE Quiet
    BY <2>1 DEF Quiet, ObjectInv
  <2>2. CASE ~Quiet
    <3>1. /\ pc[t] = "delete" /\ pc' = [pc EXCEPT ![t] = "clear"]
          /\ UNCHANGED <<mpTvClient, mInstance, object, freed, registered, event>>
      BY <1>11, <2>2, UseEffect
    <3> QED BY <3>1 DEF TypeInv, ObjectInv
  <2> QED BY <2>1, <2>2
<1>12. ASSUME NEW t \in Threads, Unregister(t) PROVE ObjectInv'
  BY <1>12 DEF Unregister, TypeInv, ObjectInv
<1>13. ASSUME NEW t \in Threads, DestructorUnlock(t) PROVE ObjectInv'
  <2>1. mpTvClient[t] \in Threads /\ mInstance # "NULL" /\ ~Constructing(mpTvClient[t])
    BY <1>13 DEF DestructorUnlock, TypeInv, ControlInv, Holding, ObjectInv
  <2>2. object' = [object EXCEPT ![mpTvClient[t]] = "freed"] /\ object'[mpTvClient[t]] = "freed"
    BY <1>13, <2>1 DEF DestructorUnlock, TypeInv
  <2>3. /\ pc' = [pc EXCEPT ![t] = "out"]
        /\ mpTvClient' = [mpTvClient EXCEPT ![t] = "NULL"]
        /\ UNCHANGED <<mInstance, registered, event>>
    BY <1>13 DEF DestructorUnlock
  <2> QED BY <2>1, <2>2, <2>3 DEF TypeInv, ObjectInv
<1>14. CASE setTvEventCallback
  BY <1>14 DEF setTvEventCallback, ObjectInv
<1>15. event \in EventType /\ registered \subseteq Threads
  BY DEF TypeInv
<1>16. CASE SendEvent
  <2>1. event'.step = "next"
    BY <1>16 DEF SendEvent, NoEvent
  <2> QED BY <1>16, <2>1 DEF SendEvent, ObjectInv
<1>17. CASE NextClient
  <2>1. UNCHANGED <<appVars, objectVars>>
    BY <1>17 DEF NextClient
  <2>2. event'.step = "idle" \/ (event'.step = "lock" /\ event'.client \in registered)
    BY <1>15, <1>17, NextClientEffect DEF EventRecord
  <2> QED BY <1>15, <2>1, <2>2 DEF ObjectInv
<1>18. CASE onTransact
  <2>1. CASE Quiet
    BY <2>1 DEF Quiet, ObjectInv
  <2>2. CASE ~Quiet
    <3>1. /\ event.step = "lock" /\ event'.step = "handle" /\ event'.client = event.client
          /\ UNCHANGED <<appVars, objectVars>>
      BY <1>15, <1>18, <2>2 DEF onTransact, Quiet, EventType
    <3> QED BY <3>1 DEF ObjectInv
  <2> QED BY <2>1, <2>2
<1>19. CASE SendTvClientEvent
  <2>1. CASE Quiet
    BY <2>1 DEF Quiet, ObjectInv
  <2>2. CASE ~Quiet
    <3>1. event'.step \in {"unlock", "call"}
      BY <1>15, <1>19, <2>2, SendTvClientEventEffect DEF EventRecord
    <3>2. UNCHANGED <<appVars, objectVars>>
      BY <1>15, <1>19, <2>2, SendTvClientEventEffect
    <3> QED BY <3>1, <3>2 DEF ObjectInv
  <2> QED BY <2>1, <2>2
<1>20. CASE onTvClientEvent
  <2>1. CASE Quiet
    BY <2>1 DEF Quiet, ObjectInv
  <2>2. CASE ~Quiet
    <3>1. event'.step \in {"unlock", "call"}
      BY <1>15, <1>20, <2>2, onTvClientEventEffect DEF EventRecord
    <3>2. UNCHANGED <<appVars, objectVars>>
      BY <1>15, <1>20, <2>2, onTvClientEventEffect
    <3> QED BY <3>1, <3>2 DEF ObjectInv
  <2> QED BY <2>1, <2>2
<1>21. CASE TransactUnlock
  <2>1. event'.step = "next"
    BY <1>15, <1>21 DEF TransactUnlock, EventType
  <2> QED BY <1>21, <2>1 DEF TransactUnlock, ObjectInv
<1>22. CASE UNCHANGED vars
  BY <1>22 DEF vars, ObjectInv
<1> QED
  BY <1>1, <1>2, <1>3, <1>4, <1>5, <1>6, <1>7, <1>8, <1>9, <1>10, <1>11, <1>12, <1>13, <1>14,
     <1>16, <1>17, <1>18, <1>19, <1>20, <1>21, <1>22 DEF Next, AppStep, BinderStep

\* A wrapper in a map has its function, or its thread is about to set it; the
\* observer being called is in the map.
ObserverInv ==
    /\ event.step = "call" => /\ event.client \in Threads
                              /\ event.index \in 1 .. event.size
                              /\ event.size <= Len(observers[event.client])
    /\ \A o \in Threads : \A i \in 1 .. Len(observers[o]) :
          \/ observers[o][i] \in hooked
          \/ \E t \in Threads : pc[t] = "callback" /\ observers[o][i] = Mine(t)

\* Initially there is no observer.
LEMMA ObserverInit == Init => ObserverInv
<1> SUFFICES ASSUME Init PROVE ObserverInv
  OBVIOUS
<1>1. \A o \in Threads : Len(observers[o]) = 0
  BY DEF Init
<1> QED BY <1>1 DEF Init, NoEvent, ObserverInv

\* Every step keeps what is known of the observers.
LEMMA ObserverStep == TypeInv /\ ControlInv /\ ObserverInv /\ [Next]_vars => ObserverInv'
<1> SUFFICES ASSUME TypeInv, ControlInv, ObserverInv, [Next]_vars PROVE ObserverInv'
  OBVIOUS
<1> USE DEF appVars, objectVars, historyVars, At, Goto, Fault, Mine
<1>1. ASSUME NEW t \in Threads, TestInstance(t) PROVE ObserverInv'
  BY <1>1 DEF TestInstance, TypeInv, ObserverInv
<1>2. ASSUME NEW t \in Threads, ConstructorLock(t) PROVE ObserverInv'
  BY <1>2 DEF ConstructorLock, TypeInv, ObserverInv
<1>3. ASSUME NEW t \in Threads, Register(t) PROVE ObserverInv'
  BY <1>3 DEF Register, TypeInv, ObserverInv
<1>4. ASSUME NEW t \in Threads, ConstructorUnlock(t) PROVE ObserverInv'
  BY <1>4 DEF ConstructorUnlock, TypeInv, ObserverInv
<1>5. ASSUME NEW t \in Threads, AssignInstance(t) PROVE ObserverInv'
  BY <1>5 DEF AssignInstance, TypeInv, ObserverInv
<1>6. ASSUME NEW t \in Threads, ReturnInstance(t) PROVE ObserverInv'
  BY <1>6 DEF ReturnInstance, TypeInv, ObserverInv
<1>7. ASSUME NEW t \in Threads, setTvClientObserver(t) PROVE ObserverInv'
  <2>1. CASE Quiet
    BY <2>1 DEF Quiet, ObserverInv
  <2>2. CASE ~Quiet
    <3>1. /\ pc[t] = "observe" /\ pc' = [pc EXCEPT ![t] = "store"]
          /\ UNCHANGED <<got, observers, hooked, event>>
      BY <1>7, <2>2, UseEffect
    <3> QED BY <3>1 DEF TypeInv, ObserverInv
  <2> QED BY <2>1, <2>2
<1>8. ASSUME NEW t \in Threads, StoreObserver(t) PROVE ObserverInv'
  <2>1. CASE Quiet
    BY <2>1 DEF Quiet, ObserverInv
  <2>2. CASE ~Quiet
    <3> DEFINE o == mpTvClient[t]
    <3>1. /\ pc[t] = "store" /\ pc' = [pc EXCEPT ![t] = "callback"]
          /\ observers' = [observers EXCEPT ![o] = Store(observers[o], clientSize[t], Mine(t))]
          /\ UNCHANGED <<got, hooked, event>>
      BY <1>8, <2>2, UseEffect
    <3>2. o \in Threads /\ observers[o] \in Seq(Wrapper) /\ clientSize[t] \in Nat
      BY <3>1 DEF TypeInv, ControlInv, Holding
    <3>3. Mine(t) \in Wrapper
      BY <3>1, MaxAssumption DEF TypeInv, ControlInv, Wrapper
    <3>4. observers'[o] = Store(observers[o], clientSize[t], Mine(t))
      BY <3>1, <3>2 DEF TypeInv
    <3>5. \A d \in Threads : d # o => observers'[d] = observers[d]
      BY <3>1, <3>2 DEF TypeInv
    <3> HIDE DEF Mine, o
    <3>6. /\ Len(observers'[o]) \in Nat
          /\ Len(observers'[o]) >= Len(observers[o])
          /\ \A i \in 1 .. Len(observers'[o]) :
                observers'[o][i] = Mine(t) \/ (i <= Len(observers[o]) /\ observers'[o][i] = observers[o][i])
      <4> DEFINE new == Store(observers[o], clientSize[t], Mine(t))
      <4>1. /\ Len(new) \in Nat
            /\ Len(new) >= Len(observers[o])
            /\ \A i \in 1 .. Len(new) :
                  new[i] = Mine(t) \/ (i <= Len(observers[o]) /\ new[i] = observers[o][i])
        <5>1. \A s \in Seq(Wrapper), m \in Nat, w \in Wrapper :
                 /\ Len(Store(s, m, w)) \in Nat
                 /\ Len(Store(s, m, w)) >= Len(s)
                 /\ \A i \in 1 .. Len(Store(s, m, w)) :
                       Store(s, m, w)[i] = w \/ (i <= Len(s) /\ Store(s, m, w)[i] = s[i])
          BY StoreEffect
        <5> QED BY <3>2, <3>3, <5>1, Zenon
      <4> HIDE DEF new
      <4>2. observers'[o] = new
        BY <3>4 DEF new
      <4> QED BY <4>1, <4>2
    <3>7. Mine(t)' = Mine(t) /\ pc'[t] = "callback"
      BY <3>1 DEF Mine, TypeInv
    <3>8. ASSUME NEW x \in Threads, pc[x] = "callback" PROVE pc'[x] = "callback" /\ Mine(x)' = Mine(x)
      BY <3>1, <3>8 DEF Mine, TypeInv
    <3>9. Len(observers[o]) \in Nat
      BY <3>2, LenProperties
    <3>10. ASSUME event.step = "call" PROVE event.size <= Len(observers'[event.client])
      <4>1. event.client \in Threads /\ event.size <= Len(observers[event.client]) /\ event.size \in Nat
        BY <3>10 DEF ObserverInv, TypeInv, EventType
      <4>2. CASE event.client = o
        BY <3>6, <3>9, <4>1, <4>2
      <4>3. CASE event.client # o
        BY <3>5, <4>1, <4>3
      <4> QED BY <4>2, <4>3
    <3>11. ASSUME NEW d \in Threads, NEW i \in 1 .. Len(observers'[d])
           PROVE  \/ observers'[d][i] \in hooked
                  \/ \E x \in Threads : pc'[x] = "callback" /\ observers'[d][i] = Mine(x)'
      <4>1. CASE d = o /\ observers'[d][i] = Mine(t)
        BY <3>7, <4>1
      <4>2. CASE ~(d = o /\ observers'[d][i] = Mine(t))
        <5>1. i \in 1 .. Len(observers[d]) /\ observers'[d][i] = observers[d][i]
          BY <3>5, <3>6, <3>9, <3>11, <4>2
        <5>2. \/ observers[d][i] \in hooked
              \/ \E x \in Threads : pc[x] = "callback" /\ observers[d][i] = Mine(x)
          BY <5>1 DEF ObserverInv
        <5> QED BY <3>8, <5>1, <5>2
      <4> QED BY <4>1, <4>2
    <3> QED BY <3>1, <3>10, <3>11 DEF ObserverInv
  <2> QED BY <2>1, <2>2
<1>9. ASSUME NEW t \in Threads, RegisterCallback(t) PROVE ObserverInv'
  <2>1. /\ hooked' = hooked \cup {Mine(t)} /\ pc' = [pc EXCEPT ![t] = "ready"]
        /\ UNCHANGED <<got, observers, event>>
    BY <1>9 DEF RegisterCallback
  <2>2. ASSUME NEW x \in Threads, pc[x] = "callback", x # t
        PROVE  pc'[x] = "callback" /\ Mine(x)' = Mine(x)
    BY <2>1, <2>2 DEF TypeInv
  <2> HIDE DEF Mine
  <2> QED BY <2>1, <2>2 DEF ObserverInv
<1>10. ASSUME NEW t \in Threads, ReleaseInstance(t) PROVE ObserverInv'
  <2>1. CASE Quiet
    BY <2>1 DEF Quiet, ObserverInv
  <2>2. CASE ~Quiet
    <3>1. /\ pc[t] = "ready" /\ pc' = [pc EXCEPT ![t] = "delete"]
          /\ UNCHANGED <<got, observers, hooked, event>>
      BY <1>10, <2>2, UseEffect
    <3> QED BY <3>1 DEF TypeInv, ObserverInv
  <2> QED BY <2>1, <2>2
<1>11. ASSUME NEW t \in Threads, DestructorLock(t) PROVE ObserverInv'
  <2>1. CASE Quiet
    BY <2>1 DEF Quiet, ObserverInv
  <2>2. CASE ~Quiet
    <3>1. /\ pc[t] = "delete" /\ pc' = [pc EXCEPT ![t] = "clear"]
          /\ UNCHANGED <<got, observers, hooked, event>>
      BY <1>11, <2>2, UseEffect
    <3> QED BY <3>1 DEF TypeInv, ObserverInv
  <2> QED BY <2>1, <2>2
<1>12. ASSUME NEW t \in Threads, Unregister(t) PROVE ObserverInv'
  BY <1>12 DEF Unregister, TypeInv, ObserverInv
<1>13. ASSUME NEW t \in Threads, DestructorUnlock(t) PROVE ObserverInv'
  BY <1>13 DEF DestructorUnlock, TypeInv, ObserverInv
<1>14. CASE setTvEventCallback
  BY <1>14 DEF setTvEventCallback, ObserverInv
<1>15. event \in EventType /\ registered \subseteq Threads
  BY DEF TypeInv
<1>16. CASE SendEvent
  <2>1. event'.step = "next"
    BY <1>16 DEF SendEvent, NoEvent
  <2> QED BY <1>16, <2>1 DEF SendEvent, ObserverInv
<1>17. CASE NextClient
  <2>1. event'.step \in {"idle", "lock"}
    BY <1>15, <1>17, NextClientEffect DEF EventRecord
  <2>2. UNCHANGED <<appVars, objectVars>>
    BY <1>17 DEF NextClient
  <2> QED BY <2>1, <2>2 DEF ObserverInv
<1>18. CASE onTransact
  <2>1. CASE Quiet
    BY <2>1 DEF Quiet, ObserverInv
  <2>2. CASE ~Quiet
    <3>1. event'.step = "handle" /\ UNCHANGED <<appVars, objectVars>>
      BY <1>15, <1>18, <2>2 DEF onTransact, Quiet, EventType
    <3> QED BY <3>1 DEF ObserverInv
  <2> QED BY <2>1, <2>2
<1>19. CASE SendTvClientEvent
  <2>1. CASE Quiet
    BY <2>1 DEF Quiet, ObserverInv
  <2>2. CASE ~Quiet
    <3>1. /\ mInstance \in Threads
          /\ UNCHANGED <<appVars, objectVars>>
          /\ event' = EventRecord(IF observers[mInstance] = <<>> THEN "unlock" ELSE "call",
                                  mInstance, event.todo, 1, Len(observers[mInstance]), event.due)
      BY <1>15, <1>19, <2>2, SendTvClientEventEffect DEF TypeInv
    <3>2. Len(observers[mInstance]) \in Nat /\ (Len(observers[mInstance]) = 0 => observers[mInstance] = <<>>)
      BY <3>1, LenProperties, EmptySeq DEF TypeInv
    <3>3. event'.step = "call" => /\ event'.client = mInstance
                                  /\ event'.index = 1
                                  /\ event'.size = Len(observers[mInstance])
                                  /\ event'.size >= 1
      BY <3>1, <3>2 DEF EventRecord
    <3>4. event'.step = "call" => /\ event'.client \in Threads
                                  /\ event'.index \in 1 .. event'.size
                                  /\ event'.size <= Len(observers'[event'.client])
      BY <3>1, <3>2, <3>3
    <3> QED BY <3>1, <3>4 DEF ObserverInv
  <2> QED BY <2>1, <2>2
<1>20. CASE onTvClientEvent
  <2>1. CASE Quiet
    BY <2>1 DEF Quiet, ObserverInv
  <2>2. CASE ~Quiet
    <3>1. /\ UNCHANGED <<appVars, objectVars>>
          /\ event' = EventRecord(IF event.index = event.size THEN "unlock" ELSE "call",
                                  event.client, event.todo, event.index + 1, event.size, event.due)
      BY <1>15, <1>20, <2>2, onTvClientEventEffect
    <3>2. event.step = "call" /\ event.index \in 1 .. event.size /\ event.size \in Nat
      BY <1>15, <1>20 DEF onTvClientEvent, ObserverInv, EventType
    <3>3. event'.step = "call" => /\ event'.client = event.client
                                  /\ event'.index \in 1 .. event'.size
                                  /\ event'.size = event.size
      BY <3>1, <3>2 DEF EventRecord
    <3> QED BY <3>1, <3>2, <3>3 DEF ObserverInv
  <2> QED BY <2>1, <2>2
<1>21. CASE TransactUnlock
  <2>1. event'.step = "next"
    BY <1>15, <1>21 DEF TransactUnlock, EventType
  <2> QED BY <1>21, <2>1 DEF TransactUnlock, ObserverInv
<1>22. CASE UNCHANGED vars
  BY <1>22 DEF vars, ObserverInv
<1> QED
  BY <1>1, <1>2, <1>3, <1>4, <1>5, <1>6, <1>7, <1>8, <1>9, <1>10, <1>11, <1>12, <1>13, <1>14,
     <1>16, <1>17, <1>18, <1>19, <1>20, <1>21, <1>22 DEF Next, AppStep, BinderStep

-----------------------------------------------------------------------------

\* What ends the process ends it where FaultsOnlyInConstruction says.
LEMMA FaultStep ==
    TypeInv /\ ControlInv /\ ObjectInv /\ ObserverInv /\ FaultsOnlyInConstruction /\ [Next]_vars
        => FaultsOnlyInConstruction'
<1> SUFFICES ASSUME TypeInv, ControlInv, ObjectInv, ObserverInv, FaultsOnlyInConstruction, [Next]_vars,
                    fault' # "none", mEventCallback', NothingReleased'
             PROVE  \E t \in Threads : pc'[t] \in {"assign", "callback"}
  BY DEF FaultsOnlyInConstruction
<1>1. CASE UNCHANGED vars
  BY <1>1 DEF vars, appVars, objectVars, FaultsOnlyInConstruction, NothingReleased
<1>2. CASE Next
  <2> USE DEF appVars, objectVars, historyVars, At, Goto, Fault
  <2>1. fault = "none"
    BY <1>2 DEF Next, AppStep, BinderStep, Running, TestInstance, ConstructorLock, Register,
                ConstructorUnlock, AssignInstance, ReturnInstance, setTvClientObserver, StoreObserver,
                RegisterCallback, ReleaseInstance, DestructorLock, Unregister, DestructorUnlock,
                setTvEventCallback, SendEvent, NextClient, onTransact, SendTvClientEvent,
                onTvClientEvent, TransactUnlock
  <2>2. ASSUME NEW t \in Threads PROVE ~AppStep(t)
    <3>1. CASE TestInstance(t) \/ ConstructorLock(t) \/ Register(t) \/ ConstructorUnlock(t)
               \/ AssignInstance(t) \/ ReturnInstance(t) \/ RegisterCallback(t) \/ Unregister(t)
               \/ DestructorUnlock(t)
      BY <2>1, <3>1 DEF TestInstance, ConstructorLock, Register, ConstructorUnlock, AssignInstance,
                        ReturnInstance, RegisterCallback, Unregister, DestructorUnlock
    <3>2. CASE setTvClientObserver(t) \/ StoreObserver(t) \/ ReleaseInstance(t) \/ DestructorLock(t)
      <4>1. mpTvClient[t] \in Threads
        BY <3>2 DEF setTvClientObserver, StoreObserver, ReleaseInstance, DestructorLock, TypeInv,
                    ControlInv, Holding
      <4>2. object[mpTvClient[t]] = "freed" /\ object' = object
        BY <2>1, <3>2 DEF setTvClientObserver, StoreObserver, ReleaseInstance, DestructorLock
      <4> QED BY <4>1, <4>2 DEF NothingReleased
    <3> QED BY <3>1, <3>2 DEF AppStep
  <2>3. CASE setTvEventCallback
    BY <2>1, <2>3 DEF setTvEventCallback
  <2>4. CASE SendEvent \/ NextClient \/ TransactUnlock
    BY <2>1, <2>4 DEF SendEvent, NextClient, TransactUnlock
  <2>5. CASE onTransact
    <3>1. event.step = "lock" /\ object[event.client] = "freed" /\ object' = object
      BY <2>1, <2>5 DEF onTransact
    <3>2. event.client \in Threads
      BY <3>1 DEF ObjectInv
    <3> QED BY <3>1, <3>2 DEF NothingReleased
  <2>6. CASE SendTvClientEvent
    <3>1. /\ event.step = "handle" /\ (mInstance = "NULL" \/ object[mInstance] = "freed")
          /\ object' = object /\ pc' = pc
      BY <2>1, <2>6 DEF SendTvClientEvent
    <3>2. mInstance = "NULL"
      BY <3>1 DEF NothingReleased, TypeInv
    <3>3. event.client \in Threads /\ pc[event.client] \in {"unlock", "assign"}
      BY <3>1, <3>2 DEF ObjectInv
    <3>4. pc[event.client] # "unlock"
      BY <3>1, <3>3, ThreadsAssumption DEF ControlInv
    <3> QED BY <3>1, <3>3, <3>4
  <2>7. CASE onTvClientEvent
    <3> DEFINE w == observers[event.client][event.index]
    <3>1. UNCHANGED <<pc, object, freed, hooked, mEventCallback, observers, got>>
      BY <2>7 DEF onTvClientEvent
    <3>2. event.step = "call"
      BY <2>7 DEF onTvClientEvent
    <3>3. /\ event.client \in Threads /\ event.index \in 1 .. Len(observers[event.client])
      <4>1. /\ event.client \in Threads /\ event.index \in 1 .. event.size
            /\ event.size <= Len(observers[event.client])
        BY <3>2 DEF ObserverInv
      <4>2. Len(observers[event.client]) \in Nat /\ event.size \in Nat
        BY <4>1, LenProperties DEF TypeInv, EventType
      <4> QED BY <4>1, <4>2
    <3>4. freed = {}
      BY <3>1 DEF ObjectInv, NothingReleased
    <3>5. w \in hooked \/ \E t \in Threads : pc[t] = "callback" /\ w = Mine(t)
      BY <3>3 DEF ObserverInv
    <3> HIDE DEF w
    <3>6. w \notin hooked
      <4>1. ASSUME w \in hooked PROVE fault' = fault
        BY <2>7, <3>1, <3>4, <4>1 DEF onTvClientEvent, w
      <4> QED BY <2>1, <4>1
    <3> QED BY <3>1, <3>5, <3>6
  <2> QED BY <1>2, <2>2, <2>3, <2>4, <2>5, <2>6, <2>7 DEF Next, BinderStep
<1> QED BY <1>1, <1>2

\* The inductive invariant of the TvClients.
LEMMA ObjectInvariant ==
    Spec => [](TypeInv /\ ControlInv /\ ObjectInv /\ ObserverInv /\ FaultsOnlyInConstruction)
<1> DEFINE I == TypeInv /\ ControlInv /\ ObjectInv /\ ObserverInv /\ FaultsOnlyInConstruction
<1>1. Init => I
  BY TypeInit, ControlInit, ObjectInit, ObserverInit DEF Init, FaultsOnlyInConstruction
<1>2. I /\ [Next]_vars => I'
  BY TypeStep, ControlStep, ObjectStep, ObserverStep, FaultStep
<1> QED BY <1>1, <1>2, PTL DEF Spec

\* While nothing has been released and the application's callback is set, an
\* event ends the process only between the constructor's unlock and the
\* assignment of mInstance or, once the wrapper observes, before it has its
\* function (TvClientWrapper.cpp:25-28, 193-200; TvClient.cpp:33-59).
THEOREM FaultsOnlyInConstructionAlways == Spec => []FaultsOnlyInConstruction
BY ObjectInvariant, PTL

-----------------------------------------------------------------------------

\* No two threads were in GetInstance together, and nothing has been released.
Untouched == ~overlapped /\ NothingReleased

\* What was once touched stays so.
LEMMA UntouchedBefore ==
    TypeInv /\ ControlInv /\ ObjectInv /\ [Next]_vars /\ Untouched' => Untouched
<1> SUFFICES ASSUME TypeInv, ControlInv, ObjectInv, [Next]_vars, Untouched' PROVE Untouched
  OBVIOUS
<1> USE DEF appVars, objectVars, historyVars, At, Goto, Fault
<1>1. ~overlapped
  BY DEF Untouched, Next, AppStep, BinderStep, TestInstance, ConstructorLock, Register,
         ConstructorUnlock, AssignInstance, ReturnInstance, setTvClientObserver, StoreObserver,
         RegisterCallback, ReleaseInstance, DestructorLock, Unregister, DestructorUnlock,
         setTvEventCallback, SendEvent, NextClient, onTransact, SendTvClientEvent,
         onTvClientEvent, TransactUnlock, vars
<1>2. ASSUME NEW x \in Threads, object[x] = "freed" PROVE FALSE
  <2>1. ~Constructing(x)
    BY <1>2 DEF ObjectInv
  <2>2. ASSUME NEW t \in Threads, Register(t) PROVE object'[x] = "freed"
    BY <1>2, <2>1, <2>2 DEF Register, TypeInv, Constructing
  <2>3. ASSUME NEW t \in Threads, DestructorUnlock(t) PROVE object'[x] = "freed"
    BY <1>2, <2>3 DEF DestructorUnlock, TypeInv
  <2>4. CASE object' = object
    BY <1>2, <2>4 DEF Untouched, NothingReleased
  <2>5. CASE ~(object' = object)
    <3>1. \E t \in Threads : Register(t) \/ DestructorUnlock(t)
      BY <2>5 DEF Next, AppStep, BinderStep, TestInstance, ConstructorLock,
         ConstructorUnlock, AssignInstance, ReturnInstance, setTvClientObserver, StoreObserver,
         RegisterCallback, ReleaseInstance, DestructorLock, Unregister,
         setTvEventCallback, SendEvent, NextClient, onTransact, SendTvClientEvent,
         onTvClientEvent, TransactUnlock, vars
    <3> QED BY <2>2, <2>3, <3>1 DEF Untouched, NothingReleased
  <2> QED BY <2>4, <2>5
<1>3. ASSUME NEW x \in Threads, pc[x] \in {"clear", "unlockDelete"} PROVE FALSE
  <2>1. mpTvClient[x] \in Threads
    BY <1>3 DEF TypeInv, ControlInv, Holding
  <2>2. CASE Unregister(x)
    BY <2>2 DEF Unregister, Untouched, NothingReleased, TypeInv
  <2>3. CASE DestructorUnlock(x)
    <3>1. object'[mpTvClient[x]] = "freed"
      BY <2>1, <2>3 DEF DestructorUnlock, TypeInv
    <3> QED BY <2>1, <3>1 DEF Untouched, NothingReleased
  <2>4. CASE ~Unregister(x) /\ ~DestructorUnlock(x)
    <3>1. ASSUME NEW t \in Threads, AppStep(t) PROVE t # x
      BY <1>3, <2>4, <3>1 DEF AppStep, TestInstance, ConstructorLock, Register,
         ConstructorUnlock, AssignInstance, ReturnInstance, setTvClientObserver, StoreObserver,
         RegisterCallback, ReleaseInstance, DestructorLock
    <3>2. ASSUME NEW t \in Threads, AppStep(t) PROVE pc' = pc \/ \E l : pc' = [pc EXCEPT ![t] = l]
      BY <3>2 DEF AppStep, TestInstance, ConstructorLock, Register,
         ConstructorUnlock, AssignInstance, ReturnInstance, setTvClientObserver, StoreObserver,
         RegisterCallback, ReleaseInstance, DestructorLock, Unregister, DestructorUnlock
    <3>3. CASE setTvEventCallback \/ BinderStep \/ UNCHANGED vars
      <4>1. pc' = pc
        BY <3>3 DEF BinderStep, setTvEventCallback, SendEvent, NextClient, onTransact,
           SendTvClientEvent, onTvClientEvent, TransactUnlock, vars
      <4> QED BY <1>3, <4>1 DEF Untouched, NothingReleased
    <3>4. CASE \E t \in Threads : AppStep(t)
      <4>1. pc'[x] = pc[x]
        BY <3>1, <3>2, <3>4 DEF TypeInv
      <4> QED BY <1>3, <4>1 DEF Untouched, NothingReleased
    <3> QED BY <3>3, <3>4 DEF Next
  <2> QED BY <2>2, <2>3, <2>4
<1> QED BY <1>1, <1>2, <1>3 DEF Untouched, NothingReleased

\* The thread has asked for a wrapper that is in no map yet.
Storing(t) == pc[t] \in {"construct", "register", "unlock", "assign", "return", "observe", "store"}

\* One thread at a time is in GetInstance, and mInstance is the one TvClient.
SingleInv ==
    /\ \A t, d \in Threads : InGetInstance(t) /\ InGetInstance(d) => t = d
    /\ \A t \in Threads : Constructing(t) => mInstance = "NULL"
    /\ \A t \in registered : t = mInstance \/ (mInstance = "NULL" /\ pc[t] \in {"unlock", "assign"})
    /\ \A t \in Threads : Holding(t) => mpTvClient[t] = mInstance

\* Its observers are distinct, and each ready wrapper is one of them.
SizeRead ==
    \A t \in Threads : pc[t] = "store" => clientSize[t] = Len(observers[mpTvClient[t]])

StoredBefore ==
    \A o \in Threads : \A i \in 1 .. Len(observers[o]) : \A t \in Threads, n \in Nat :
        observers[o][i] = <<t, n>> => n <= got[t] /\ (Storing(t) => n < got[t])

NoneTwice ==
    \A o \in Threads : \A i, j \in 1 .. Len(observers[o]) : observers[o][i] = observers[o][j] => i = j

ReadyStored ==
    \A t \in Threads : pc[t] \in {"callback", "ready"} =>
        \E i \in 1 .. Len(observers[mpTvClient[t]]) : observers[mpTvClient[t]][i] = Mine(t)

DistinctInv == SizeRead /\ StoredBefore /\ NoneTwice /\ ReadyStored

\* Initially there is none.
LEMMA SingleInit == Init => SingleInv
BY DEF Init, SingleInv, InGetInstance, Constructing, Holding

\* Every step keeps it one.
LEMMA SingleStep ==
    TypeInv /\ ControlInv /\ ObjectInv /\ Untouched /\ Untouched' /\ SingleInv /\ [Next]_vars
        => SingleInv'
<1> SUFFICES ASSUME TypeInv, ControlInv, ObjectInv, Untouched, Untouched', SingleInv, [Next]_vars
             PROVE  SingleInv'
  OBVIOUS
<1> USE ThreadsAssumption DEF InGetInstance, Constructing, Holding, At, Goto
<1>1. ASSUME NEW t \in Threads, TestInstance(t) PROVE SingleInv'
  <2>1. \A d \in Threads : ~InGetInstance(d)
    BY <1>1 DEF TestInstance, Untouched
  <2>2. /\ pc[t] = "out" /\ pc' = [pc EXCEPT ![t] = IF mInstance = "NULL" THEN "construct" ELSE "return"]
        /\ UNCHANGED <<mpTvClient, mInstance, registered>>
    BY <1>1 DEF TestInstance, objectVars
  <2> QED BY <2>1, <2>2 DEF TypeInv, SingleInv
<1>2. ASSUME NEW t \in Threads, ConstructorLock(t) PROVE SingleInv'
  BY <1>2 DEF ConstructorLock, TypeInv, SingleInv, objectVars
<1>3. ASSUME NEW t \in Threads, Register(t) PROVE SingleInv'
  BY <1>3 DEF Register, TypeInv, SingleInv
<1>4. ASSUME NEW t \in Threads, ConstructorUnlock(t) PROVE SingleInv'
  BY <1>4 DEF ConstructorUnlock, TypeInv, SingleInv, objectVars
<1>5. ASSUME NEW t \in Threads, AssignInstance(t) PROVE SingleInv'
  <2>1. /\ pc[t] = "assign" /\ mInstance = "NULL" /\ mInstance' = t /\ pc' = [pc EXCEPT ![t] = "return"]
        /\ UNCHANGED <<mpTvClient, registered>>
    BY <1>5 DEF AssignInstance, SingleInv
  <2>2. \A d \in registered : d = t
    BY <2>1 DEF TypeInv, SingleInv
  <2>3. \A d \in Threads : ~Holding(d)
    BY <2>1 DEF ControlInv
  <2>4. \A d \in Threads : d # t => ~InGetInstance(d)
    BY <2>1 DEF SingleInv
  <2>5. \A d \in Threads : ~Constructing(d)' /\ ~Holding(d)'
    BY <2>1, <2>3, <2>4 DEF TypeInv
  <2>6. \A d \in Threads : InGetInstance(d)' => d = t
    BY <2>1, <2>4 DEF TypeInv
  <2> QED BY <2>1, <2>2, <2>5, <2>6 DEF SingleInv
<1>6. ASSUME NEW t \in Threads, ReturnInstance(t) PROVE SingleInv'
  BY <1>6 DEF ReturnInstance, TypeInv, SingleInv, objectVars
<1>7. ASSUME NEW t \in Threads, setTvClientObserver(t) PROVE SingleInv'
  <2>1. CASE Quiet
    BY <2>1 DEF Quiet, SingleInv
  <2>2. CASE ~Quiet
    <3>1. /\ pc[t] = "observe" /\ pc' = [pc EXCEPT ![t] = "store"]
          /\ UNCHANGED <<mpTvClient, mInstance, registered>>
      BY <1>7, <2>2, UseEffect DEF objectVars
    <3> QED BY <3>1 DEF TypeInv, SingleInv
  <2> QED BY <2>1, <2>2
<1>8. ASSUME NEW t \in Threads, StoreObserver(t) PROVE SingleInv'
  <2>1. CASE Quiet
    BY <2>1 DEF Quiet, SingleInv
  <2>2. CASE ~Quiet
    <3>1. /\ pc[t] = "store" /\ pc' = [pc EXCEPT ![t] = "callback"]
          /\ UNCHANGED <<mpTvClient, mInstance, registered>>
      BY <1>8, <2>2, UseEffect DEF objectVars
    <3> QED BY <3>1 DEF TypeInv, SingleInv
  <2> QED BY <2>1, <2>2
<1>9. ASSUME NEW t \in Threads, RegisterCallback(t) PROVE SingleInv'
  BY <1>9 DEF RegisterCallback, TypeInv, SingleInv
<1>10. ASSUME NEW t \in Threads, ReleaseInstance(t) PROVE SingleInv'
  <2>1. CASE Quiet
    BY <2>1 DEF Quiet, SingleInv
  <2>2. CASE ~Quiet
    <3>1. /\ pc[t] = "ready" /\ pc' = [pc EXCEPT ![t] = "delete"]
          /\ UNCHANGED <<mpTvClient, mInstance, registered>>
      BY <1>10, <2>2, UseEffect DEF objectVars
    <3> QED BY <3>1 DEF TypeInv, SingleInv
  <2> QED BY <2>1, <2>2
<1>11. ASSUME NEW t \in Threads, DestructorLock(t) PROVE SingleInv'
  <2>1. CASE Quiet
    BY <2>1 DEF Quiet, SingleInv
  <2>2. CASE ~Quiet
    <3>1. pc'[t] = "clear"
      BY <1>11, <2>2, UseEffect DEF TypeInv
    <3> QED BY <3>1 DEF Untouched, NothingReleased
  <2> QED BY <2>1, <2>2
<1>12. ASSUME NEW t \in Threads, Unregister(t) \/ DestructorUnlock(t) PROVE SingleInv'
  BY <1>12 DEF Unregister, DestructorUnlock, Untouched, NothingReleased
<1>13. CASE setTvEventCallback \/ BinderStep \/ UNCHANGED vars
  <2>1. UNCHANGED <<pc, mpTvClient, mInstance, registered>>
    BY <1>13 DEF BinderStep, setTvEventCallback, SendEvent, NextClient, onTransact,
       SendTvClientEvent, onTvClientEvent, TransactUnlock, vars, Fault, appVars, objectVars
  <2> QED BY <2>1 DEF SingleInv
<1> QED
  BY <1>1, <1>2, <1>3, <1>4, <1>5, <1>6, <1>7, <1>8, <1>9, <1>10, <1>11, <1>12, <1>13
  DEF Next, AppStep

\* Initially there is no observer.
LEMMA DistinctInit == Init => DistinctInv
<1> SUFFICES ASSUME Init PROVE DistinctInv
  OBVIOUS
<1>1. \A o \in Threads : Len(observers[o]) = 0
  BY DEF Init
<1> QED BY <1>1 DEF Init, DistinctInv, SizeRead, StoredBefore, NoneTwice, ReadyStored

\* With one thread in GetInstance, the size read is the size still, and the new
\* wrapper goes behind the others.
LEMMA StoreAppends ==
    ASSUME NEW t \in Threads, TypeInv, ControlInv, DistinctInv, StoreObserver(t), ~Quiet
    PROVE  LET o == mpTvClient[t]
           IN  /\ o \in Threads
               /\ observers[o] \in Seq(Wrapper)
               /\ Mine(t) \in Wrapper
               /\ observers'[o] = Append(observers[o], Mine(t))
               /\ \A d \in Threads : d # o => observers'[d] = observers[d]
               /\ pc[t] = "store" /\ pc' = [pc EXCEPT ![t] = "callback"]
               /\ UNCHANGED <<got, mpTvClient, mInstance, registered, event, told>>
<1> DEFINE o == mpTvClient[t]
<1>1. /\ pc[t] = "store" /\ pc' = [pc EXCEPT ![t] = "callback"]
      /\ observers' = [observers EXCEPT ![o] = Store(observers[o], clientSize[t], Mine(t))]
      /\ UNCHANGED <<got, mpTvClient, mInstance, registered, event, told>>
  BY UseEffect DEF historyVars
<1>2. o \in Threads /\ observers[o] \in Seq(Wrapper) /\ clientSize[t] \in Nat
  BY <1>1 DEF TypeInv, ControlInv, Holding
<1>3. Mine(t) \in Wrapper
  BY <1>1, MaxAssumption DEF TypeInv, ControlInv, Wrapper, Mine
<1>4. clientSize[t] = Len(observers[o])
  BY <1>1 DEF DistinctInv, SizeRead
<1>5. Store(observers[o], clientSize[t], Mine(t)) = Append(observers[o], Mine(t))
  BY <1>2, <1>4 DEF Store
<1>6. observers'[o] = Append(observers[o], Mine(t)) /\ \A d \in Threads : d # o => observers'[d] = observers[d]
  BY <1>1, <1>2, <1>5 DEF TypeInv
<1> QED BY <1>1, <1>2, <1>3, <1>6

\* A step that leaves them alone keeps the observers distinct.
LEMMA DistinctQuiet == DistinctInv /\ Quiet => DistinctInv'
<1> SUFFICES ASSUME DistinctInv, Quiet PROVE DistinctInv'
  OBVIOUS
<1>1. SizeRead'
  BY DEF DistinctInv, Quiet, SizeRead
<1>2. StoredBefore'
  BY DEF DistinctInv, Quiet, StoredBefore, Storing
<1>3. NoneTwice'
  BY DEF DistinctInv, Quiet, NoneTwice
<1>4. ReadyStored'
  BY DEF DistinctInv, Quiet, ReadyStored, Mine
<1> QED BY <1>1, <1>2, <1>3, <1>4 DEF DistinctInv

\* So does a step of a thread that is not about to store, and gets no wrapper
\* ready.
LEMMA DistinctFrame ==
    ASSUME NEW t \in Threads, DistinctInv, UNCHANGED <<got, observers>>,
           \A x \in Threads : x # t =>
              pc'[x] = pc[x] /\ mpTvClient'[x] = mpTvClient[x] /\ clientSize'[x] = clientSize[x],
           Storing(t)' => Storing(t),
           pc'[t] # "store" \/ clientSize'[t] = Len(observers[mpTvClient'[t]]),
           pc'[t] \in {"callback", "ready"} =>
              pc[t] \in {"callback", "ready"} /\ mpTvClient'[t] = mpTvClient[t]
    PROVE  DistinctInv'
<1>1. SizeRead'
  BY DEF DistinctInv, SizeRead
<1>2. StoredBefore'
  <2>1. \A x \in Threads : Storing(x)' => Storing(x)
    BY DEF Storing
  <2> QED BY <2>1 DEF DistinctInv, StoredBefore
<1>3. NoneTwice'
  BY DEF DistinctInv, NoneTwice
<1>4. ReadyStored'
  <2>1. \A x \in Threads : Mine(x)' = Mine(x)
    BY DEF Mine
  <2>2. \A x \in Threads : pc'[x] \in {"callback", "ready"} =>
           pc[x] \in {"callback", "ready"} /\ mpTvClient'[x] = mpTvClient[x]
    OBVIOUS
  <2> QED BY <2>1, <2>2 DEF DistinctInv, ReadyStored
<1> QED BY <1>1, <1>2, <1>3, <1>4 DEF DistinctInv

\* Every step keeps the observers distinct.
LEMMA DistinctStep ==
    TypeInv /\ ControlInv /\ Untouched /\ Untouched' /\ SingleInv /\ DistinctInv /\ [Next]_vars
        => DistinctInv'
<1> SUFFICES ASSUME TypeInv, ControlInv, Untouched, Untouched', SingleInv, DistinctInv, [Next]_vars
             PROVE  DistinctInv'
  OBVIOUS
<1> USE DEF Storing, Mine, At, Goto
<1>2. ASSUME NEW t \in Threads, TestInstance(t) PROVE DistinctInv'
  <2>1. /\ pc[t] = "out" /\ pc'[t] \in {"construct", "return"}
        /\ \A x \in Threads : x # t => pc'[x] = pc[x]
        /\ got'[t] = got[t] + 1 /\ got[t] \in Nat
        /\ \A x \in Threads : x # t => got'[x] = got[x]
        /\ UNCHANGED <<mpTvClient, clientSize, observers>>
    BY <1>2, MaxAssumption DEF TestInstance, objectVars, TypeInv
  <2>2. StoredBefore'
    <3> SUFFICES ASSUME NEW o \in Threads, NEW i \in 1 .. Len(observers'[o]), NEW x \in Threads,
                        NEW n \in Nat, observers'[o][i] = <<x, n>>
                 PROVE  n <= got'[x] /\ (Storing(x)' => n < got'[x])
      BY DEF StoredBefore
    <3>1. n <= got[x] /\ (Storing(x) => n < got[x])
      BY <2>1 DEF DistinctInv, StoredBefore
    <3> QED BY <2>1, <3>1
  <2>3. ReadyStored'
    <3>1. \A x \in Threads : pc'[x] \in {"callback", "ready"} => pc'[x] = pc[x] /\ Mine(x)' = Mine(x)
      BY <2>1
    <3> HIDE DEF Mine
    <3> QED BY <2>1, <3>1 DEF DistinctInv, ReadyStored
  <2>4. SizeRead' /\ NoneTwice'
    BY <2>1 DEF DistinctInv, SizeRead, NoneTwice
  <2> QED BY <2>2, <2>3, <2>4 DEF DistinctInv
<1>3. ASSUME NEW t \in Threads, ConstructorLock(t) \/ Register(t) \/ ConstructorUnlock(t) \/ AssignInstance(t)
      PROVE DistinctInv'
  <2>1. /\ Storing(t) /\ pc'[t] \in {"register", "unlock", "assign", "return"}
        /\ \A x \in Threads : x # t => pc'[x] = pc[x]
        /\ UNCHANGED <<got, mpTvClient, clientSize, observers>>
    BY <1>3 DEF ConstructorLock, Register, ConstructorUnlock, AssignInstance, TypeInv, objectVars
  <2> HIDE DEF Storing
  <2> QED BY <2>1, DistinctFrame
<1>4. ASSUME NEW t \in Threads, ReturnInstance(t) PROVE DistinctInv'
  <2>1. /\ Storing(t) /\ pc'[t] = "observe"
        /\ \A x \in Threads : x # t => pc'[x] = pc[x] /\ mpTvClient'[x] = mpTvClient[x]
        /\ UNCHANGED <<got, clientSize, observers>>
    BY <1>4 DEF ReturnInstance, TypeInv, objectVars
  <2> HIDE DEF Storing
  <2> QED BY <2>1, DistinctFrame
<1>5. ASSUME NEW t \in Threads, setTvClientObserver(t) PROVE DistinctInv'
  <2>1. CASE Quiet
    BY <2>1, DistinctQuiet
  <2>2. CASE ~Quiet
    <3>1. /\ Storing(t) /\ pc'[t] = "store"
          /\ \A x \in Threads : x # t => pc'[x] = pc[x] /\ clientSize'[x] = clientSize[x]
          /\ clientSize'[t] = Len(observers[mpTvClient[t]])
          /\ UNCHANGED <<got, mpTvClient, observers>>
      <4>1. /\ pc[t] = "observe" /\ pc' = [pc EXCEPT ![t] = "store"]
            /\ clientSize' = [clientSize EXCEPT ![t] = Len(observers[mpTvClient[t]])]
            /\ UNCHANGED <<got, mpTvClient, observers>>
        BY <1>5, <2>2, UseEffect DEF objectVars
      <4> QED BY <4>1 DEF TypeInv
    <3> HIDE DEF Storing
    <3> QED BY <3>1, DistinctFrame
  <2> QED BY <2>1, <2>2
<1>6. ASSUME NEW t \in Threads, StoreObserver(t) PROVE DistinctInv'
  <2>1. CASE Quiet
    BY <2>1, DistinctQuiet
  <2>2. CASE ~Quiet
    <3> DEFINE o == mpTvClient[t]
               old == observers[o]
    <3> HIDE DEF Mine
    <3>1. /\ o \in Threads
          /\ old \in Seq(Wrapper)
          /\ Mine(t) \in Wrapper
          /\ observers'[o] = Append(old, Mine(t))
          /\ \A d \in Threads : d # o => observers'[d] = observers[d]
          /\ pc[t] = "store" /\ pc' = [pc EXCEPT ![t] = "callback"]
          /\ UNCHANGED <<got, mpTvClient>>
      BY <1>6, <2>2, StoreAppends
    <3>2. /\ Len(old) \in Nat
          /\ Len(observers'[o]) = Len(old) + 1
          /\ \A i \in 1 .. Len(old) : observers'[o][i] = old[i]
          /\ observers'[o][Len(old) + 1] = Mine(t)
      <4> HIDE DEF old
      <4> QED BY <3>1, AppendProperties, LenProperties
    <3>3. pc'[t] = "callback" /\ \A x \in Threads : x # t => pc'[x] = pc[x] /\ pc'[x] # "store"
      <4>1. pc'[t] = "callback" /\ \A x \in Threads : x # t => pc'[x] = pc[x]
        BY <3>1 DEF TypeInv
      <4>2. \A x \in Threads : pc[x] = "store" => x = t
        BY <3>1 DEF SingleInv, InGetInstance
      <4> QED BY <4>1, <4>2
    <3>4. \A x \in Threads : Mine(x)' = Mine(x)
      BY <3>1 DEF Mine
    <3>5. ASSUME NEW i \in 1 .. Len(old) PROVE old[i] # Mine(t)
      <4>1. got[t] \in Nat
        BY MaxAssumption DEF TypeInv
      <4>2. CASE old[i] = Mine(t)
        <5>1. old[i] = <<t, got[t]>>
          BY <4>2 DEF Mine
        <5>2. got[t] < got[t]
          BY <3>1, <4>1, <5>1 DEF DistinctInv, StoredBefore
        <5> QED BY <4>1, <5>2
      <4> QED BY <4>2
    <3>6. ASSUME NEW d \in Threads, NEW i \in 1 .. Len(observers'[d]), NEW x \in Threads, NEW n \in Nat,
                 observers'[d][i] = <<x, n>>
          PROVE  n <= got[x] /\ (Storing(x)' => n < got[x])
      <4>1. CASE d = o /\ i = Len(old) + 1
        <5>1. x = t /\ n = got[t]
          BY <3>2, <3>6, <4>1 DEF Mine
        <5> QED BY <3>3, <5>1
      <4>2. CASE ~(d = o /\ i = Len(old) + 1)
        <5>1. i \in 1 .. Len(observers[d]) /\ observers[d][i] = <<x, n>>
          <6>1. CASE d = o
            <7>1. i \in 1 .. Len(old)
              BY <3>2, <3>6, <4>2, <6>1
            <7> QED BY <3>2, <3>6, <6>1, <7>1
          <6>2. CASE d # o
            BY <3>1, <3>6, <6>2
          <6> QED BY <6>1, <6>2
        <5>2. n <= got[x] /\ (Storing(x) => n < got[x])
          BY <5>1 DEF DistinctInv, StoredBefore
        <5> QED BY <3>3, <5>2
      <4> QED BY <4>1, <4>2
    <3>7. ASSUME NEW d \in Threads, NEW i \in 1 .. Len(observers'[d]), NEW j \in 1 .. Len(observers'[d]),
                 observers'[d][i] = observers'[d][j]
          PROVE  i = j
      <4>1. CASE d # o
        BY <3>1, <3>7, <4>1 DEF DistinctInv, NoneTwice
      <4>2. CASE d = o
        <5>1. i \in 1 .. Len(old) /\ j \in 1 .. Len(old) => i = j
          <6> SUFFICES ASSUME i \in 1 .. Len(old), j \in 1 .. Len(old) PROVE i = j
            OBVIOUS
          <6>1. old[i] = old[j]
            BY <3>2, <3>7, <4>2
          <6> QED BY <3>1, <6>1 DEF DistinctInv, NoneTwice
        <5> HIDE DEF old
        <5> QED BY <3>2, <3>5, <3>7, <4>2, <5>1
      <4> QED BY <4>1, <4>2
    <3>8. ASSUME NEW x \in Threads, pc'[x] \in {"callback", "ready"}
          PROVE  \E i \in 1 .. Len(observers'[mpTvClient[x]]) : observers'[mpTvClient[x]][i] = Mine(x)
      <4>1. CASE x = t
        <5>1. Len(old) + 1 \in 1 .. Len(observers'[o])
          BY <3>2
        <5> QED BY <3>2, <4>1, <5>1
      <4>2. CASE x # t
        <5>1. PICK i \in 1 .. Len(observers[mpTvClient[x]]) : observers[mpTvClient[x]][i] = Mine(x)
          BY <3>3, <3>8, <4>2 DEF DistinctInv, ReadyStored
        <5>2. mpTvClient[x] \in Threads
          BY <3>3, <3>8, <4>2 DEF TypeInv, ControlInv, Holding
        <5>3. CASE mpTvClient[x] = o
          <6>1. i \in 1 .. Len(observers'[o])
            BY <3>2, <5>1, <5>3
          <6> QED BY <3>2, <5>1, <5>3, <6>1
        <5>4. CASE mpTvClient[x] # o
          BY <3>1, <5>1, <5>2, <5>4
        <5> QED BY <5>3, <5>4
      <4> QED BY <4>1, <4>2
    <3> HIDE DEF o, old, Storing
    <3>9. SizeRead'
      BY <3>3 DEF SizeRead
    <3>10. StoredBefore'
      BY <3>1, <3>6 DEF StoredBefore
    <3>11. NoneTwice'
      BY <3>7 DEF NoneTwice
    <3>12. ReadyStored'
      BY <3>1, <3>4, <3>8 DEF ReadyStored
    <3> QED BY <3>9, <3>10, <3>11, <3>12 DEF DistinctInv
  <2> QED BY <2>1, <2>2
<1>7. ASSUME NEW t \in Threads, RegisterCallback(t) PROVE DistinctInv'
  <2>1. /\ pc[t] = "callback" /\ pc'[t] = "ready"
        /\ \A x \in Threads : x # t => pc'[x] = pc[x]
        /\ UNCHANGED <<got, mpTvClient, clientSize, observers>>
    BY <1>7 DEF RegisterCallback, TypeInv
  <2> QED BY <2>1, DistinctFrame
<1>8. ASSUME NEW t \in Threads, ReleaseInstance(t) PROVE DistinctInv'
  <2>1. CASE Quiet
    BY <2>1, DistinctQuiet
  <2>2. CASE ~Quiet
    <3>1. /\ pc[t] = "ready" /\ pc'[t] = "delete"
          /\ \A x \in Threads : x # t => pc'[x] = pc[x]
          /\ UNCHANGED <<got, mpTvClient, clientSize, observers>>
      BY <1>8, <2>2, UseEffect DEF TypeInv, objectVars
    <3> QED BY <3>1, DistinctFrame
  <2> QED BY <2>1, <2>2
<1>9. ASSUME NEW t \in Threads, DestructorLock(t) PROVE DistinctInv'
  <2>1. CASE Quiet
    BY <2>1, DistinctQuiet
  <2>2. CASE ~Quiet
    <3>1. pc'[t] = "clear"
      BY <1>9, <2>2, UseEffect DEF TypeInv
    <3> QED BY <3>1 DEF Untouched, NothingReleased
  <2> QED BY <2>1, <2>2
<1>10. ASSUME NEW t \in Threads, Unregister(t) \/ DestructorUnlock(t) PROVE DistinctInv'
  BY <1>10 DEF Unregister, DestructorUnlock, Untouched, NothingReleased
<1>11. CASE setTvEventCallback \/ BinderStep \/ UNCHANGED vars
  <2>1. UNCHANGED <<pc, got, mpTvClient, clientSize, observers>>
    BY <1>11 DEF BinderStep, setTvEventCallback, SendEvent, NextClient, onTransact,
       SendTvClientEvent, onTvClientEvent, TransactUnlock, vars, Fault, appVars, objectVars
  <2>2. SizeRead' /\ NoneTwice'
    BY <2>1 DEF DistinctInv, SizeRead, NoneTwice
  <2>3. StoredBefore'
    BY <2>1 DEF DistinctInv, StoredBefore
  <2>4. ReadyStored'
    BY <2>1 DEF DistinctInv, ReadyStored
  <2> QED BY <2>2, <2>3, <2>4 DEF DistinctInv
<1> QED
  BY <1>2, <1>3, <1>4, <1>5, <1>6, <1>7, <1>8, <1>9, <1>10, <1>11 DEF Next, AppStep

-----------------------------------------------------------------------------

\* Where the event in progress is, against the observers of mInstance.
Before == event.step \in {"lock", "handle"} \/ (event.step = "next" /\ event.todo # {})
After  == event.step \in {"idle", "unlock"} \/ (event.step = "next" /\ event.todo = {})

\* Nobody is told yet, and all that are due observe mInstance.
BeforeInv ==
    Before => /\ told = <<>>
              /\ \A w \in event.due : /\ mInstance \in Threads
                                      /\ \E i \in 1 .. Len(observers[mInstance]) :
                                            observers[mInstance][i] = w

\* The first of them are told, and those that are due are among the event's size.
CallInv ==
    event.step = "call" =>
        /\ event.client = mInstance /\ mInstance \in Threads
        /\ Len(told) = event.index - 1
        /\ \A i \in 1 .. Len(told) : told[i] = observers[mInstance][i]
        /\ \A w \in event.due : \E i \in 1 .. event.size : observers[mInstance][i] = w

\* All that are due are told.
AfterInv ==
    After => /\ \A i, j \in 1 .. Len(told) : told[i] = told[j] => i = j
             /\ \A w \in event.due : \E i \in 1 .. Len(told) : told[i] = w

\* One TvClient is called, and the event is before, in or after its call.
EventInv ==
    /\ event.todo \subseteq registered
    /\ event.step \in {"lock", "handle", "call", "unlock"} => event.todo = {}
    /\ BeforeInv
    /\ CallInv
    /\ AfterInv

\* Initially there is no event.
LEMMA EventInit == Init => EventInv
<1> SUFFICES ASSUME Init PROVE EventInv
  OBVIOUS
<1>1. event.step = "idle" /\ event.todo = {} /\ event.due = {} /\ told = <<>>
  BY DEF Init, NoEvent
<1>2. Len(told) = 0
  BY <1>1
<1> QED BY <1>1, <1>2 DEF EventInv, BeforeInv, CallInv, AfterInv, Before, After

\* A step of a thread keeps what is known of the event: maps only grow, and
\* mInstance stays once it is set.
LEMMA EventFrame ==
    ASSUME TypeInv, ObserverInv, EventInv, event' = event, told' = told,
           registered \subseteq registered',
           mInstance # "NULL" => mInstance' = mInstance,
           \A o \in Threads : /\ Len(observers[o]) \in Nat /\ Len(observers'[o]) \in Nat
                              /\ Len(observers'[o]) >= Len(observers[o])
                              /\ \A i \in 1 .. Len(observers[o]) : observers'[o][i] = observers[o][i]
    PROVE  EventInv'
<1>1. mInstance \in Threads => mInstance' = mInstance
  BY ThreadsAssumption
<1>2. BeforeInv'
  <2> SUFFICES ASSUME Before, NEW w \in event.due
               PROVE  /\ mInstance' \in Threads
                      /\ \E i \in 1 .. Len(observers'[mInstance']) : observers'[mInstance'][i] = w
    BY DEF BeforeInv, Before, EventInv
  <2>1. PICK i \in 1 .. Len(observers[mInstance]) : mInstance \in Threads /\ observers[mInstance][i] = w
    BY DEF EventInv, BeforeInv
  <2>2. i \in 1 .. Len(observers'[mInstance])
    BY <2>1
  <2> QED BY <1>1, <2>1, <2>2
<1>3. CallInv'
  <2> SUFFICES ASSUME event.step = "call"
               PROVE  /\ event.client = mInstance' /\ mInstance' \in Threads
                      /\ Len(told) = event.index - 1
                      /\ \A i \in 1 .. Len(told) : told[i] = observers'[mInstance'][i]
                      /\ \A w \in event.due : \E i \in 1 .. event.size : observers'[mInstance'][i] = w
    BY DEF CallInv
  <2>1. /\ event.client = mInstance /\ mInstance \in Threads
        /\ Len(told) = event.index - 1
        /\ \A i \in 1 .. Len(told) : told[i] = observers[mInstance][i]
        /\ \A w \in event.due : \E i \in 1 .. event.size : observers[mInstance][i] = w
    BY DEF EventInv, CallInv
  <2>2. event.index \in 1 .. event.size /\ event.size <= Len(observers[mInstance]) /\ event.size \in Nat
    BY <2>1 DEF ObserverInv, TypeInv, EventType
  <2>3. \A i \in 1 .. event.size : observers'[mInstance][i] = observers[mInstance][i]
    BY <2>1, <2>2
  <2>4. \A i \in 1 .. Len(told) : i \in 1 .. event.size
    BY <2>1, <2>2
  <2> QED BY <1>1, <2>1, <2>3, <2>4
<1>4. AfterInv'
  BY DEF EventInv, AfterInv, After
<1> QED BY <1>2, <1>3, <1>4 DEF EventInv

\* Every step of a thread is one of these.
LEMMA EventAppStep ==
    ASSUME TypeInv, ControlInv, ObserverInv, Untouched, Untouched', SingleInv, DistinctInv, EventInv,
           NEW t \in Threads, AppStep(t)
    PROVE  EventInv'
<1>1. \A o \in Threads : observers[o] \in Seq(Wrapper) /\ Len(observers[o]) \in Nat
  BY LenProperties DEF TypeInv
<1> USE ThreadsAssumption DEF At, Goto, Fault, appVars, objectVars, historyVars
<1>2. CASE StoreObserver(t) /\ ~Quiet
  <2> DEFINE o == mpTvClient[t]
  <2>1. /\ o \in Threads
        /\ observers[o] \in Seq(Wrapper)
        /\ Mine(t) \in Wrapper
        /\ observers'[o] = Append(observers[o], Mine(t))
        /\ \A d \in Threads : d # o => observers'[d] = observers[d]
        /\ UNCHANGED <<mInstance, registered, event, told>>
    BY <1>2, StoreAppends
  <2>2. /\ Len(observers'[o]) = Len(observers[o]) + 1
        /\ \A i \in 1 .. Len(observers[o]) : observers'[o][i] = observers[o][i]
    BY <2>1, AppendProperties
  <2> HIDE DEF o
  <2>3. \A d \in Threads : /\ Len(observers'[d]) \in Nat
                           /\ Len(observers'[d]) >= Len(observers[d])
                           /\ \A i \in 1 .. Len(observers[d]) : observers'[d][i] = observers[d][i]
    BY <1>1, <2>1, <2>2
  <2> QED BY <1>1, <2>1, <2>3, EventFrame
<1>3. CASE ~(StoreObserver(t) /\ ~Quiet) /\ ~AssignInstance(t)
  <2>1. /\ ~Unregister(t) /\ ~DestructorUnlock(t)
    BY DEF Unregister, DestructorUnlock, Untouched, NothingReleased
  <2>2. UNCHANGED <<mInstance, observers, event, told>> /\ registered \subseteq registered'
    BY <1>3, <2>1 DEF AppStep, TestInstance, ConstructorLock, Register,
         ConstructorUnlock, ReturnInstance, setTvClientObserver, StoreObserver,
         RegisterCallback, ReleaseInstance, DestructorLock, Quiet
  <2>3. \A o \in Threads : /\ Len(observers'[o]) \in Nat
                           /\ Len(observers'[o]) >= Len(observers[o])
                           /\ \A i \in 1 .. Len(observers[o]) : observers'[o][i] = observers[o][i]
    BY <1>1, <2>2
  <2> QED BY <1>1, <2>2, <2>3, EventFrame
<1>4. CASE AssignInstance(t)
  <2>1. UNCHANGED <<observers, event, told, registered>>
    BY <1>4 DEF AssignInstance
  <2>2. mInstance = "NULL"
    BY <1>4 DEF AssignInstance, SingleInv, Constructing
  <2>3. \A o \in Threads : /\ Len(observers'[o]) \in Nat
                           /\ Len(observers'[o]) >= Len(observers[o])
                           /\ \A i \in 1 .. Len(observers[o]) : observers'[o][i] = observers[o][i]
    BY <1>1, <2>1
  <2> QED BY <1>1, <2>1, <2>2, <2>3, EventFrame
<1> QED BY <1>2, <1>3, <1>4

\* A step that leaves the event alone and every TvClient keeps it too.
LEMMA EventQuiet == EventInv /\ UNCHANGED <<event, told, mInstance, observers, registered>> => EventInv'
<1> SUFFICES ASSUME EventInv, UNCHANGED <<event, told, mInstance, observers, registered>> PROVE EventInv'
  OBVIOUS
<1>1. BeforeInv'
  BY DEF EventInv, BeforeInv, Before
<1>2. CallInv'
  BY DEF EventInv, CallInv
<1>3. AfterInv'
  BY DEF EventInv, AfterInv, After
<1> QED BY <1>1, <1>2, <1>3 DEF EventInv

\* The send loop begins with every ready wrapper due.
LEMMA EventSend ==
    ASSUME TypeInv, ControlInv, SingleInv, DistinctInv, EventInv, SendEvent
    PROVE  EventInv'
<1>1. /\ event'.step = "next" /\ event'.todo = registered /\ registered # {}
      /\ event'.due = {Mine(t) : t \in {t \in Threads : Ready(t)}}
      /\ told' = <<>>
      /\ UNCHANGED <<mInstance, observers, registered>>
  BY DEF SendEvent, NoEvent, objectVars
<1>2. BeforeInv'
  <2> SUFFICES ASSUME NEW w \in event'.due
               PROVE  /\ mInstance \in Threads
                      /\ \E i \in 1 .. Len(observers[mInstance]) : observers[mInstance][i] = w
    BY <1>1 DEF BeforeInv
  <2>1. PICK t \in Threads : Ready(t) /\ w = Mine(t)
    BY <1>1
  <2>2. pc[t] = "ready"
    BY <2>1 DEF Ready
  <2>3. mpTvClient[t] = mInstance /\ mInstance \in Threads
    BY <2>2 DEF Holding, SingleInv, ControlInv, TypeInv
  <2>4. \E i \in 1 .. Len(observers[mpTvClient[t]]) : observers[mpTvClient[t]][i] = Mine(t)
    BY <2>2 DEF DistinctInv, ReadyStored
  <2> QED BY <2>1, <2>3, <2>4
<1>3. CallInv' /\ AfterInv'
  BY <1>1 DEF CallInv, AfterInv, After
<1> QED BY <1>1, <1>2, <1>3 DEF EventInv

\* There is one client to call, and the loop ends when it is called.
LEMMA EventNext ==
    ASSUME TypeInv, SingleInv, EventInv, NextClient
    PROVE  EventInv'
<1>1. event.step = "next" /\ UNCHANGED <<mInstance, observers, registered, told>>
  BY DEF NextClient, objectVars, historyVars
<1>2. event \in EventType /\ registered \subseteq Threads
  BY DEF TypeInv
<1>3. CASE event.todo \cap registered = {}
  <2>1. event' = EventRecord("idle", "NULL", {}, 0, 0, event.due)
    BY <1>2, <1>3, NextClientEffect
  <2>2. event.todo = {}
    BY <1>3 DEF EventInv
  <2>3. event'.step = "idle" /\ event'.todo = {} /\ event'.due = event.due
    BY <2>1 DEF EventRecord
  <2>4. AfterInv'
    BY <1>1, <2>2, <2>3 DEF EventInv, AfterInv, After
  <2>5. BeforeInv' /\ CallInv'
    BY <2>3 DEF BeforeInv, Before, CallInv
  <2> QED BY <2>3, <2>4, <2>5 DEF EventInv
<1>4. CASE event.todo \cap registered # {}
  <2>1. PICK o \in event.todo \cap registered :
           event' = EventRecord("lock", o, event.todo \ {o}, event.index, event.size, event.due)
    BY <1>2, <1>4, NextClientEffect
  <2>2. \A x \in registered : x = o
    <3> TAKE x \in registered
    <3>1. (x = mInstance \/ (mInstance = "NULL" /\ pc[x] \in {"unlock", "assign"}))
          /\ (o = mInstance \/ (mInstance = "NULL" /\ pc[o] \in {"unlock", "assign"}))
      BY <2>1 DEF SingleInv
    <3>2. x \in Threads /\ o \in Threads /\ x # "NULL" /\ o # "NULL"
      BY <1>2, <2>1, ThreadsAssumption
    <3> QED BY <3>1, <3>2 DEF SingleInv, InGetInstance
  <2>3. event.todo \subseteq {o}
    BY <2>2 DEF EventInv
  <2>4. event'.step = "lock" /\ event'.todo = {} /\ event'.due = event.due
    BY <2>1, <2>3 DEF EventRecord
  <2>5. Before
    BY <1>1, <1>4 DEF Before
  <2>6. BeforeInv'
    BY <1>1, <2>4, <2>5 DEF EventInv, BeforeInv
  <2>7. AfterInv' /\ CallInv'
    BY <2>4 DEF AfterInv, After, CallInv
  <2> QED BY <2>4, <2>6, <2>7 DEF EventInv
<1> QED BY <1>3, <1>4

\* The call goes to the observers of mInstance, from the first.
LEMMA EventHandle ==
    ASSUME TypeInv, EventInv, SendTvClientEvent, ~Quiet
    PROVE  EventInv'
<1>1. event \in EventType /\ event.step = "handle"
  BY DEF TypeInv, SendTvClientEvent
<1>2. /\ mInstance \in Threads
      /\ event' = EventRecord(IF observers[mInstance] = <<>> THEN "unlock" ELSE "call",
                              mInstance, event.todo, 1, Len(observers[mInstance]), event.due)
      /\ UNCHANGED <<mInstance, observers, registered, told>>
  BY <1>1, SendTvClientEventEffect DEF TypeInv, objectVars, historyVars
<1>3. /\ told = <<>> /\ Len(told) = 0 /\ event.todo = {}
      /\ \A w \in event.due : \E i \in 1 .. Len(observers[mInstance]) : observers[mInstance][i] = w
  BY <1>1 DEF EventInv, BeforeInv, Before
<1>4. /\ event'.todo = {} /\ event'.due = event.due /\ event'.client = mInstance /\ event'.index = 1
      /\ event'.size = Len(observers[mInstance])
  BY <1>2, <1>3 DEF EventRecord
<1>5. CASE observers[mInstance] = <<>>
  <2>1. event'.step = "unlock"
    BY <1>2, <1>5 DEF EventRecord
  <2>2. Len(observers[mInstance]) = 0
    BY <1>5
  <2>3. event'.due = {}
    BY <1>3, <1>4, <2>2
  <2>4. AfterInv'
    BY <1>2, <1>3, <2>3 DEF AfterInv
  <2>5. BeforeInv' /\ CallInv'
    BY <2>1 DEF BeforeInv, Before, CallInv
  <2> QED BY <1>4, <2>4, <2>5 DEF EventInv
<1>6. CASE observers[mInstance] # <<>>
  <2>1. event'.step = "call"
    BY <1>2, <1>6 DEF EventRecord
  <2>2. CallInv'
    BY <1>2, <1>3, <1>4 DEF CallInv
  <2>3. BeforeInv' /\ AfterInv'
    BY <2>1 DEF BeforeInv, Before, AfterInv, After
  <2> QED BY <1>4, <2>2, <2>3 DEF EventInv
<1> QED BY <1>5, <1>6

\* One more observer is told, and after the last one all are.
LEMMA EventTell ==
    ASSUME TypeInv, ObserverInv, DistinctInv, EventInv, onTvClientEvent, ~Quiet
    PROVE  EventInv'
<1> DEFINE o == observers[mInstance]
           w == o[event.index]
<1>1. event \in EventType /\ event.step = "call"
  BY DEF TypeInv, onTvClientEvent
<1>2. /\ event.client = mInstance /\ mInstance \in Threads
      /\ Len(told) = event.index - 1
      /\ \A i \in 1 .. Len(told) : told[i] = o[i]
      /\ \A x \in event.due : \E i \in 1 .. event.size : o[i] = x
      /\ event.todo = {}
  BY <1>1 DEF EventInv, CallInv
<1>3. /\ event.index \in 1 .. event.size /\ event.size <= Len(o) /\ event.size \in Nat
      /\ Len(o) \in Nat /\ o \in Seq(Wrapper)
  BY <1>1, <1>2, LenProperties DEF ObserverInv, TypeInv, EventType
<1>4. /\ told' = Append(told, w)
      /\ event' = EventRecord(IF event.index = event.size THEN "unlock" ELSE "call",
                              event.client, event.todo, event.index + 1, event.size, event.due)
      /\ UNCHANGED <<mInstance, observers, registered>>
  BY <1>1, <1>2, onTvClientEventEffect DEF objectVars
<1>5. w \in Wrapper
  BY <1>3, ElementOfSeq
<1>6. /\ Len(told') = event.index
      /\ \A i \in 1 .. event.index : told'[i] = o[i]
  <2>1. told \in Seq(Wrapper)
    BY DEF TypeInv
  <2>2. /\ Len(told') = Len(told) + 1
        /\ \A i \in 1 .. Len(told) : told'[i] = told[i]
        /\ told'[Len(told) + 1] = w
    BY <1>4, <1>5, <2>1, AppendProperties
  <2>3. Len(told) + 1 = event.index /\ event.index \in Nat
    BY <1>2, <1>3
  <2>4. ASSUME NEW i \in 1 .. event.index PROVE told'[i] = o[i]
    <3>1. CASE i = event.index
      BY <2>2, <2>3, <3>1
    <3>2. CASE i # event.index
      <4>1. i \in 1 .. Len(told)
        BY <1>2, <2>3, <3>2
      <4> QED BY <1>2, <2>2, <4>1
    <3> QED BY <3>1, <3>2
  <2> QED BY <2>2, <2>3, <2>4
<1>7. /\ event'.todo = {} /\ event'.due = event.due /\ event'.client = mInstance
      /\ event'.index = event.index + 1 /\ event'.size = event.size
  BY <1>2, <1>4 DEF EventRecord
<1> HIDE DEF w
<1>8. CASE event.index = event.size
  <2>1. event'.step = "unlock"
    BY <1>4, <1>8 DEF EventRecord
  <2>2. ASSUME NEW i \in 1 .. Len(told'), NEW j \in 1 .. Len(told'), told'[i] = told'[j] PROVE i = j
    <3>1. i \in 1 .. Len(o) /\ j \in 1 .. Len(o) /\ o[i] = o[j]
      BY <1>3, <1>6, <2>2
    <3> QED BY <1>2, <3>1 DEF DistinctInv, NoneTwice
  <2>3. \A x \in event'.due : \E i \in 1 .. Len(told') : told'[i] = x
    BY <1>2, <1>6, <1>7, <1>8
  <2>4. AfterInv'
    BY <2>2, <2>3 DEF AfterInv
  <2>5. BeforeInv' /\ CallInv'
    BY <2>1 DEF BeforeInv, Before, CallInv
  <2> QED BY <1>7, <2>4, <2>5 DEF EventInv
<1>9. CASE event.index # event.size
  <2>1. event'.step = "call"
    BY <1>4, <1>9 DEF EventRecord
  <2>2. CallInv'
    BY <1>2, <1>3, <1>4, <1>6, <1>7 DEF CallInv
  <2>3. BeforeInv' /\ AfterInv'
    BY <2>1 DEF BeforeInv, Before, AfterInv, After
  <2> QED BY <1>7, <2>2, <2>3 DEF EventInv
<1> QED BY <1>8, <1>9

\* Every step keeps what is known of the event.
LEMMA EventStep ==
    TypeInv /\ ControlInv /\ ObserverInv /\ Untouched /\ Untouched' /\ SingleInv /\ DistinctInv
        /\ EventInv /\ [Next]_vars => EventInv'
<1> SUFFICES ASSUME TypeInv, ControlInv, ObserverInv, Untouched, Untouched', SingleInv, DistinctInv,
                    EventInv, [Next]_vars
             PROVE  EventInv'
  OBVIOUS
<1>1. ASSUME NEW t \in Threads, AppStep(t) PROVE EventInv'
  BY <1>1, EventAppStep
<1>2. CASE setTvEventCallback \/ UNCHANGED vars \/ Quiet
  BY <1>2, EventQuiet DEF setTvEventCallback, vars, Quiet, objectVars, historyVars
<1>3. CASE SendEvent
  BY <1>3, EventSend
<1>4. CASE NextClient
  BY <1>4, EventNext
<1>5. CASE onTransact /\ ~Quiet
  <2>1. /\ event.step = "lock" /\ event'.step = "handle"
        /\ event'.todo = event.todo /\ event'.due = event.due
        /\ UNCHANGED <<mInstance, observers, registered, told>>
    BY <1>5 DEF onTransact, Quiet, Fault, appVars, objectVars, historyVars, TypeInv, EventType
  <2>2. BeforeInv'
    BY <2>1 DEF EventInv, BeforeInv, Before
  <2>3. CallInv' /\ AfterInv'
    BY <2>1 DEF CallInv, AfterInv, After
  <2> QED BY <2>1, <2>2, <2>3 DEF EventInv
<1>6. CASE SendTvClientEvent /\ ~Quiet
  BY <1>6, EventHandle
<1>7. CASE onTvClientEvent /\ ~Quiet
  BY <1>7, EventTell
<1>8. CASE TransactUnlock
  <2>1. /\ event.step = "unlock" /\ event'.step = "next"
        /\ event'.todo = event.todo /\ event'.due = event.due
        /\ UNCHANGED <<mInstance, observers, registered, told>>
    BY <1>8 DEF TransactUnlock, objectVars, historyVars, TypeInv, EventType
  <2>2. event.todo = {}
    BY <2>1 DEF EventInv
  <2>3. AfterInv'
    BY <2>1 DEF EventInv, AfterInv, After
  <2>4. BeforeInv' /\ CallInv'
    BY <2>1, <2>2 DEF BeforeInv, Before, CallInv
  <2> QED BY <2>1, <2>2, <2>3, <2>4 DEF EventInv
<1> QED BY <1>1, <1>2, <1>3, <1>4, <1>5, <1>6, <1>7, <1>8 DEF Next, BinderStep

\* The inductive invariant of the event.
UntouchedInv == Untouched => SingleInv /\ DistinctInv /\ EventInv

\* Every step keeps it.
LEMMA UntouchedStep ==
    TypeInv /\ ControlInv /\ ObjectInv /\ ObserverInv /\ UntouchedInv /\ [Next]_vars => UntouchedInv'
BY UntouchedBefore, SingleStep, DistinctStep, EventStep DEF UntouchedInv

\* If no two threads were ever in GetInstance together and nothing has been
\* released, an event reaches each wrapper that was ready when it was sent, once.
THEOREM EachWrapperToldOnceAlways == Spec => []EachWrapperToldOnce
<1> DEFINE I == TypeInv /\ ControlInv /\ ObjectInv /\ ObserverInv /\ UntouchedInv
<1>1. Init => I
  BY TypeInit, ControlInit, ObjectInit, ObserverInit, SingleInit, DistinctInit, EventInit DEF UntouchedInv
<1>2. I /\ [Next]_vars => I'
  BY TypeStep, ControlStep, ObjectStep, ObserverStep, UntouchedStep
<1>3. I => EachWrapperToldOnce
  <2> SUFFICES ASSUME I, ~overlapped, NothingReleased
               PROVE  /\ \A i, j \in 1 .. Len(told) : told[i] = told[j] => i = j
                      /\ event.step = "idle" =>
                            \A w \in event.due : \E i \in 1 .. Len(told) : told[i] = w
    BY DEF EachWrapperToldOnce
  <2>1. EventInv /\ DistinctInv
    BY DEF UntouchedInv, Untouched
  <2>2. CASE Before
    <3>1. Len(told) = 0 /\ event.step # "idle"
      BY <2>1, <2>2 DEF EventInv, BeforeInv, Before
    <3> QED BY <3>1
  <2>3. CASE After
    BY <2>1, <2>3 DEF EventInv, AfterInv
  <2>4. CASE event.step = "call"
    <3>1. /\ mInstance \in Threads /\ Len(told) = event.index - 1
          /\ \A i \in 1 .. Len(told) : told[i] = observers[mInstance][i]
      BY <2>1, <2>4 DEF EventInv, CallInv
    <3>2. /\ event.index \in 1 .. event.size /\ event.size <= Len(observers[mInstance])
          /\ event.size \in Nat /\ Len(observers[mInstance]) \in Nat
      BY <2>1, <2>4, <3>1, LenProperties DEF EventInv, CallInv, ObserverInv, TypeInv, EventType
    <3>3. \A i \in 1 .. Len(told) : i \in 1 .. Len(observers[mInstance])
      BY <3>1, <3>2
    <3> QED BY <2>1, <2>4, <3>1, <3>3 DEF DistinctInv, NoneTwice
  <2> QED BY <2>2, <2>3, <2>4 DEF Before, After, TypeInv, EventType, Steps
<1> QED BY <1>1, <1>2, <1>3, PTL DEF Spec
=============================================================================

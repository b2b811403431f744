----------------------- MODULE TvServiceCallbacksProofs -----------------------
(***************************************************************************)
(* TvServiceCallbacks' invariants for every set of clients.                *)
(***************************************************************************)
EXTENDS TvServiceCallbacks, FiniteSetTheorems, TLAPS

\* What an assignment to map[key] does to the keys and to what is read.
LEMMA PutEffect ==
    ASSUME TypeOK, NEW key \in Nat, NEW binder \in Clients \cup {NULL},
           mTvServiceCallBack' = Put(key, binder)
    PROVE  /\ Keys' = Keys \cup {key}
           /\ mTvServiceCallBack' \in [Keys' -> Clients \cup {NULL}]
           /\ Keys' \subseteq Nat /\ IsFiniteSet(Keys')
           /\ \A k : Value(k)' = IF k = key THEN binder ELSE Value(k)
<1>1. Keys' = Keys \cup {key}
  BY DEF Put, Keys
<1>2. IsFiniteSet(Keys')
  BY <1>1, FS_AddElement DEF TypeOK
<1>3. mTvServiceCallBack' \in [Keys' -> Clients \cup {NULL}]
  BY <1>1 DEF Put, Keys, TypeOK
<1>4. ASSUME NEW k PROVE Value(k)' = IF k = key THEN binder ELSE Value(k)
  BY <1>1 DEF Put, Keys, Value
<1> QED BY <1>1, <1>2, <1>3, <1>4 DEF TypeOK

\* Reading map[key] adds the key and changes nothing that is read.
LEMMA TouchEffect ==
    ASSUME TypeOK, NEW key \in Nat, mTvServiceCallBack' = Touch(key)
    PROVE  /\ Keys' = Keys \cup {key}
           /\ mTvServiceCallBack' \in [Keys' -> Clients \cup {NULL}]
           /\ Keys' \subseteq Nat /\ IsFiniteSet(Keys')
           /\ \A k : Value(k)' = Value(k)
<1>1. Value(key) \in Clients \cup {NULL}
  BY DEF Value, TypeOK, Keys
<1>2. mTvServiceCallBack' = Put(key, Value(key))
  BY DEF Touch
<1> QED BY <1>1, <1>2, PutEffect

\* What an erased key does.
LEMMA EraseEffect ==
    ASSUME TypeOK, NEW key,
           mTvServiceCallBack' = [k \in Keys \ {key} |-> mTvServiceCallBack[k]]
    PROVE  /\ Keys' = Keys \ {key}
           /\ mTvServiceCallBack' \in [Keys' -> Clients \cup {NULL}]
           /\ Keys' \subseteq Nat /\ IsFiniteSet(Keys')
           /\ \A k : Value(k)' = IF k = key THEN NULL ELSE Value(k)
<1>1. Keys' = Keys \ {key}
  BY DEF Keys
<1>2. IsFiniteSet(Keys')
  BY <1>1, FS_RemoveElement DEF TypeOK
<1>3. mTvServiceCallBack' \in [Keys' -> Clients \cup {NULL}]
  BY <1>1 DEF Keys, TypeOK
<1>4. ASSUME NEW k PROVE Value(k)' = IF k = key THEN NULL ELSE Value(k)
  BY <1>1 DEF Keys, Value
<1> QED BY <1>1, <1>2, <1>3, <1>4 DEF TypeOK

\* A map with a key for every index below its size has no other key.
LEMMA FullMapIsDense ==
    ASSUME TypeOK, \A k \in 0 .. Size - 1 : k \in Keys
    PROVE  Size \in Nat /\ \A k \in Keys : k < Size
<1>1. IsFiniteSet(Keys) /\ Keys \subseteq Nat
  BY DEF TypeOK
<1>2. Size \in Nat
  BY <1>1, FS_CardinalityType DEF Size
<1>3. Cardinality(0 .. Size - 1) = Size
  BY <1>2, FS_Interval
<1>4. 0 .. Size - 1 \in SUBSET Keys
  OBVIOUS
<1>5. 0 .. Size - 1 = Keys
  BY <1>1, <1>3, <1>4, FS_Subset DEF Size
<1> QED BY <1>1, <1>2, <1>5

-----------------------------------------------------------------------------

\* Initially every variable has its type.
LEMMA TypeInit == Init => TypeOK
<1> SUFFICES ASSUME Init PROVE TypeOK
  OBVIOUS
<1>1. Keys = {}
  BY DEF Init, Keys
<1>2. mTvServiceCallBack \in [Keys -> Clients \cup {NULL}]
  BY <1>1 DEF Init
<1>3. IsFiniteSet(Keys)
  BY <1>1, FS_EmptySet
<1>4. overlapped \in BOOLEAN /\ disturbed \in BOOLEAN
  BY DEF Init
<1> QED BY <1>1, <1>2, <1>3, <1>4 DEF Init, TypeOK, CallState

\* Every step keeps the types.
LEMMA TypeNext == TypeOK /\ [Next]_vars => TypeOK'
<1> SUFFICES ASSUME TypeOK, [Next]_vars PROVE TypeOK'
  OBVIOUS
<1>1. Size \in Nat
  BY FS_CardinalityType DEF TypeOK, Size
<1>2. \A k : Value(k) \in Clients \cup {NULL}
  BY DEF TypeOK, Value, Keys
<1>3. ASSUME NEW c \in Clients, SetTvServiceCallBack(c) PROVE TypeOK'
  <2>1. overlapped' \in BOOLEAN /\ disturbed' \in BOOLEAN
    BY <1>3 DEF SetTvServiceCallBack, TypeOK
  <2>2. Keys' = Keys
    BY <1>3 DEF SetTvServiceCallBack, Keys
  <2> QED BY <1>1, <1>3, <2>1, <2>2 DEF SetTvServiceCallBack, TypeOK, CallState, senderVars
<1>4. ASSUME NEW c \in Clients, ScanSlot(c) PROVE TypeOK'
  <2>1. overlapped' \in BOOLEAN /\ disturbed' \in BOOLEAN
    BY <1>4 DEF ScanSlot, TypeOK
  <2>2. cookie[c] \in Nat /\ mTvServiceCallBack' = Touch(cookie[c])
    BY <1>4 DEF ScanSlot, TypeOK
  <2>3. call' \in [Clients -> CallState] /\ cookie' \in [Clients -> Nat]
    BY <1>4, <2>2 DEF ScanSlot, TypeOK, CallState
  <2> QED BY <1>4, <2>1, <2>2, <2>3, TouchEffect DEF ScanSlot, TypeOK, senderVars
<1>5. ASSUME NEW c \in Clients, AssignSlot(c) PROVE TypeOK'
  <2>1. overlapped' \in BOOLEAN /\ disturbed' \in BOOLEAN
    BY <1>5 DEF AssignSlot, TypeOK
  <2>2. cookie[c] \in Nat /\ mTvServiceCallBack' = Put(cookie[c], c)
    BY <1>5 DEF AssignSlot, TypeOK
  <2> QED BY <1>5, <2>1, <2>2, PutEffect DEF AssignSlot, TypeOK, senderVars, CallState
<1>6. ASSUME NEW c \in Clients, RemoveTvServiceCallBack(c) PROVE TypeOK'
  <2>1. overlapped' \in BOOLEAN /\ disturbed' \in BOOLEAN
    BY <1>6 DEF RemoveTvServiceCallBack, TypeOK
  <2> QED BY <1>6, <2>1, EraseEffect
          DEF RemoveTvServiceCallBack, TypeOK, senderVars, CallState
<1>7. ASSUME NEW c \in Clients, ClientDies(c) PROVE TypeOK'
  BY <1>7 DEF ClientDies, TypeOK, senderVars, CallState, Keys
<1>8. ASSUME SendEvent PROVE TypeOK'
  BY <1>1, <1>8 DEF SendEvent, TypeOK, registryVars, Keys
<1>9. NextIndex \in [step : {"idle", "test", "transact", "crashed"}, size : Nat, index : Nat]
  BY DEF NextIndex, TypeOK
<1>10. ASSUME TestCallback PROVE TypeOK'
  <2>1. sender.index \in Nat /\ mTvServiceCallBack' = Touch(sender.index)
    BY <1>10 DEF TestCallback, TypeOK
  <2> QED BY <1>9, <1>10, <2>1, TouchEffect DEF TestCallback, TypeOK
<1>11. ASSUME Transact PROVE TypeOK'
  <2>1. sender.index \in Nat /\ mTvServiceCallBack' = Touch(sender.index)
    BY <1>11 DEF Transact, TypeOK
  <2>2. delivered' \subseteq Clients
    BY <1>2, <1>11 DEF Transact, TypeOK
  <2> QED BY <1>9, <1>11, <2>1, <2>2, TouchEffect DEF Transact, TypeOK
<1>12. CASE UNCHANGED vars
  BY <1>12 DEF vars, registryVars, senderVars, TypeOK, Keys
<1> QED
  BY <1>3, <1>4, <1>5, <1>6, <1>7, <1>8, <1>10, <1>11, <1>12
  DEF Next, SenderStep, ClientStep

\* TvService's callback registry keeps its types.
THEOREM RegistryTypeCorrect == Spec => []TypeOK
<1> QED BY TypeInit, TypeNext, PTL DEF Spec

-----------------------------------------------------------------------------

\* The send loop's part of the invariant.
SendInv == TypeOK /\ SenderBounds /\ UndisturbedMap /\ UndisturbedDelivery

\* Initially nothing is sent and the map is empty.
LEMMA SendInit == Init => SendInv
<1> SUFFICES ASSUME Init PROVE SendInv
  OBVIOUS
<1>1. Keys = {} /\ DOMAIN before = {}
  BY DEF Init, Keys
<1>2. SenderBounds
  BY DEF Init, SenderBounds
<1>3. UndisturbedMap
  BY <1>1, FS_EmptySet DEF Init, UndisturbedMap
<1>4. UndisturbedDelivery
  BY <1>1 DEF Init, UndisturbedDelivery
<1> QED BY <1>2, <1>3, <1>4, TypeInit DEF SendInv

\* A call of a client disturbs the loop or changes nothing the loop sees.
LEMMA SendClient ==
    ASSUME SendInv, NEW c \in Clients, ClientStep(c)
    PROVE  SenderBounds' /\ UndisturbedMap' /\ UndisturbedDelivery'
<1>1. UNCHANGED <<sender, delivered, before>>
  BY DEF ClientStep, SetTvServiceCallBack, ScanSlot, AssignSlot, RemoveTvServiceCallBack,
         ClientDies, senderVars
<1>2. disturbed' = TRUE \/ UNCHANGED <<disturbed, mTvServiceCallBack>>
  BY DEF ClientStep, SetTvServiceCallBack, ScanSlot, AssignSlot, RemoveTvServiceCallBack,
         ClientDies
<1>3. SenderBounds'
  BY <1>1 DEF SendInv, SenderBounds
<1>4. CASE disturbed' = TRUE
  BY <1>3, <1>4 DEF UndisturbedMap, UndisturbedDelivery
<1>5. CASE UNCHANGED <<disturbed, mTvServiceCallBack>>
  BY <1>1, <1>3, <1>5 DEF SendInv, UndisturbedMap, UndisturbedDelivery, Keys, Value
<1> QED BY <1>2, <1>3, <1>4, <1>5

\* The start of a loop takes the map as it is.
LEMMA SendBegin ==
    ASSUME SendInv, SendEvent
    PROVE  SenderBounds' /\ UndisturbedMap' /\ UndisturbedDelivery'
<1>1. Size \in Nat /\ (Size = 0 => Keys = {})
  BY FS_CardinalityType, FS_EmptySet DEF SendInv, TypeOK, Size
<1>2. Keys' = Keys /\ DOMAIN before' = Keys /\ (\A k : Value(k)' = Value(k))
  BY DEF SendEvent, registryVars, Keys, Value
<1>3. SenderBounds'
  BY <1>1 DEF SendEvent, SenderBounds
<1>4. \A k \in Keys : Value(k) = before'[k]
  BY DEF SendEvent, Value
<1>5. UndisturbedMap'
  <2>1. sender'.size = Cardinality(DOMAIN before') /\ sender'.index = 0
    BY <1>2 DEF SendEvent, Size
  <2>2. sender'.step = "idle" => sender'.index = sender'.size
    BY <1>1 DEF SendEvent
  <2>3. sender'.step # "transact" /\ sender'.index <= sender'.size
    BY <1>1 DEF SendEvent
  <2> QED BY <1>2, <1>4, <2>1, <2>2, <2>3 DEF UndisturbedMap
<1>6. UndisturbedDelivery'
  <2>1. sender'.index = 0 /\ delivered' = {} /\ sender'.step # "crashed"
    BY DEF SendEvent
  <2>2. \A k \in DOMAIN before' : k \in Nat
    BY <1>2 DEF SendInv, TypeOK
  <2> QED BY <2>1, <2>2 DEF UndisturbedDelivery
<1> QED BY <1>3, <1>5, <1>6

\* A step of the loop inserts at most a null binder, and calls the binder it
\* has found.
LEMMA SendLoop ==
    ASSUME SendInv, SenderStep
    PROVE  SenderBounds' /\ UndisturbedMap' /\ UndisturbedDelivery'
<1> DEFINE i == sender.index
<1>1. /\ sender \in [step : {"idle", "test", "transact", "crashed"}, size : Nat, index : Nat]
      /\ i \in Nat /\ sender.size \in Nat /\ i < sender.size
      /\ TypeOK /\ Keys \subseteq Nat
  BY DEF SendInv, TypeOK, SenderBounds, SenderStep, TestCallback, Transact
<1>2. mTvServiceCallBack' = Touch(i) /\ UNCHANGED <<before, disturbed>>
  BY DEF SenderStep, TestCallback, Transact
<1>3. Keys' = Keys \cup {i} /\ \A k : Value(k)' = Value(k)
  BY <1>1, <1>2, TouchEffect
<1>4. \/ /\ sender.step = "test" /\ Value(i) = NULL
         /\ sender' = NextIndex /\ delivered' = delivered
      \/ /\ sender.step = "test" /\ Value(i) # NULL
         /\ sender' = [sender EXCEPT !.step = "transact"] /\ delivered' = delivered
      \/ /\ sender.step = "transact" /\ Value(i) # NULL
         /\ sender' = NextIndex /\ delivered' = delivered \cup {Value(i)}
      \/ /\ sender.step = "transact" /\ Value(i) = NULL
         /\ sender' = [sender EXCEPT !.step = "crashed"]
  BY DEF SenderStep, TestCallback, Transact
<1>5. SenderBounds'
  BY <1>1, <1>4 DEF SenderBounds, NextIndex
<1> SUFFICES ASSUME ~disturbed PROVE UndisturbedMap' /\ UndisturbedDelivery'
  BY <1>2, <1>5 DEF UndisturbedMap, UndisturbedDelivery
<1>6. /\ DOMAIN before \subseteq Keys
      /\ \A k \in Keys : Value(k) = IF k \in DOMAIN before THEN before[k] ELSE NULL
      /\ sender.size = Cardinality(DOMAIN before)
      /\ \A k \in 0 .. i - 1 : k \in Keys
      /\ sender.step = "transact" => Value(i) # NULL
  BY DEF SendInv, UndisturbedMap
<1>7. delivered = {before[k] : k \in {k \in DOMAIN before : k < i /\ before[k] # NULL}}
  BY DEF SendInv, UndisturbedDelivery
<1>8. Value(i) = IF i \in DOMAIN before THEN before[i] ELSE NULL
  BY <1>6 DEF Value
<1>9. \A k \in Keys' : Value(k)' = IF k \in DOMAIN before' THEN before'[k] ELSE NULL
  BY <1>2, <1>3, <1>6, <1>8
<1>10. \A k \in 0 .. i : k \in Keys'
  BY <1>1, <1>3, <1>6
<1>11. \A k \in DOMAIN before : k \in Nat
  BY <1>1, <1>6
<1>12. ASSUME Value(i) # NULL, sender' = [sender EXCEPT !.step = "transact"],
              delivered' = delivered
       PROVE  UndisturbedMap' /\ UndisturbedDelivery'
  <2>1. sender'.step = "transact" /\ sender'.index = i /\ sender'.size = sender.size
    BY <1>1, <1>12
  <2>2. UndisturbedMap'
    BY <1>1, <1>2, <1>3, <1>6, <1>9, <1>10, <1>12, <2>1 DEF UndisturbedMap
  <2> QED BY <1>2, <1>7, <1>12, <2>1, <2>2 DEF UndisturbedDelivery
<1>13. ASSUME sender' = NextIndex PROVE UndisturbedMap'
  <2>1. /\ sender'.step = IF i + 1 = sender.size THEN "idle" ELSE "test"
        /\ sender'.index = i + 1 /\ sender'.size = sender.size
    BY <1>13 DEF NextIndex
  <2>2. sender'.index <= sender'.size
    BY <1>1, <2>1
  <2>3. \A k \in 0 .. sender'.index - 1 : k \in Keys'
    BY <1>1, <1>10, <2>1
  <2> QED BY <1>2, <1>3, <1>6, <1>9, <2>1, <2>2, <2>3 DEF UndisturbedMap
<1>14. ASSUME Value(i) = NULL, sender' = NextIndex, delivered' = delivered
       PROVE  UndisturbedDelivery'
  <2>1. \A k \in DOMAIN before : (k < i + 1 /\ before[k] # NULL) <=> (k < i /\ before[k] # NULL)
    BY <1>1, <1>8, <1>11, <1>14
  <2>2. sender'.step # "crashed" /\ sender'.index = i + 1
    BY <1>14 DEF NextIndex
  <2>3. delivered = {before[k] : k \in {k \in DOMAIN before : k < i + 1 /\ before[k] # NULL}}
    BY <1>7, <2>1
  <2> QED BY <1>2, <1>14, <2>2, <2>3 DEF UndisturbedDelivery
<1>15. ASSUME Value(i) # NULL, sender' = NextIndex, delivered' = delivered \cup {Value(i)}
       PROVE  UndisturbedDelivery'
  <2>1. i \in DOMAIN before /\ Value(i) = before[i]
    BY <1>8, <1>15
  <2>2. \A k \in DOMAIN before : (k < i + 1 /\ before[k] # NULL)
                                    <=> (k < i /\ before[k] # NULL) \/ k = i
    BY <1>1, <1>11, <1>15, <2>1
  <2>3. sender'.step # "crashed" /\ sender'.index = i + 1
    BY <1>15 DEF NextIndex
  <2>4. delivered' = {before[k] : k \in {k \in DOMAIN before : k < i + 1 /\ before[k] # NULL}}
    BY <1>7, <1>15, <2>1, <2>2
  <2> QED BY <1>2, <2>3, <2>4 DEF UndisturbedDelivery
<1> QED BY <1>4, <1>6, <1>12, <1>13, <1>14, <1>15

\* Each step keeps the send loop on the map it began with, as long as nobody disturbs it.
LEMMA SendNext == SendInv /\ [Next]_vars => SendInv'
<1> SUFFICES ASSUME SendInv, [Next]_vars
             PROVE  SenderBounds' /\ UndisturbedMap' /\ UndisturbedDelivery'
  BY TypeNext DEF SendInv
<1>1. CASE UNCHANGED vars
  BY <1>1 DEF vars, registryVars, senderVars, SendInv, SenderBounds, UndisturbedMap,
     UndisturbedDelivery, Keys, Value
<1> QED BY <1>1, SendBegin, SendLoop, SendClient DEF Next

\* A send loop no client disturbs calls the clients below the size it read, and
\* never a null binder.
THEOREM UndisturbedLoopDelivers == Spec => []UndisturbedDelivery
<1>1. SendInv => UndisturbedDelivery
  BY DEF SendInv
<1> QED BY <1>1, SendInit, SendNext, PTL DEF Spec

\* A client left uncalled by such a loop has made it fill a hole of the map.
THEOREM HolesAreFilled == Spec => []MissedEventFillsHole
<1>1. SendInv => MissedEventFillsHole
  <2> SUFFICES ASSUME SendInv, ~disturbed, sender.step = "idle",
                      NEW k \in DOMAIN Registration, Registration[k] \notin delivered
               PROVE  Size > Cardinality(DOMAIN before)
    BY DEF MissedEventFillsHole
  <2>1. /\ DOMAIN before \subseteq Keys
        /\ \A j \in Keys : Value(j) = IF j \in DOMAIN before THEN before[j] ELSE NULL
        /\ sender.index = Cardinality(DOMAIN before)
        /\ \A j \in 0 .. sender.index - 1 : j \in Keys
    BY DEF SendInv, UndisturbedMap
  <2>2. IsFiniteSet(Keys) /\ k \in Keys /\ k \in Nat /\ Registration[k] = Value(k)
           /\ Value(k) # NULL
    BY DEF SendInv, TypeOK, Registration, Value
  <2>3. Size \in Nat /\ Cardinality(DOMAIN before) \in Nat
          /\ Cardinality(DOMAIN before) <= Size
    BY <2>1, <2>2, FS_CardinalityType, FS_Subset DEF Size
  <2>4. k \in DOMAIN before /\ before[k] = Registration[k] /\ before[k] # NULL
    BY <2>1, <2>2
  <2>5. ~(k < sender.index)
    BY <2>4 DEF SendInv, UndisturbedDelivery
  <2>6. ASSUME Size = Cardinality(DOMAIN before) PROVE FALSE
    <3>1. \A j \in 0 .. Size - 1 : j \in Keys
      BY <2>1, <2>6
    <3>2. k < Size
      BY <3>1, <2>2, FullMapIsDense DEF SendInv
    <3> QED BY <3>2, <2>1, <2>5, <2>6
  <2> QED BY <2>3, <2>6
<1> QED BY <1>1, SendInit, SendNext, PTL DEF Spec

-----------------------------------------------------------------------------

\* The clients' part of the invariant.
SlotsInv ==
    /\ TypeOK
    /\ ScanBounds
    /\ ~overlapped => OneRegistering /\ ScanFinds /\ AssignsFree
    /\ NeverEvicted

\* A client holds a slot when its slot's value is the client.
LEMMA HoldsValue == ASSUME NEW c \in Clients PROVE HoldsSlot(c) <=> Value(cookie[c]) = c
BY ClientsAssumption DEF HoldsSlot, Value

\* Initially nobody has called.
LEMMA SlotsInit == Init => SlotsInv
BY TypeInit DEF Init, SlotsInv, ScanBounds, OneRegistering, ScanFinds, AssignsFree,
                NeverEvicted, Registering

\* A step that changes no client's call, and no value of the map, keeps the
\* slots.
LEMMA SlotsFrame ==
    ASSUME SlotsInv, TypeOK', UNCHANGED <<call, clientSize, cookie, overlapped>>,
           \A k : Value(k)' = Value(k)
    PROVE  SlotsInv'
<1>1. ScanBounds'
  BY DEF SlotsInv, ScanBounds
<1>2. OneRegistering <=> OneRegistering'
  BY DEF OneRegistering, Registering
<1>3. ScanFinds => ScanFinds'
  <2> SUFFICES ASSUME ScanFinds, NEW c \in Clients, call[c] = "scan",
                      \A j \in cookie[c] .. clientSize[c] - 1 : Value(j)' # NULL,
                      NEW k \in Keys', k >= clientSize[c]
               PROVE  Value(k)' = NULL
    BY DEF ScanFinds
  <2>1. \A j \in Keys : j >= clientSize[c] => Value(j) = NULL
    BY DEF ScanFinds
  <2> QED BY <2>1 DEF Value
<1>4. AssignsFree => AssignsFree'
  BY DEF AssignsFree
<1>5. NeverEvicted'
  <2>1. ASSUME NEW c \in Clients PROVE HoldsSlot(c)' <=> HoldsSlot(c)
    BY ClientsAssumption DEF HoldsSlot, Value
  <2> QED BY <2>1 DEF SlotsInv, NeverEvicted
<1> QED BY <1>1, <1>2, <1>3, <1>4, <1>5 DEF SlotsInv

\* The size read by a registration either leaves a hole below it or nothing above.
LEMMA SlotsSet ==
    ASSUME SlotsInv, TypeOK', NEW c \in Clients, SetTvServiceCallBack(c)
    PROVE  SlotsInv'
<1>1. Size \in Nat /\ (Size = 0 => Keys = {})
  BY FS_CardinalityType, FS_EmptySet DEF SlotsInv, TypeOK, Size
<1>2. TypeOK /\ cookie[c] = 0
  BY DEF SlotsInv, ScanBounds, SetTvServiceCallBack
<1>3. /\ call' = [call EXCEPT ![c] = IF Size = 0 THEN "assign" ELSE "scan"]
      /\ clientSize' = [clientSize EXCEPT ![c] = Size]
      /\ UNCHANGED <<mTvServiceCallBack, cookie>>
  BY DEF SetTvServiceCallBack
<1>4. /\ \A d \in Clients \ {c} : call'[d] = call[d] /\ clientSize'[d] = clientSize[d]
      /\ call'[c] = (IF Size = 0 THEN "assign" ELSE "scan") /\ clientSize'[c] = Size
  BY <1>2, <1>3 DEF TypeOK
<1>5. Keys' = Keys /\ \A k : Value(k)' = Value(k)
  BY <1>3 DEF Keys, Value
<1>6. ScanBounds'
  <2> SUFFICES ASSUME NEW d \in Clients
               PROVE  /\ call'[d] = "new" => cookie'[d] = 0
                      /\ call'[d] = "scan" => cookie'[d] < clientSize'[d]
    BY DEF ScanBounds
  <2>1. CASE d = c
    BY <1>1, <1>2, <1>3, <1>4, <2>1
  <2>2. CASE d # c
    BY <1>3, <1>4, <2>2 DEF SlotsInv, ScanBounds
  <2> QED BY <2>1, <2>2
<1>7. ASSUME ~overlapped'
      PROVE  OneRegistering' /\ ScanFinds' /\ AssignsFree'
  <2>1. ~overlapped /\ \A d \in Clients : ~Registering(d)
    BY <1>7 DEF SetTvServiceCallBack
  <2>2. \A d \in Clients \ {c} : call'[d] \notin {"scan", "assign"}
    BY <1>4, <2>1 DEF Registering
  <2>3. OneRegistering'
    BY <2>2 DEF OneRegistering, Registering
  <2>4. AssignsFree'
    <3>1. Size = 0 => Value(cookie[c]) = NULL
      BY <1>1 DEF Value
    <3> QED BY <1>3, <1>4, <1>5, <2>2, <3>1 DEF AssignsFree
  <2>5. ASSUME Size # 0, \A j \in 0 .. Size - 1 : Value(j) # NULL, NEW k \in Keys, k >= Size
        PROVE  FALSE
    <3>1. \A j \in 0 .. Size - 1 : j \in Keys
      BY <2>5 DEF Value
    <3>2. k < Size
      BY <1>2, <3>1, FullMapIsDense
    <3>3. k \in Nat
      BY <1>2, <2>5 DEF TypeOK
    <3> QED BY <1>1, <2>5, <3>2, <3>3
  <2>6. ScanFinds'
    <3> SUFFICES ASSUME call'[c] = "scan"
                 PROVE  \/ \E j \in cookie'[c] .. clientSize'[c] - 1 : Value(j)' = NULL
                        \/ \A k \in Keys' : k >= clientSize'[c] => Value(k)' = NULL
      BY <2>2 DEF ScanFinds
    <3>1. cookie'[c] = 0 /\ clientSize'[c] = Size /\ Size # 0
      BY <1>2, <1>3, <1>4
    <3> QED BY <1>5, <2>5, <3>1
  <2> QED BY <2>3, <2>4, <2>6
<1>8. NeverEvicted'
  <2> SUFFICES ASSUME ~overlapped', NEW d \in Clients, call'[d] \in {"registered", "dead"}
               PROVE  HoldsSlot(d)'
    BY DEF NeverEvicted
  <2>1. ~overlapped /\ d # c /\ call[d] \in {"registered", "dead"}
    <3>1. ~overlapped
      BY DEF SetTvServiceCallBack
    <3>2. d # c
      BY <1>4
    <3> QED BY <1>4, <3>1, <3>2
  <2> QED BY <1>3, <2>1 DEF SlotsInv, NeverEvicted, HoldsSlot, Keys
<1> QED BY <1>6, <1>7, <1>8 DEF SlotsInv

\* A round of the scan stops at a free slot, or has one left ahead.
LEMMA SlotsScan ==
    ASSUME SlotsInv, TypeOK', NEW c \in Clients, ScanSlot(c)
    PROVE  SlotsInv'
<1> DEFINE i == cookie[c]
           s == clientSize[c]
<1>1. TypeOK /\ i \in Nat /\ s \in Nat /\ i < s /\ call[c] = "scan"
  BY DEF SlotsInv, TypeOK, ScanBounds, ScanSlot
<1>2. \A k : Value(k)' = Value(k)
  BY <1>1, TouchEffect DEF ScanSlot
<1>3. UNCHANGED <<clientSize, overlapped>>
  BY DEF ScanSlot
<1>4. \A d \in Clients \ {c} : call'[d] = call[d] /\ cookie'[d] = cookie[d]
  BY <1>1 DEF ScanSlot, TypeOK
<1>5. \/ Value(i) = NULL /\ call'[c] = "assign" /\ cookie'[c] = i
      \/ Value(i) # NULL /\ cookie'[c] = i + 1 /\ i + 1 = s /\ call'[c] = "assign"
      \/ Value(i) # NULL /\ cookie'[c] = i + 1 /\ i + 1 # s /\ call'[c] = "scan"
  BY <1>1 DEF ScanSlot, TypeOK
<1>6. ScanBounds'
  <2> SUFFICES ASSUME NEW d \in Clients
               PROVE  /\ call'[d] = "new" => cookie'[d] = 0
                      /\ call'[d] = "scan" => cookie'[d] < clientSize'[d]
    BY DEF ScanBounds
  <2>1. CASE d = c
    BY <1>1, <1>3, <1>5, <2>1
  <2>2. CASE d # c
    BY <1>3, <1>4, <2>2 DEF SlotsInv, ScanBounds
  <2> QED BY <2>1, <2>2
<1>7. ASSUME ~overlapped' PROVE OneRegistering' /\ ScanFinds' /\ AssignsFree'
  <2>1. OneRegistering /\ ScanFinds /\ AssignsFree
    BY <1>3, <1>7 DEF SlotsInv
  <2>2. \A d \in Clients \ {c} : call'[d] \notin {"scan", "assign"}
    BY <1>1, <1>4, <2>1 DEF OneRegistering, Registering
  <2>3. OneRegistering'
    BY <2>2 DEF OneRegistering, Registering
  <2>4. \/ \E j \in i .. s - 1 : Value(j) = NULL
        \/ \A k \in Keys : k >= s => Value(k) = NULL
    BY <1>1, <2>1 DEF ScanFinds
  <2>5. ASSUME Value(i) # NULL
        PROVE  \/ \E j \in i + 1 .. s - 1 : Value(j) = NULL
               \/ \A k : k \in Nat /\ k >= s => Value(k) = NULL
    <3>1. CASE \E j \in i .. s - 1 : Value(j) = NULL
      <4>1. PICK j \in i .. s - 1 : Value(j) = NULL
        BY <3>1
      <4>2. j \in i + 1 .. s - 1
        BY <1>1, <2>5, <4>1
      <4> QED BY <4>1, <4>2
    <3>2. CASE \A k \in Keys : k >= s => Value(k) = NULL
      BY <3>2 DEF Value
    <3> QED BY <2>4, <3>1, <3>2
  <2>6. AssignsFree'
    <3>1. CASE Value(i) = NULL
      BY <1>2, <1>5, <2>2, <3>1 DEF AssignsFree
    <3>2. CASE Value(i) # NULL /\ i + 1 = s
      <4>1. Value(s) = NULL
        BY <1>1, <2>5, <3>2
      <4> QED BY <1>2, <1>5, <2>2, <3>2, <4>1 DEF AssignsFree
    <3>3. CASE Value(i) # NULL /\ i + 1 # s
      BY <1>5, <2>2, <3>3 DEF AssignsFree
    <3> QED BY <3>1, <3>2, <3>3
  <2>7. ScanFinds'
    <3> SUFFICES ASSUME call'[c] = "scan"
                 PROVE  \/ \E j \in cookie'[c] .. clientSize'[c] - 1 : Value(j)' = NULL
                        \/ \A k \in Keys' : k >= clientSize'[c] => Value(k)' = NULL
      BY <2>2 DEF ScanFinds
    <3>1. Value(i) # NULL /\ cookie'[c] = i + 1 /\ clientSize'[c] = s
      BY <1>3, <1>5
    <3>2. Keys' \subseteq Nat
      BY DEF TypeOK
    <3> QED BY <1>2, <2>5, <3>1, <3>2
  <2> QED BY <2>3, <2>6, <2>7
<1>8. NeverEvicted'
  <2> SUFFICES ASSUME ~overlapped', NEW d \in Clients, call'[d] \in {"registered", "dead"}
               PROVE  HoldsSlot(d)'
    BY DEF NeverEvicted
  <2>1. ~overlapped /\ d # c /\ call[d] \in {"registered", "dead"}
    <3>1. d # c
      BY <1>5
    <3> QED BY <1>3, <1>4, <3>1
  <2>2. Value(cookie[d]) = d
    BY <2>1, HoldsValue DEF SlotsInv, NeverEvicted
  <2>3. Value(cookie[d])' = d
    BY <1>2, <1>4, <2>1, <2>2
  <2> QED BY <2>3, ClientsAssumption DEF HoldsSlot, Value
<1> QED BY <1>6, <1>7, <1>8 DEF SlotsInv

\* A free slot is assigned: nobody else's is.
LEMMA SlotsAssign ==
    ASSUME SlotsInv, TypeOK', NEW c \in Clients, AssignSlot(c)
    PROVE  SlotsInv'
<1> DEFINE i == cookie[c]
<1>1. TypeOK /\ i \in Nat /\ call[c] = "assign"
  BY DEF SlotsInv, TypeOK, AssignSlot
<1>2. \A k : Value(k)' = IF k = i THEN c ELSE Value(k)
  BY <1>1, PutEffect DEF AssignSlot
<1>3. UNCHANGED <<clientSize, cookie, overlapped>>
  BY DEF AssignSlot
<1>4. call'[c] = "registered" /\ \A d \in Clients \ {c} : call'[d] = call[d]
  BY <1>1 DEF AssignSlot, TypeOK
<1>5. ScanBounds'
  BY <1>3, <1>4 DEF SlotsInv, ScanBounds
<1>6. ASSUME ~overlapped' PROVE OneRegistering' /\ ScanFinds' /\ AssignsFree'
  <2>1. \A d \in Clients : call'[d] \notin {"scan", "assign"}
    BY <1>1, <1>3, <1>4, <1>6 DEF SlotsInv, OneRegistering, Registering
  <2> QED BY <2>1 DEF OneRegistering, Registering, ScanFinds, AssignsFree
<1>7. NeverEvicted'
  <2> SUFFICES ASSUME ~overlapped', NEW d \in Clients, call'[d] \in {"registered", "dead"}
               PROVE  HoldsSlot(d)'
    BY DEF NeverEvicted
  <2>1. Value(cookie[d])' = d
    <3>1. CASE d = c
      BY <1>2, <1>3, <3>1
    <3>2. CASE d # c
      <4>1. Value(cookie[d]) = d
        BY <1>3, <1>4, <3>2, HoldsValue DEF SlotsInv, NeverEvicted
      <4>2. Value(i) = NULL
        BY <1>1, <1>3 DEF SlotsInv, AssignsFree
      <4>3. cookie[d] # i
        BY <4>1, <4>2, ClientsAssumption
      <4> QED BY <1>2, <1>3, <4>1, <4>3
    <3> QED BY <3>1, <3>2
  <2> QED BY <2>1, ClientsAssumption DEF HoldsSlot, Value
<1> QED BY <1>5, <1>6, <1>7 DEF SlotsInv

\* A removal erases the client's own slot.
LEMMA SlotsRemove ==
    ASSUME SlotsInv, TypeOK', NEW c \in Clients, RemoveTvServiceCallBack(c)
    PROVE  SlotsInv'
<1> DEFINE i == cookie[c]
<1>1. TypeOK /\ i \in Nat /\ call[c] = "registered"
  BY DEF SlotsInv, TypeOK, RemoveTvServiceCallBack
<1>2. (\A k : Value(k)' = IF k = i THEN NULL ELSE Value(k)) /\ Keys' \subseteq Keys
  BY <1>1, EraseEffect DEF RemoveTvServiceCallBack
<1>3. UNCHANGED <<clientSize, cookie, overlapped>>
  BY DEF RemoveTvServiceCallBack
<1>4. call'[c] = "removed" /\ \A d \in Clients \ {c} : call'[d] = call[d]
  BY <1>1 DEF RemoveTvServiceCallBack, TypeOK
<1>5. ScanBounds'
  BY <1>3, <1>4 DEF SlotsInv, ScanBounds
<1>6. ASSUME ~overlapped' PROVE OneRegistering' /\ ScanFinds' /\ AssignsFree'
  <2>1. OneRegistering /\ ScanFinds /\ AssignsFree
    BY <1>3, <1>6 DEF SlotsInv
  <2>2. OneRegistering'
    BY <1>4, <2>1 DEF OneRegistering, Registering
  <2>3. AssignsFree'
    BY <1>2, <1>3, <1>4, <2>1 DEF AssignsFree
  <2>4. ScanFinds'
    <3> SUFFICES ASSUME NEW d \in Clients, call'[d] = "scan"
                 PROVE  \/ \E j \in cookie'[d] .. clientSize'[d] - 1 : Value(j)' = NULL
                        \/ \A k \in Keys' : k >= clientSize'[d] => Value(k)' = NULL
      BY DEF ScanFinds
    <3>1. d # c /\ call[d] = "scan"
      BY <1>4
    <3> QED BY <1>2, <1>3, <2>1, <3>1 DEF ScanFinds
  <2> QED BY <2>2, <2>3, <2>4
<1>7. NeverEvicted'
  <2> SUFFICES ASSUME ~overlapped', NEW d \in Clients, call'[d] \in {"registered", "dead"}
               PROVE  HoldsSlot(d)'
    BY DEF NeverEvicted
  <2>1. d # c /\ Value(cookie[d]) = d /\ Value(i) = c
    BY <1>1, <1>3, <1>4, HoldsValue DEF SlotsInv, NeverEvicted
  <2>2. Value(cookie[d])' = d
    BY <1>2, <1>3, <2>1
  <2> QED BY <2>2, ClientsAssumption DEF HoldsSlot, Value
<1> QED BY <1>5, <1>6, <1>7 DEF SlotsInv

\* Each step keeps the slots apart, as long as registrations do not overlap.
LEMMA SlotsNext == SlotsInv /\ [Next]_vars => SlotsInv'
<1> SUFFICES ASSUME SlotsInv, [Next]_vars, TypeOK' PROVE SlotsInv'
  BY TypeNext DEF SlotsInv
<1>1. CASE UNCHANGED vars
  BY <1>1, SlotsFrame DEF vars, registryVars, Value, Keys
<1>2. CASE SendEvent
  BY <1>2, SlotsFrame DEF SendEvent, registryVars, Value, Keys
<1>3. CASE SenderStep
  <2>1. sender.index \in Nat /\ TypeOK
    BY DEF SlotsInv, TypeOK
  <2>2. \A k : Value(k)' = Value(k)
    BY <1>3, <2>1, TouchEffect DEF SenderStep, TestCallback, Transact
  <2> QED BY <1>3, <2>2, SlotsFrame DEF SenderStep, TestCallback, Transact
<1>4. ASSUME NEW c \in Clients, ClientDies(c) PROVE SlotsInv'
  <2>1. \A d \in Clients :
           /\ call'[d] = call[d] \/ (call[d] = "registered" /\ call'[d] = "dead")
           /\ call'[d] \in {"scan", "assign", "new"} <=> call[d] \in {"scan", "assign", "new"}
    BY <1>4 DEF ClientDies, SlotsInv, TypeOK
  <2>2. UNCHANGED <<mTvServiceCallBack, clientSize, cookie, overlapped>>
    BY <1>4 DEF ClientDies
  <2> QED BY <2>1, <2>2 DEF SlotsInv, ScanBounds, OneRegistering, Registering, ScanFinds,
                            AssignsFree, NeverEvicted, HoldsSlot, Value, Keys
<1> QED
  BY <1>1, <1>2, <1>3, <1>4, SlotsSet, SlotsScan, SlotsAssign, SlotsRemove
  DEF Next, ClientStep

\* As long as no two registrations overlap, a registered client holds the slot it
\* was told until it gives it back.
THEOREM RegistrationKept == Spec => []NeverEvicted
<1>1. SlotsInv => NeverEvicted
  BY DEF SlotsInv
<1> QED BY <1>1, SlotsInit, SlotsNext, PTL DEF Spec

-----------------------------------------------------------------------------

\* What makes a slot that is read free, and one that is given, an identifier.
RegistryInv == SlotsInv /\ (~overlapped => HoldersRegistered /\ PassedSlots /\ FewKeys)

\* A binder's registration is what is read at its key.
LEMMA RegistrationIsValue ==
    /\ \A k : k \in DOMAIN Registration <=> Value(k) # NULL
    /\ \A k \in DOMAIN Registration : Registration[k] = Value(k)
BY DEF Registration, Value

\* The holders of the slots, by what is read at them.
LEMMA HoldersByValue ==
    HoldersRegistered <=>
        \A k : Value(k) # NULL => call[Value(k)] \in {"registered", "dead"} /\ cookie[Value(k)] = k
BY RegistrationIsValue DEF HoldersRegistered

\* A scan has passed fewer slots than there are clients: each was given to
\* another client.
LEMMA FewSlotsPassed ==
    ASSUME TypeOK, PassedSlots, NEW c \in Clients, Registering(c)
    PROVE  cookie[c] < Cardinality(Clients)
<1> DEFINE given(d, j) == call[d] \in {"registered", "removed", "dead"} /\ cookie[d] = j
           owner == [j \in 0 .. cookie[c] - 1 |-> CHOOSE d \in Clients : given(d, j)]
<1>1. \A j \in 0 .. cookie[c] - 1 : owner[j] \in Clients /\ given(owner[j], j)
  BY DEF PassedSlots
<1>2. \A j \in 0 .. cookie[c] - 1 : owner[j] # c
  BY <1>1 DEF Registering
<1>3. owner \in Injection(0 .. cookie[c] - 1, Clients \ {c})
  <2>1. owner \in [0 .. cookie[c] - 1 -> Clients \ {c}]
    BY <1>1, <1>2
  <2>2. \A i, j \in 0 .. cookie[c] - 1 : owner[i] = owner[j] => i = j
    BY <1>1
  <2> HIDE DEF owner
  <2> QED BY <2>1, <2>2 DEF Injection, IsInjective
<1> HIDE DEF given, owner
<1>4. IsFiniteSet(Clients \ {c}) /\ Cardinality(Clients \ {c}) = Cardinality(Clients) - 1
  BY ClientsAssumption, FS_RemoveElement
<1>5. Cardinality(0 .. cookie[c] - 1) <= Cardinality(Clients \ {c})
  BY <1>3, <1>4, FS_Injection
<1>6. cookie[c] \in Nat /\ Cardinality(Clients) \in Nat
  BY ClientsAssumption, FS_CardinalityType DEF TypeOK
<1>7. Cardinality(0 .. cookie[c] - 1) = cookie[c]
  <2>1. \A n \in Nat : Cardinality(0 .. n - 1) = IF 0 > n - 1 THEN 0 ELSE n - 1 - 0 + 1
    BY FS_Interval
  <2>2. Cardinality(0 .. cookie[c] - 1)
          = IF 0 > cookie[c] - 1 THEN 0 ELSE cookie[c] - 1 - 0 + 1
    BY <1>6, <2>1
  <2> QED BY <1>6, <2>2
<1>8. cookie[c] <= Cardinality(Clients) - 1
  BY <1>4, <1>5, <1>7
<1> QED BY <1>6, <1>8

\* Keys below a bound are no more than it.
LEMMA FewKeysSize ==
    ASSUME TypeOK, \A k \in Keys : k < Cardinality(Clients)
    PROVE  Size <= Cardinality(Clients)
<1>1. Cardinality(Clients) \in Nat
  BY ClientsAssumption, FS_CardinalityType
<1>2. Keys \in SUBSET (0 .. Cardinality(Clients) - 1)
  BY <1>1 DEF TypeOK
<1>3. IsFiniteSet(0 .. Cardinality(Clients) - 1)
          /\ Cardinality(0 .. Cardinality(Clients) - 1) = Cardinality(Clients)
  BY <1>1, FS_Interval
<1> QED BY <1>2, <1>3, FS_Subset DEF Size

\* A step that changes nothing that is read at the keys changes no registration.
LEMMA RegistrationFrame ==
    ASSUME \A k : Value(k)' = Value(k) PROVE Registration' = Registration
BY DEF Registration, Value

\* Initially there is no key.
LEMMA RegistryInit == Init => RegistryInv
<1> SUFFICES ASSUME Init PROVE RegistryInv
  OBVIOUS
<1>1. Keys = {} /\ \A k : Value(k) = NULL
  BY DEF Init, Keys, Value
<1>2. Cardinality(Clients) \in Nat
  BY ClientsAssumption, FS_CardinalityType
<1>3. HoldersRegistered /\ PassedSlots /\ FewKeys
  BY <1>1, <1>2, HoldersByValue DEF Init, PassedSlots, FewKeys, Registering
<1> QED BY <1>3, SlotsInit DEF RegistryInv

\* The registered and removed clients keep their identifiers.
LEMMA RegistryClient ==
    ASSUME RegistryInv, SlotsInv', NEW c \in Clients, ClientStep(c), ~overlapped'
    PROVE  HoldersRegistered' /\ PassedSlots' /\ FewKeys'
<1> DEFINE N == Cardinality(Clients)
<1>1. ~overlapped /\ TypeOK /\ HoldersRegistered /\ PassedSlots /\ FewKeys /\ AssignsFree
        /\ OneRegistering /\ NeverEvicted /\ ScanBounds
  <2>1. ~overlapped
    BY DEF ClientStep, SetTvServiceCallBack, ScanSlot, AssignSlot, RemoveTvServiceCallBack, ClientDies
  <2> QED BY <2>1 DEF RegistryInv, SlotsInv
<1>2. N \in Nat /\ sender.size \in Nat
  BY <1>1, ClientsAssumption, FS_CardinalityType DEF TypeOK
<1>3. CASE SetTvServiceCallBack(c)
  <2>1. UNCHANGED <<mTvServiceCallBack, cookie, sender>>
    BY <1>3 DEF SetTvServiceCallBack, senderVars
  <2>2. /\ call[c] = "new" /\ cookie[c] = 0 /\ call'[c] \in {"scan", "assign"}
        /\ \A d \in Clients \ {c} : call'[d] = call[d]
    BY <1>1, <1>3 DEF SetTvServiceCallBack, TypeOK, ScanBounds
  <2>3. \A k : Value(k)' = Value(k) /\ Value(k) # c
    BY <1>1, <2>1, <2>2, HoldersByValue, ClientsAssumption DEF Value, Keys
  <2>4. \A k : Value(k) # NULL => Value(k) \in Clients
    BY <1>1 DEF TypeOK, Value, Keys
  <2>5. HoldersRegistered <=>
            \A k : Value(k) # NULL => call[Value(k)] \in {"registered", "dead"} /\ cookie[Value(k)] = k
    BY HoldersByValue
  <2>6. \A k : Value(k)' # NULL => call'[Value(k)'] \in {"registered", "dead"} /\ cookie'[Value(k)'] = k
    BY <1>1, <2>1, <2>2, <2>3, <2>4, <2>5
  <2>7. HoldersRegistered'
    BY <2>3, <2>6, RegistrationFrame, RegistrationIsValue DEF HoldersRegistered
  <2>8. PassedSlots'
    BY <1>1, <2>1, <2>2 DEF PassedSlots, Registering
  <2>9. FewKeys'
    BY <1>1, <2>1 DEF FewKeys, Keys
  <2> QED BY <2>7, <2>8, <2>9
<1>4. CASE ScanSlot(c)
  <2> DEFINE i == cookie[c]
  <2>1. i \in Nat /\ Registering(c) /\ mTvServiceCallBack' = Touch(i)
    BY <1>1, <1>4 DEF ScanSlot, TypeOK, Registering
  <2>2. Keys' = Keys \cup {i} /\ \A k : Value(k)' = Value(k)
    BY <1>1, <2>1, TouchEffect
  <2>3. i < N
    BY <1>1, <2>1, FewSlotsPassed
  <2>4. FewKeys'
    BY <1>1, <1>4, <2>2, <2>3 DEF FewKeys, ScanSlot, senderVars
  <2>5. /\ call[c] = "scan" /\ call'[c] \in {"scan", "assign"}
        /\ \A d \in Clients \ {c} : call'[d] = call[d] /\ cookie'[d] = cookie[d]
    BY <1>1, <1>4 DEF ScanSlot, TypeOK
  <2>6. \A k : Value(k) # NULL => Value(k) \in Clients \ {c}
    BY <1>1, <2>5, HoldersByValue DEF TypeOK, Value, Keys
  <2>7. \A k \in DOMAIN Registration : Registration[k] \in Clients \ {c}
    BY <2>6, RegistrationIsValue
  <2>8. HoldersRegistered'
    BY <1>1, <2>2, <2>5, <2>7, RegistrationFrame DEF HoldersRegistered
  <2>9. \/ cookie'[c] = i
        \/ cookie'[c] = i + 1 /\ Value(i) # NULL
    BY <1>1, <1>4 DEF ScanSlot, TypeOK
  <2>10. ASSUME NEW d \in Clients, Registering(d)', NEW j \in 0 .. cookie'[d] - 1
         PROVE  \E e \in Clients : call'[e] \in {"registered", "removed", "dead"} /\ cookie'[e] = j
    <3>1. Registering(d)
      BY <2>5, <2>10 DEF Registering
    <3>2. d = c
      BY <1>1, <2>1, <3>1 DEF OneRegistering
    <3>3. CASE j \in 0 .. i - 1
      <4>1. PICK e \in Clients : call[e] \in {"registered", "removed", "dead"} /\ cookie[e] = j
        BY <1>1, <2>1, <3>3 DEF PassedSlots
      <4> QED BY <2>5, <4>1
    <3>4. CASE j \notin 0 .. i - 1
      <4>1. j = i /\ Value(i) # NULL
        BY <2>1, <2>9, <2>10, <3>2, <3>4
      <4>2. Value(i) \in Clients \ {c} /\ call[Value(i)] \in {"registered", "dead"} /\ cookie[Value(i)] = i
        BY <1>1, <2>6, <4>1, HoldersByValue
      <4> QED BY <2>5, <4>1, <4>2
    <3> QED BY <3>3, <3>4
  <2>11. PassedSlots'
    BY <2>10 DEF PassedSlots
  <2> QED BY <2>4, <2>8, <2>11
<1>5. CASE AssignSlot(c)
  <2> DEFINE i == cookie[c]
  <2>1. i \in Nat /\ Registering(c) /\ call[c] = "assign"
    BY <1>1, <1>5 DEF AssignSlot, TypeOK, Registering
  <2>2. Keys' = Keys \cup {i} /\ \A k : Value(k)' = IF k = i THEN c ELSE Value(k)
    BY <1>1, <1>5, <2>1, PutEffect DEF AssignSlot
  <2>3. i < N
    BY <1>1, <2>1, FewSlotsPassed
  <2>4. FewKeys'
    BY <1>1, <1>5, <2>2, <2>3 DEF FewKeys, AssignSlot, senderVars
  <2>5. call'[c] = "registered" /\ (\A d \in Clients \ {c} : call'[d] = call[d]) /\ cookie' = cookie
    BY <1>1, <1>5 DEF AssignSlot, TypeOK
  <2>6. \A k : Value(k) # NULL => Value(k) \in Clients
    BY <1>1 DEF TypeOK, Value, Keys
  <2>7. \A k : Value(k)' # NULL => call'[Value(k)'] \in {"registered", "dead"} /\ cookie'[Value(k)'] = k
    BY <1>1, <2>2, <2>5, <2>6, HoldersByValue
  <2>8. HoldersRegistered'
    BY <2>7 DEF HoldersRegistered, Registration, Value
  <2>9. \A d \in Clients : ~Registering(d)'
    BY <1>1, <2>1, <2>5 DEF OneRegistering, Registering
  <2> QED BY <2>4, <2>8, <2>9 DEF PassedSlots
<1>6. CASE RemoveTvServiceCallBack(c)
  <2> DEFINE i == cookie[c]
  <2>1. Keys' = Keys \ {i} /\ \A k : Value(k)' = IF k = i THEN NULL ELSE Value(k)
    BY <1>1, <1>6, EraseEffect DEF RemoveTvServiceCallBack
  <2>2. /\ call[c] = "registered" /\ call'[c] = "removed" /\ cookie' = cookie /\ sender' = sender
        /\ \A d \in Clients \ {c} : call'[d] = call[d]
    BY <1>1, <1>6 DEF RemoveTvServiceCallBack, TypeOK, senderVars
  <2>3. \A k : Value(k) # NULL => Value(k) \in Clients /\ (k # i => Value(k) # c)
    BY <1>1, HoldersByValue DEF TypeOK, Value, Keys
  <2>4. \A k : Value(k)' # NULL => call'[Value(k)'] \in {"registered", "dead"} /\ cookie'[Value(k)'] = k
    BY <1>1, <2>1, <2>2, <2>3, HoldersByValue
  <2>5. HoldersRegistered'
    BY <2>4 DEF HoldersRegistered, Registration, Value
  <2>6. PassedSlots'
    <3> SUFFICES ASSUME NEW d \in Clients, Registering(d)', NEW j \in 0 .. cookie'[d] - 1
                 PROVE  \E e \in Clients : call'[e] \in {"registered", "removed", "dead"} /\ cookie'[e] = j
      BY DEF PassedSlots
    <3>1. Registering(d)
      BY <2>2 DEF Registering
    <3>2. PICK e \in Clients : call[e] \in {"registered", "removed", "dead"} /\ cookie[e] = j
      BY <1>1, <2>2, <3>1 DEF PassedSlots
    <3> QED BY <2>2, <3>2
  <2> QED BY <1>1, <2>1, <2>2, <2>5, <2>6 DEF FewKeys
<1>7. CASE ClientDies(c)
  <2>1. /\ call[c] = "registered" /\ call'[c] = "dead"
        /\ UNCHANGED <<mTvServiceCallBack, cookie, sender>>
        /\ \A d \in Clients \ {c} : call'[d] = call[d]
    BY <1>1, <1>7 DEF ClientDies, TypeOK, senderVars
  <2>2. \A k \in DOMAIN Registration : Registration[k] \in Clients
    BY <1>1 DEF Registration, TypeOK
  <2>3. Registration' = Registration
    BY <2>1 DEF Registration, Keys
  <2>4. HoldersRegistered'
    BY <1>1, <2>1, <2>2, <2>3 DEF HoldersRegistered
  <2>5. PassedSlots'
    <3> SUFFICES ASSUME NEW d \in Clients, Registering(d)', NEW j \in 0 .. cookie'[d] - 1
                 PROVE  \E e \in Clients : call'[e] \in {"registered", "removed", "dead"} /\ cookie'[e] = j
      BY DEF PassedSlots
    <3>1. Registering(d)
      BY <2>1 DEF Registering
    <3>2. PICK e \in Clients : call[e] \in {"registered", "removed", "dead"} /\ cookie[e] = j
      BY <1>1, <2>1, <3>1 DEF PassedSlots
    <3> QED BY <2>1, <3>2
  <2> QED BY <1>1, <2>1, <2>4, <2>5 DEF FewKeys, Keys
<1> QED BY <1>3, <1>4, <1>5, <1>6, <1>7 DEF ClientStep

\* Each step keeps the registrations those that were given, as long as
\* registrations do not overlap.
LEMMA RegistryNext == RegistryInv /\ SendInv /\ [Next]_vars => RegistryInv'
<1> SUFFICES ASSUME RegistryInv, SendInv, [Next]_vars, SlotsInv', ~overlapped'
             PROVE  HoldersRegistered' /\ PassedSlots' /\ FewKeys'
  BY SlotsNext DEF RegistryInv
<1>1. ASSUME NEW c \in Clients, ClientStep(c)
      PROVE  HoldersRegistered' /\ PassedSlots' /\ FewKeys'
  BY <1>1, RegistryClient
<1>2. CASE SendEvent \/ SenderStep \/ UNCHANGED vars
  <2>1. UNCHANGED <<call, cookie, overlapped>>
    BY <1>2 DEF SendEvent, SenderStep, TestCallback, Transact, vars, registryVars
  <2>2. TypeOK /\ HoldersRegistered /\ PassedSlots /\ FewKeys
    BY <2>1 DEF RegistryInv, SlotsInv
  <2>3. (\A k : Value(k)' = Value(k)) /\ FewKeys'
    <3>1. CASE SendEvent
      <4>1. UNCHANGED mTvServiceCallBack /\ sender'.size = Size
        BY <3>1 DEF SendEvent, registryVars
      <4>2. Size <= Cardinality(Clients)
        BY <2>2, FewKeysSize DEF FewKeys
      <4> QED BY <2>2, <4>1, <4>2 DEF FewKeys, Keys, Value
    <3>2. CASE SenderStep
      <4>1. /\ mTvServiceCallBack' = Touch(sender.index)
            /\ sender.index \in Nat /\ sender.size \in Nat /\ sender.index < sender.size
            /\ sender'.size = sender.size
        BY <2>2, <3>2 DEF SenderStep, TestCallback, Transact, TypeOK, SendInv, SenderBounds, NextIndex
      <4>2. Keys' = Keys \cup {sender.index} /\ \A k : Value(k)' = Value(k)
        BY <2>2, <4>1, TouchEffect
      <4>3. Cardinality(Clients) \in Nat
        BY ClientsAssumption, FS_CardinalityType
      <4> QED BY <2>2, <4>1, <4>2, <4>3 DEF FewKeys
    <3>3. CASE UNCHANGED vars
      BY <2>2, <3>3 DEF vars, registryVars, senderVars, FewKeys, Keys, Value
    <3> QED BY <1>2, <3>1, <3>2, <3>3
  <2> QED BY <2>1, <2>2, <2>3, RegistrationFrame DEF HoldersRegistered, PassedSlots, Registering
<1> QED BY <1>1, <1>2 DEF Next

\* A step of the map is a step of the abstract registry, or changes no
\* registration, as long as registrations do not overlap.
LEMMA RegistryStep ==
    ASSUME RegistryInv, [Next]_vars, ~overlapped'
    PROVE  Registry!Next \/ Registration' = Registration
<1>0. SUFFICES ASSUME \E k : Value(k)' # Value(k) PROVE Registry!Next
  BY RegistrationFrame
<1> DEFINE Reg == Registration
<1>1. TypeOK
  BY DEF RegistryInv, SlotsInv
<1>2. ~(SendEvent \/ SenderStep \/ UNCHANGED vars)
  <2>1. sender.index \in Nat
    BY <1>1 DEF TypeOK
  <2>2. ASSUME SenderStep PROVE \A k : Value(k)' = Value(k)
    BY <1>1, <2>1, <2>2, TouchEffect DEF SenderStep, TestCallback, Transact
  <2> QED BY <1>0, <2>2 DEF SendEvent, vars, registryVars, Value, Keys
<1>3. PICK c \in Clients : ClientStep(c)
  BY <1>2 DEF Next
<1>4. CASE SetTvServiceCallBack(c) \/ ClientDies(c)
  BY <1>0, <1>4 DEF SetTvServiceCallBack, ClientDies, Value, Keys
<1>5. CASE ScanSlot(c)
  <2>1. cookie[c] \in Nat
    BY <1>1 DEF TypeOK
  <2> QED BY <1>0, <1>1, <1>5, <2>1, TouchEffect DEF ScanSlot
<1>6. CASE AssignSlot(c)
  <2> DEFINE id == cookie[c]
  <2>1. ~overlapped /\ call[c] = "assign" /\ Registering(c)
    BY <1>6 DEF AssignSlot, Registering
  <2>2. id \in Nat /\ id < Cardinality(Clients) /\ Value(id) = NULL
    BY <1>1, <2>1, FewSlotsPassed DEF RegistryInv, SlotsInv, AssignsFree, TypeOK
  <2>3. Cardinality(Clients) \in Nat
    BY ClientsAssumption, FS_CardinalityType
  <2>4. id \in (0 .. Cardinality(Clients) - 1) \ DOMAIN Reg
    BY <2>2, <2>3, RegistrationIsValue
  <2>5. Keys' = Keys \cup {id} /\ \A k : Value(k)' = IF k = id THEN c ELSE Value(k)
    BY <1>1, <1>6, <2>2, PutEffect DEF AssignSlot
  <2>6. Reg' = [i \in DOMAIN Reg \cup {id} |-> IF i = id THEN c ELSE Reg[i]]
    <3>1. \A k : k \in DOMAIN Reg' <=> Value(k)' # NULL
      BY DEF Registration, Value
    <3>2. \A k \in DOMAIN Reg' : Reg'[k] = Value(k)'
      BY DEF Registration, Value
    <3>3. DOMAIN Reg' = DOMAIN Reg \cup {id}
      BY <2>5, <3>1, RegistrationIsValue, ClientsAssumption
    <3>4. Reg' = [k \in DOMAIN Reg' |-> Reg'[k]]
      BY DEF Registration
    <3> QED BY <2>5, <3>2, <3>3, <3>4, RegistrationIsValue
  <2> QED BY <2>4, <2>6 DEF Registry!Next, Registry!Register
<1>7. CASE RemoveTvServiceCallBack(c)
  <2> DEFINE id == cookie[c]
  <2>1. ~overlapped /\ call[c] = "registered"
    BY <1>7 DEF RemoveTvServiceCallBack
  <2>2. Value(id) = c
    BY <2>1, HoldsValue DEF RegistryInv, SlotsInv, NeverEvicted
  <2>3. id \in DOMAIN Reg
    BY <2>2, RegistrationIsValue, ClientsAssumption
  <2>4. \A k : Value(k)' = IF k = id THEN NULL ELSE Value(k)
    BY <1>1, <1>7, EraseEffect DEF RemoveTvServiceCallBack
  <2>5. Reg' = [i \in DOMAIN Reg \ {id} |-> Reg[i]]
    <3>1. \A k : k \in DOMAIN Reg' <=> Value(k)' # NULL
      BY DEF Registration, Value
    <3>2. \A k \in DOMAIN Reg' : Reg'[k] = Value(k)'
      BY DEF Registration, Value
    <3>3. DOMAIN Reg' = DOMAIN Reg \ {id}
      BY <2>4, <3>1, RegistrationIsValue
    <3>4. Reg' = [k \in DOMAIN Reg' |-> Reg'[k]]
      BY DEF Registration
    <3> QED BY <2>4, <3>2, <3>3, <3>4, RegistrationIsValue
  <2> QED BY <2>3, <2>5 DEF Registry!Next, Registry!Unregister
<1> QED BY <1>3, <1>4, <1>5, <1>6, <1>7 DEF ClientStep

\* The map implements the abstract registry until two registrations overlap: each
\* gets an identifier nobody holds, and only its removal gives it back.
THEOREM MapImplementsRegistry == Spec => ImplementsRegistry
<1>1. Init => Registry!Init
  BY DEF Init, Registry!Init, Registration, Keys
<1>2. RegistryInv /\ [Next]_vars => [Registry!Next \/ overlapped']_Registration
  BY RegistryStep
<1> QED BY <1>1, <1>2, RegistryInit, RegistryNext, SendInit, SendNext, PTL
        DEF Spec, ImplementsRegistry
=============================================================================

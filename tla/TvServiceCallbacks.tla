-------------------------- MODULE TvServiceCallbacks --------------------------
(***************************************************************************)
(* The callback registry of TvService (src/service/TvService.cpp):         *)
(* SetTvServiceCallBack, RemoveTvServiceCallBack and the loop of the two   *)
(* event senders.                                                          *)
(*                                                                         *)
(* mTvServiceCallBack is a std::map from int to a binder.  None of its     *)
(* users takes a lock: registrations and removals run on the binder        *)
(* threads, one call per client at a time, and the senders on the poll     *)
(* thread.  A step is one access to the map.  map[key] inserts a null      *)
(* binder when the key is missing, also when it is only being read.        *)
(*                                                                         *)
(* Concurrent accesses of a std::map are a data race; the outcomes modelled*)
(* are those in which each access takes effect at once.                    *)
(***************************************************************************)
EXTENDS Naturals, FiniteSets

CONSTANT Clients     \* binders, one for each TvClient ever created

NULL == "NULL"

ASSUME ClientsAssumption == NULL \notin Clients /\ IsFiniteSet(Clients)

VARIABLES
    mTvServiceCallBack,  \* a function on the keys present in the map
    call,        \* per client: where its registration or removal stands
    clientSize,  \* per client: the size SetTvServiceCallBack read
    cookie,      \* per client: the index being scanned, then its identifier
    sender,      \* the poll thread's send loop: its step, size and index
    delivered,   \* the clients called by the current or last send loop
    \* history, read by the properties only
    overlapped,  \* two registrations were once in progress together
    disturbed,   \* a registration or removal stepped during the send loop
    before       \* the map when the send loop began

registryVars == <<mTvServiceCallBack, call, clientSize, cookie, overlapped>>
senderVars   == <<sender, delivered, before>>
vars == <<registryVars, senderVars, disturbed>>

Keys == DOMAIN mTvServiceCallBack
\* Faults: one key too few is counted; only the binders are counted.
OneTooFew == IF Keys = {} THEN 0 ELSE Cardinality(Keys) - 1
BindersOnly == Cardinality({k \in Keys : mTvServiceCallBack[k] # NULL})

Size == Cardinality(Keys)

\* The value of map[key] and the map after reading it.
Value(key) == IF key \in Keys THEN mTvServiceCallBack[key] ELSE NULL
Put(key, binder) ==
    [k \in Keys \cup {key} |-> IF k = key THEN binder ELSE mTvServiceCallBack[k]]
Touch(key) == Put(key, Value(key))

Registering(c) == call[c] \in {"scan", "assign"}
Sending == sender.step # "idle"

\* The service lives until the send loop calls a null binder.
Running == sender.step # "crashed"

Init ==
    /\ mTvServiceCallBack = [k \in {} |-> NULL]
    /\ call = [c \in Clients |-> "new"]
    /\ clientSize = [c \in Clients |-> 0]
    /\ cookie = [c \in Clients |-> 0]
    /\ sender = [step |-> "idle", size |-> 0, index |-> 0]
    /\ delivered = {}
    /\ before = [k \in {} |-> NULL]
    /\ overlapped = FALSE
    /\ disturbed = FALSE

-----------------------------------------------------------------------------

\* SetTvServiceCallBack reads the size; an empty map has nothing to scan.
SetTvServiceCallBack(c) ==
    /\ Running
    /\ call[c] = "new"
    /\ clientSize' = [clientSize EXCEPT ![c] = Size]
    /\ call' = [call EXCEPT ![c] = IF Size = 0 THEN "assign" ELSE "scan"]
    /\ overlapped' = (overlapped \/ \E d \in Clients : Registering(d))
    /\ disturbed' = TRUE
    /\ UNCHANGED <<mTvServiceCallBack, cookie, senderVars>>

\* One round of its loop: a null binder's slot is taken, after the last round
\* the slot is the size that was read.
ScanSlot(c) ==
    /\ Running
    /\ call[c] = "scan"
    /\ mTvServiceCallBack' = Touch(cookie[c])
    /\ IF Value(cookie[c]) = NULL
       THEN call' = [call EXCEPT ![c] = "assign"] /\ UNCHANGED cookie
       ELSE /\ cookie' = [cookie EXCEPT ![c] = @ + 1]
            /\ call' = [call EXCEPT ![c] =
                           IF cookie[c] + 1 = clientSize[c] THEN "assign" ELSE "scan"]
    /\ disturbed' = TRUE
    /\ UNCHANGED <<clientSize, senderVars, overlapped>>

\* The slot is assigned whatever it holds by now, and its key returned.
AssignSlot(c) ==
    /\ Running
    /\ call[c] = "assign"
    /\ mTvServiceCallBack' = Put(cookie[c], c)
    /\ call' = [call EXCEPT ![c] = "registered"]
    /\ disturbed' = TRUE
    /\ UNCHANGED <<clientSize, cookie, senderVars, overlapped>>

\* RemoveTvServiceCallBack: the key is erased, whoever is registered there.
RemoveTvServiceCallBack(c) ==
    /\ Running
    /\ call[c] = "registered"
    /\ mTvServiceCallBack' = [k \in Keys \ {cookie[c]} |-> mTvServiceCallBack[k]]
    /\ call' = [call EXCEPT ![c] = "removed"]
    /\ disturbed' = TRUE
    /\ UNCHANGED <<clientSize, cookie, senderVars, overlapped>>

\* A client process that dies does not call the service, which watches nobody.
ClientDies(c) ==
    /\ call[c] = "registered"
    /\ call' = [call EXCEPT ![c] = "dead"]
    /\ UNCHANGED <<mTvServiceCallBack, clientSize, cookie, senderVars, overlapped, disturbed>>

-----------------------------------------------------------------------------
(***************************************************************************)
(* SendSignalForSourceConnectEvent and SendSignalForSignalDetectEvent: the *)
(* same loop over the keys below the size read at its start.               *)
(***************************************************************************)

\* Fault: every second index is skipped.
SkippingIndex ==
    [step  |-> IF sender.index + 2 >= sender.size THEN "idle" ELSE "test",
     size  |-> sender.size,
     index |-> sender.index + 2]

NextIndex ==
    [step  |-> IF sender.index + 1 = sender.size THEN "idle" ELSE "test",
     size  |-> sender.size,
     index |-> sender.index + 1]

SendEvent ==
    /\ sender.step = "idle"
    /\ sender' = [step |-> IF Size = 0 THEN "idle" ELSE "test", size |-> Size, index |-> 0]
    /\ delivered' = {}
    /\ before' = mTvServiceCallBack
    /\ disturbed' = FALSE
    /\ UNCHANGED registryVars

TestCallback ==
    /\ sender.step = "test"
    /\ mTvServiceCallBack' = Touch(sender.index)
    /\ sender' = IF Value(sender.index) = NULL THEN NextIndex
                 ELSE [sender EXCEPT !.step = "transact"]
    /\ UNCHANGED <<call, clientSize, cookie, overlapped, delivered, before, disturbed>>

\* Fault: a binder is called without being read again.
TransactUnchecked ==
    /\ sender.step = "transact"
    /\ mTvServiceCallBack' = Touch(sender.index)
    /\ sender' = NextIndex
    /\ delivered' = delivered \cup {Value(sender.index)}
    /\ UNCHANGED <<call, clientSize, cookie, overlapped, before, disturbed>>

\* The map is read again for the call; a binder removed since is null now.
Transact ==
    /\ sender.step = "transact"
    /\ mTvServiceCallBack' = Touch(sender.index)
    /\ IF Value(sender.index) = NULL
       THEN sender' = [sender EXCEPT !.step = "crashed"] /\ UNCHANGED delivered
       ELSE sender' = NextIndex /\ delivered' = delivered \cup {Value(sender.index)}
    /\ UNCHANGED <<call, clientSize, cookie, overlapped, before, disturbed>>

SenderStep == TestCallback \/ Transact

ClientStep(c) ==
    \/ SetTvServiceCallBack(c) \/ ScanSlot(c) \/ AssignSlot(c)
    \/ RemoveTvServiceCallBack(c) \/ ClientDies(c)

Next == SendEvent \/ SenderStep \/ \E c \in Clients : ClientStep(c)

Spec == Init /\ [][Next]_vars

\* Events keep coming, and the loop and the calls in progress run on.
FairSpec ==
    /\ Spec
    /\ WF_vars(SendEvent) /\ WF_vars(SenderStep)
    /\ \A c \in Clients : WF_vars(ScanSlot(c) \/ AssignSlot(c))

-----------------------------------------------------------------------------

CallState == {"new", "scan", "assign", "registered", "removed", "dead"}

\* The program's own types; no key is negative, no size exceeds the keys ever
\* created.
TypeOK ==
    /\ Keys \subseteq Nat
    /\ IsFiniteSet(Keys)
    /\ mTvServiceCallBack \in [Keys -> Clients \cup {NULL}]
    /\ call \in [Clients -> CallState]
    /\ clientSize \in [Clients -> Nat]
    /\ cookie \in [Clients -> Nat]
    /\ sender \in [step : {"idle", "test", "transact", "crashed"}, size : Nat, index : Nat]
    /\ delivered \subseteq Clients
    /\ overlapped \in BOOLEAN
    /\ disturbed \in BOOLEAN

\* The bindings of the map that are somebody's registration.
Registration == [k \in {k \in Keys : mTvServiceCallBack[k] # NULL} |-> mTvServiceCallBack[k]]

HoldsSlot(c) == cookie[c] \in Keys /\ mTvServiceCallBack[cookie[c]] = c

\* As long as no two registrations ran at once, a client that registered and
\* did not remove itself holds the slot it was told (TvService.cpp:257-300):
\* no other registration overwrites it and no other removal erases it.
NeverEvicted ==
    ~overlapped => \A c \in Clients : call[c] \in {"registered", "dead"} => HoldsSlot(c)

\* A send loop during which no client registers or leaves calls exactly the
\* clients registered below the size it read, and no null binder
\* (TvService.cpp:72-82, 95-106).
UndisturbedDelivery ==
    ~disturbed =>
        /\ sender.step # "crashed"
        /\ delivered = {before[k] : k \in {k \in DOMAIN before :
                                              k < sender.index /\ before[k] # NULL}}

\* The size counts keys, so a loop can end before the last key and leave a
\* client uncalled (TvService.cpp:69, 92).  It then has inserted a key by
\* reading a hole: the next loop reaches further.
MissedEventFillsHole ==
    (~disturbed /\ sender.step = "idle") =>
        \/ \A k \in DOMAIN Registration : Registration[k] \in delivered
        \/ Size > Cardinality(DOMAIN before)

\* If clients come and go only finitely often and events keep coming, the
\* send loop in the end reaches every registered client, unless it has called
\* a null binder before (TvService.cpp:63-108).
EveryClientReached ==
    <>[](Running => \A k \in DOMAIN Registration : k < Size)

Registry == INSTANCE ClientRegistry
    WITH registered <- Registration, Ids <- 0 .. Cardinality(Clients) - 1

\* As long as no two registrations ran at once the map is the abstract registry:
\* each registration takes an identifier that nobody holds, smaller than the
\* number of clients, only a removal gives one back, and the null binders that
\* reading inserts change no registration (TvService.cpp:257-300).
ImplementsRegistry ==
    Registry!Init /\ [][Registry!Next \/ overlapped']_Registration

-----------------------------------------------------------------------------
(***************************************************************************)
(* What makes the invariants inductive.                                    *)
(***************************************************************************)

\* The registrations in progress are one at most, unless two once overlapped.
OneRegistering ==
    \A c, d \in Clients : Registering(c) /\ Registering(d) => c = d

\* A scan starts at 0, and stays below the size it read.
ScanBounds ==
    \A c \in Clients :
        /\ call[c] = "new" => cookie[c] = 0
        /\ call[c] = "scan" => cookie[c] < clientSize[c]

\* A scan has a free slot ahead, or the slots from the size it read are free.
ScanFinds ==
    \A c \in Clients : call[c] = "scan" =>
        \/ \E j \in cookie[c] .. clientSize[c] - 1 : Value(j) = NULL
        \/ \A k \in Keys : k >= clientSize[c] => Value(k) = NULL

\* Each binder in the map is of a client that was told that key.
HoldersRegistered ==
    \A k \in DOMAIN Registration :
        LET d == Registration[k] IN call[d] \in {"registered", "dead"} /\ cookie[d] = k

\* Every slot a scan has passed was given to a client before.
PassedSlots ==
    \A c \in Clients : Registering(c) => \A j \in 0 .. cookie[c] - 1 :
        \E d \in Clients : call[d] \in {"registered", "removed", "dead"} /\ cookie[d] = j

\* No key, and no size a send loop read, goes beyond the number of clients.
FewKeys ==
    /\ \A k \in Keys : k < Cardinality(Clients)
    /\ sender.size <= Cardinality(Clients)

\* The slot about to be assigned is free.
AssignsFree == \A c \in Clients : call[c] = "assign" => Value(cookie[c]) = NULL

\* While nobody disturbs the send loop the map only gains null binders, at every
\* index passed, and a binder found is still there when it is called.
UndisturbedMap ==
    ~disturbed =>
        /\ DOMAIN before \subseteq Keys
        /\ \A k \in Keys : Value(k) = IF k \in DOMAIN before THEN before[k] ELSE NULL
        /\ sender.size = Cardinality(DOMAIN before)
        /\ sender.index <= sender.size
        /\ \A k \in 0 .. sender.index - 1 : k \in Keys
        /\ sender.step = "idle" => sender.index = sender.size
        /\ sender.step = "transact" => Value(sender.index) # NULL

\* The send loop is within the size it read.
SenderBounds == sender.step \in {"test", "transact"} => sender.index < sender.size

=============================================================================

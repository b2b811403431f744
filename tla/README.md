# aml_tvserver: models and proofs

TLA+ models of `tvservice`, the Amlogic TV input server (`src/service`,
`src/libtv`), and of the client library that talks to it (`src/client`); TLC
runs that check them on small instances; and TLAPS proofs of what matters most
for every instance. `PROJECT.json` lists, per definition, the source lines it
stands for.

## 1. The system

`tvservice` is one process. A client process links `libtvclient`, asks the
binder service "tvservice" for commands (`TvClient::StartTv`, `StopTv`,
`SetEdidVersion`, ...) and registers a binder of its own, through which the
server calls it when a signal or a cable changes.

```
 client process                      tvservice process                     kernel
 +---------------------+   command   +---------------------------------+
 | application thread  | ----------> | binder threads                  |
 |  TvClient (1 per    |             |   TvService::onTransact         |  ioctl  /dev/vdin0
 |  process)           |             |   tvservice_mutex               | ------> /dev/hdmirx0
 |  tvclient_mutex     |             |   CTv -> CTvin, CAmVideo, CVpp, |         /sys/class/...
 | binder thread       |             |          CTvAudio, CHDMIRx      |
 |  onTransact ------- | <---------- | poll thread                     | <------ epoll, edge
 |  observer callback  |   event,    |   CTvDevicesPollDetect          |         triggered
 +---------------------+   waits     |   CTv::onVdinSignalChange       |
                                     |   TvService::onTvEvent          |
                                     +---------------------------------+
```

The two kinds of server thread share CTv's members without a lock:
`tvservice_mutex` serialises commands with each other, not with the poll
thread.

### Components

| component | state | operations | correct when |
|---|---|---|---|
| `CTv` (CTv.cpp) | `mCurrentSource`, `mCurrentSignalInfo`, `mLastScreenMode`, the static EDID versions | `StartTv`, `StopTv`, `SetEdidVersion`, `SetEDIDData`, `onVdinSignalChange` and its handlers, `onSourceConnect` | what it recorded is what the driver has; the picture and the decoder follow the signal; a stop leaves nothing on; events tell the truth |
| `CTvin` (CTvin.cpp) | `mDecoderStarted`, `mSourceInputToPortMap`, lazily opened descriptors | open/close port, start/stop decoder, event ioctls, conversions of inputs and ports, video paths | the flag says what the driver does; the conversions agree on every configuration |
| `CAmVideo`, `CVpp`, `CTvAudio` | descriptors, `patch_handle` | one device write or HAL call each | called in pairs by CTv |
| `CHDMIRxManager` | none (the receiver keeps a register and the blocks) | `HdmiRxEdidDataSwitch`, `HdmiRxEdidVerSwitch`, `UpdataEdidDataWithPort`, ioctl wrappers | each port serves what was set for its input |
| `CTvDevicesPollDetect` | `m_hdmi_status`, `m_avin_status` | `ThreadLoop`, `GetSourceConnectStatus` | the last report of a cable is what a query answers |
| `TvService` registry | `mTvServiceCallBack` | `SetTvServiceCallBack`, `RemoveTvServiceCallBack`, two send loops | a registered client is called until it leaves |
| `TvService` dispatch | `tvservice_mutex`, the position of `strtok` | `ParserTvCommand`, `ParserTvDataCommand` | commands are served one at a time and always; the operation performed is the one the client's call names |
| `TvClient`, `TvClientWrapper` | `mInstance`, `mTvClientObserver`, `tvclient_mutex`, `mpTvClient`, the callbacks | construct, command, receive, release | no deadlock with the server, no event on a missing object, each wrapper told of an event once |
| `CIniFile`, `TvConfigManager` | the lines and sections of the configuration | load, look up, set, save | what was set is read back |
| utilities, entry, demos | none | file, sysfs, log, serial wrappers | - |

### What makes it hard

* Commands and events interleave at every access to CTv's members, to
  `mDecoderStarted` and to the devices (section 3, TvCore).
* The driver's events are edge triggered and their bits collect; a failed read
  or an unexpected combination of bits loses a change.
* The registry is a `std::map` used by three kinds of thread without a lock, and
  its `operator[]` inserts.
* The server calls clients synchronously from the thread that watches the
  devices; a client calls the server from inside such a call.
* A restart of the server forgets EDID versions that the receiver keeps.
* `strtok` keeps one position for the whole process; what keeps the texts of two
  clients apart is `tvservice_mutex`.
* Wrappers share a TvClient that each of them deletes, through statics that no lock
  protects.
* Ports are configurable: two inputs may share one, or have none.

`PROJECT.json` lists 40 hazards of these kinds with their lines.

## 2. Modules

| module | models | built on |
|---|---|---|
| `TvCore` | CTv's commands and signal handling, the decoder, the display | - |
| `MCTvCore` | signals for TLC | TvCore |
| `TvSystem` | the service as its clients see it: TvCore and the registry joined | TvCore, TvServiceCallbacks (INSTANCE) |
| `MCTvSystem` | signals for TLC | TvSystem, MCTvCore |
| `TvServiceCallbacks` | the registry and the send loops, one map access a step | ClientRegistry (implements it) |
| `ClientRegistry` | abstract: identifiers given out and taken back | - |
| `TvClientCalls` | client processes, both mutexes, commands, events, death | - |
| `TvClientWrapper` | the objects of one client process: wrappers, their TvClient, events | - |
| `TvOperations` | what each operation does to the TV and returns: pure operators | - |
| `TvApi` | abstract: each call performed once, at one instant | TvOperations |
| `TvCommands` | the call as text, `strtok`, the two parsers, the reply | TvOperations, TvApi (implements it) |
| `MCTvCommands` | the calls and readings for TLC | TvCommands |
| `TvPollDetect` | the hot-plug thread | - |
| `TvPortMap` | the port map and its conversions: pure operators | - |
| `TvEdid` | EDID versions and blocks across restarts | TvPortMap |
| `MCTvEdid` | configurations and versions for TLC | TvEdid |
| `IniConfig` | the configuration file: load, look up, set, save | - |
| `MCIniConfig` | names, values and files for TLC | IniConfig |
| `TvSystemProofs` | theorems about TvCore: types and bounds, then the view and the picture; then those about the composition | TvSystem (and through it TvCore) |
| other `*Proofs` | theorems about TvServiceCallbacks, TvClientCalls, TvClientWrapper, TvCommands, TvPollDetect, TvEdid, IniConfig | the module each is named for |

The parts meet at four interfaces. (1) TvSystem composes TvCore with
TvServiceCallbacks where a handler sends its event. (2) TvPollDetect's
`HandleVdin` is TvCore's `PollWake`; each of the two lets the other's part happen
at any time. (3) A command is one critical section under `tvservice_mutex` in
TvClientCalls, one step on the TV in TvCommands (`Execute`), and TvCore models
what goes on inside it: clients are kept apart by the mutex, so that for them an
operation is one step, and only the poll thread sees its parts. (4) TvPollDetect
names an input by device and port; TvPortMap's `ChipHdmiPortMaptoSourceInput` is
the naming used there.

### TvCore

Two threads, `pc["cmd"]` and `pc["poll"]`. A step is one access to something the
other thread or the driver can touch: `StopDecoderTest`, `StopDecoderIoctl` and
`StopDecoderFlag` are the three accesses of `Tvin_StopDecoder`. `SetInfoFmt` and
`SetInfoStatus` split the assignment of `mCurrentSignalInfo` in two, as the
field-by-field copies in the code allow; `EventSource`, `EventFmt` and
`EventStatus` read the event's fields one by one; `ReadSourceType`, `CheckStatus`,
`CompareField` and `needSnowEffect` are reads of a shared member that are not part
of the step before them. Two places are coarser, because nothing can tell the
difference: the status and the fields assigned after it, and the tests of the status
in `onSigStatusChange`, between which only StopTv's NULL can be written. The driver
is external:

* a port that is closed or has just been opened reports status NULL;
* a change of status or format raises the STS bit, else HDR or AFD; the bits
  collect until `G_EVENT_INFO` reads and clears them; a change wakes epoll once;
* the decoder runs from START_DEC to STOP_DEC; closing the port does not stop it.

`MayFail` names the driver calls that can return an error. Five history
variables record what the properties have to know: `overlapped`, `stopFailed`,
`halted`, `quietStop`, `lost`. The three sysfs files of A/V sync that `StartTv`
writes are fields of `display` that nothing reads. Left out: the copy in
`mTvinParam.info`, the lazy opening of descriptors; the getters and
`mVdinWorkMode` (written, never used) are in TvOperations. A command that a client's callback sends is executed
by the waiting poll thread (binder nests it there): for TvCore it is a command
that runs while `pc["poll"] = "sendEvent"`, which the interleavings contain;
TvClientCalls has the nesting itself.

### TvServiceCallbacks, ClientRegistry

`mTvServiceCallBack` is a function on the keys present. `Touch` is what reading
`map[key]` does: it inserts a null binder. A registration is
`SetTvServiceCallBack` (reads the size), `ScanSlot` per round, `AssignSlot`; a
send loop is `SendEvent` (reads the size), then `TestCallback` and `Transact`.
Concurrent use of a `std::map` is a data race; the outcomes modelled are those
in which each access takes effect at once, so a corrupted tree is outside the
model. A null binder called ends the service (`sender.step = "crashed"`).
`Registry!Spec` is the promise: identifiers are held by one client at a time.

### TvSystem

`SystemSpec` has TvCore's variables and, through `Service == INSTANCE
TvServiceCallbacks`, the registry's. `TvStep` is a step of CTv other than the end
of `sendTvEvent`; `sendTvEvent` starts the send loop, `CallClients` tests and calls
a binder, `onTvEventReturns` ends the loop and the handler. Registrations,
removals, deaths, commands and the driver go on meanwhile; a null binder called
stops everything. History: `told` (what each client was last called with),
`missed` (registered clients the last loop did not call) and `early` (the event's
source was read between OpenPort and the assignment of `mCurrentSource`).

### TvClientCalls

Per client process the application thread (`app`), the handling of an event
(`binder`) and `tvclient_mutex`; in the server `tvservice_mutex` and the send
loop. `HandleObserved` lets a callback return, send a command, or release its
own client. `Kill` ends a process anywhere; a command it has sent is still
executed.

### TvClientWrapper

Application threads call `TvClientWrapper::GetInstance` and release; the binder
thread hands events to `TvClient::mTvClientObserver`. Each access to `mInstance`,
to the observers and to a wrapper's `mEventCallbackFunc` (uninitialised until it is
set) is a step. A TvClient is named by the thread that created it, so that two
created by a race, or one deleted while others point to it, are told apart;
`fault` names the null, dangling or uninitialised pointer whose use ended the
process.

### TvOperations, TvApi, TvCommands

An operation of TvOperations is the set of its outcomes: a new TV and a return
value per way its device calls can go. TvApi is the promise of the client
library: between call and return the operation of that name is performed once,
or -1 is returned because the service is gone, whether or not it was performed.
TvCommands is what the code does: `Text(c)` is what TvClient formats, a sequence
of fields with enumerators for their numbers; `Enter` takes the mutex and gives
the text to `strtok`; `TakeField` is one further call of `strtok`, in the cases
`WantsMore` lists; `Operation` dispatches on the fields as the parsers do; then
`Reply`, or `TransactFails` when the service was killed. `strtok` is one variable
for all threads. `get`'s HDMI_EDID_DATA_GET, which the dispatcher does not know,
and the zeroed structures that failed queries answer from are in the outcomes.

### TvPollDetect

`ThreadLoop` in eight actions: two reads before the loop, `Wait`, a read and a
comparison per device, the vdin turn. A cable may change between any two.
`Openings` gives the sets of devices the constructor may have opened; `MayFail` names
the devices whose read may fail. A failed HDMI read leaves the local at 0. A failed
AV-in read leaves the array `status[2]` uninitialised: `status` is the set of entries
each place may hold, any channel (0 stands for a number that is none) with any
state, and `CompareAvin` picks one. The report then goes to the channel of the
entry, or to source -1, while the state is kept at the place of the array: the
history variable `misled` holds the sources for which the two differ, until their
own place is reported again. That a good reading names channel i at place i is
assumed of the driver. The query is one whose own read succeeds.

### TvPortMap, TvEdid

`LoadSourceInputToPortMap(config)` is the map for a configuration, given by the
keys it has. `ConnectQueryReads` is the device or port bit that the connection query
of an input reads: the bit of its port for the HDMI inputs only. EDID versions are sets of one bits, so that the shifted sum is a
union; the ports' four-bit groups are read back with `Nibble`. `Start` is
`LoadEdidData`, `Die` the end of the process at any time; the receiver keeps its
register. The three EDID files hold six blocks for the first three ports.

### IniConfig

The lines in memory, the file, and the death of the process at any time. A text
is a short sequence of characters, because the behaviour worth checking lies in
them: names are compared over the length of the name looked for, "#", "[" and
"]" anywhere decide what a line is when it is read again, and an overwritten
line keeps its value pointer (`Value` reads the C string there, which may be
what an earlier, longer text left in the buffer). `SaveToFile` ends with all
lines, with the old file (it did not open), or with any first part. A line that is
read has its value behind its first "=" (`NewLine`), a new one behind its key
(`NewKeyLine`). `allTrim` is given by what it returns: the n-th character is the
n-th that is no blank. A load whose file does not open leaves no lines, and the
next save writes what is set since over the file. `LINE.Text` has
`MAX_INI_FILE_LINE_LEN` characters, and nothing keeps `sprintf` from leaving it:
`LengthAssumption` says that the files, names and values fit, with the line end and
the NUL, and the model covers those; what a longer text does is undefined. The
service only reads its configuration; setting is what the library offers.

## 3. Runs

| run | question | bounds, and why they do |
|---|---|---|
| `core_stop` | Is the decoder flag right; does StopTv leave nothing running; do events tell the status they are sent for; is a lasting signal recorded? | One input, three signals (stable, unstable, not supported), STOP_DEC, START_DEC, G_SIG_INFO and G_EVENT_INFO may fail. Two threads are all there are; every handler but the no-signal ones runs. 903,042 states. |
| `core_view` | Does the recorded signal agree with the driver's when settled? | Stable signals that differ in HDR or aspect ratio, so that the single-field handlers and combined bits occur; OPEN, CLOSE and both reads may fail. |
| `core_display` | Do picture, snow and decoder follow the signal when inputs are switched? | Tuner with snow and one HDMI input, a signal that is shown, one that is refused, and none: switching inputs needs two, only the tuner has snow, and these three statuses end in four different handlers. 2,766,088 states. |
| `core_edid` | The same with `SetEdidVersion`, which stops the decoder | One HDMI input, signals of three statuses (stable, unstable, not supported), two versions, START_DEC and the write of the versions may fail: which input the version is set for makes no difference to the decoder. 1,144,380 states. |
| `callbacks` | What does the unlocked registry still guarantee, and does it implement ClientRegistry until registrations overlap? | Three clients: two that overlap and one they evict, or a hole in the middle with keys on both sides. |
| `client_calls` | Can clients, callbacks and deaths block the service? | Two clients, so that one can be stuck while the other needs the service. |
| `poll` | Do reports match queries when reads fail, and is every outdated report followed by a right one? | Two AV-in channels, so that an entry can name the wrong one of two, or two HDMI ports, so that a round can be disturbed between them; reads of both may fail and the uninitialised array takes every value, with one state that is none of the driver's. AV-in and HDMI are opened one at a time, as when the other does not open: the two share nothing but the order of a batch, and the proofs are for all. 385,344 states. |
| `system` | Do the clients know the signal once all has settled, and does a lasting signal reach them? | Two inputs, a signal that is shown and one that is refused, StartTv, one client that comes, leaves and dies: switching inputs needs two, and what one client is told does not depend on the others but for the registry, whose own run has three. 1.3 million states. |
| `commands` | Does each call do what its name says, once, and is the text written the one taken apart? | Two threads of clients, interchangeable, every function of the library with one HDMI input, two readings that differ in every field, every device call may fail. Two threads are enough to mix two texts. 1,239,712 states. |
| `wrapper` | Where can an event meet a missing object although nothing was released; does each wrapper get it once? | Two application threads, two wrappers each: two threads race in GetInstance, and a second wrapper finds the TvClient of a first. 160,000 states; three threads are out of reach. |
| `edid_commands` | Does the receiver serve what was set? | Two HDMI inputs and an analog one, three versions, two blocks, five configurations: default, permuted, shared, none, an analog input on an HDMI port. |
| `ini_config` | Is what was set read back, now and after a restart, and is nothing else changed? | Two sections, three keys of which one begins another's name (as `tvin.userpet` does `tvin.userpet.reset`), three values, one with "#"; three files; `MaxSets` = 2 settings, any number of restarts and cut saves between them: each property relates one setting to the state it meets, and the files provide the states a longer history would build. The buffer has eight characters, so that the longest line just fits. 119,063 states. |

Each property has a mutant, a plausible bug written beside the definition it
replaces ("Fault: ..."), under which the run finds the property violated.

### What the properties say

* `DecoderFlagTruth`: when no thread is inside a decoder call, `mDecoderStarted`
  is what the driver does, unless two calls once overlapped or a STOP_DEC failed.
  Both exceptions are real behaviours of the code: they are the hazards at
  CTvin.cpp:519 and 528.
* `StoppedClean`: after a StopTv during which no handler ran, port, source,
  recorded signal, picture and decoder are off, and events that arrive later
  leave them so. A StopTv that a handler overlaps guarantees none of this.
* `ViewAgrees`, `DisplayFollowsSignal`: once settled, the recorded signal is the
  driver's and the picture follows it; `lost` lists the ways the code drops a
  change (combined bits, failed reads, a reset of a port that did not close). A
  stable signal is decoded, except after a failed START_DEC or a `SetEdidVersion`
  (`halted`): the code then shows a picture that nothing decodes until the signal
  changes.
* `EventTellsDispatchedStatus`: an event's status is the dispatched one or NULL.
* `SignalEventuallyRecorded`: a signal that stays is recorded in the end, unless the
  change was dropped, or a failed G_EVENT_INFO left it in the driver, where only
  another change wakes the thread for it.
* `ClientsKnowSignal`, `SignalReachesClients`: the promise of the service as a
  whole. Once all has settled, a client that the last send loop called knows the
  driver's status, format and input; a signal that lasts reaches each client that
  stays. The exceptions are named: a change was dropped (`lost`), the loop missed
  the client (`missed`: it registered later, or lies beyond the size read), the
  event's source was read too early (`early`), a port failed to open or close
  (`mCurrentSource` is assigned all the same), or a null binder ended the process.
* `FieldsFound`, `ImplementsApi`: the command texts. The dispatcher never asks
  `strtok` for a field that is not there; each call is performed at one instant
  between call and return, at most once, with that operation's result.
* `FaultsOnlyInConstruction`, `EachWrapperToldOnce`: while nothing has been
  released, an event ends a client process only between the constructor's unlock
  and the assignment of `mInstance`, or before a wrapper that observes already has
  its function; without two threads in `GetInstance` together, each ready wrapper
  is told once.
* `NeverEvicted`, `UndisturbedDelivery`, `MissedEventFillsHole`,
  `EveryClientReached`, `ImplementsRegistry`: what the registry promises, and
  under which absence of overlap. The size counts keys, so after a removal the
  client with the highest key can miss one event; reading the hole repairs it.
* `CrashWindows`: an event crashes a client only between the constructor's
  unlock and the assignment of `mInstance`, or after its TvClient is destroyed.
* `EventsReturn`, `CommandsAnswered`, `ReleasesReturn`: only a callback that
  releases its own client blocks the poll thread; every command that an application
  or a callback sends is executed and answered, also then.
* `ReportsMatchQueries`, `ReportsAreNews`, `ReportsCatchUp`: hot-plug reports. A
  report stays wrong after a failed read, whose wake-up is consumed, and after the
  uninitialised array of a failed AV read has named another channel: the state kept
  for a place is then not the one last reported for its source, and a later good
  read that agrees with what was kept reports nothing.
* `VersionsAgree`, `OtherPortsKeepVersion`, `CustomEdidServed`: EDID and port
  conversions, for inputs alone on their port; `VersionsAgree` once a write
  succeeded since the start.
* `HotplugNamesQueriedInput` (theorem only, it is about the port map alone): the bit
  of a port is read by some query exactly when an HDMI input is mapped to the port
  and no tuner, AV or YPbPr input, which would be the one named, is; and if one
  input alone is mapped to it, an event of the port names that input.
* `ReadsBack`, `OthersKept`, `RestartReadsTheSame`, `CutSaveInventsNothing`: the
  configuration file. The exceptions each states are the code's: the longer key
  found in a shorter one's stead, a new section that takes in the lines before
  all sections, values with characters the format cannot hold, and a line that
  loses the "#", or the "]", that kept it from being a setting when a save is cut.
  A save that is cut otherwise costs settings or the ends of their values, and
  never gives a key a value from elsewhere.

### Fairness

* TvCore: `WF(CommandStep)`, `WF(PollStep)`: a command that holds
  `tvservice_mutex` and the poll thread run on. They wait for the driver, and
  `sendTvEvent` for the clients' callbacks: `SignalEventuallyRecorded` therefore
  assumes clients whose callbacks return, which `EventsReturn` establishes for
  all but those that release themselves in one. New commands and changes of the
  signal are not fair: they need never come.
* TvSystem: the same two, with the poll thread's steps extended by the send loop
  (`FairSystemSpec`); clients and the signal are not fair.
* TvServiceCallbacks: events keep coming (`WF(SendEvent)`), the send loop and
  registrations in progress run on. Registering, leaving and dying are not fair.
* TvClientCalls: threads that can run do (`WF`); the mutexes get `SF`: a
  pthread mutex that comes free again and again is obtained in the end, because
  waiters are queued on its futex. Calls, kills and releases are not fair.
* TvPollDetect: `WF(ThreadLoop)`; the thread is never stopped.

## 4. Proofs

| theorem | says |
|---|---|
| `TypeCorrect` (three modules), `RegistryTypeCorrect`, `PollTypeCorrect`, `EdidTypeCorrect`, `ClientCallTypes`, `CommandsTypeCorrect` | type correctness of the eight models; the last also that the mutex is held exactly between lock and unlock, that of IniConfig that what is read, set and cut fits into `LINE.Text`, and value pointers stay in what was written |
| `DecoderFlagCorrect` | `DecoderFlagTruth` |
| `StopLeavesClean` | `StoppedClean` |
| `EventsTellStatus` | `EventTellsDispatchedStatus` |
| `ViewCorrect`, `DisplayCorrect` | `ViewAgrees`, `DisplayFollowsSignal` |
| `SystemImplementsCore`, `SystemImplementsCallbacks` | the composition implements both of its parts: `SystemSpec => Spec`, `SystemSpec => Service!Spec` |
| `ClientsKnow` | `ClientsKnowSignal` |
| `FieldsAreFound` | `FieldsFound` |
| `CommandsImplementApi` | `ImplementsApi`: TvCommands implements TvApi |
| `MapImplementsRegistry` | `ImplementsRegistry`: the map implements ClientRegistry until two registrations overlap |
| `HotplugNamesInput` | `HotplugNamesQueriedInput`, which no run checks |
| `UndisturbedLoopDelivers`, `HolesAreFilled`, `RegistrationKept` | `UndisturbedDelivery`, `MissedEventFillsHole`, `NeverEvicted` |
| `ReportsAreRight`, `ReportsChange` | `ReportsMatchQueries`, `ReportsAreNews` |
| `ServedVersionsAgree`, `OtherVersionsKept`, `CustomBlocksServed` | `VersionsAgree`, `OtherPortsKeepVersion`, `CustomEdidServed` |
| `EventsCrashOnlyThere` | `CrashWindows` |
| `FaultsOnlyInConstructionAlways`, `EachWrapperToldOnceAlways` | `FaultsOnlyInConstruction`, `EachWrapperToldOnce` |
| `ReadsBackAlways`, `OthersKeptAlways` | `ReadsBack`, `OthersKept` |
| `RestartReadsTheSameAlways`, `CutSaveInventsNothingAlways` | `RestartReadsTheSame`, `CutSaveInventsNothing` |

The assumptions are the modules' named ASSUMEs about their constants (inputs
and signals are of their types, at least one port and channel, versions fit in
four bits, no client is called NULL, files and names are texts that fit into `LINE.Text`, and the names of
sections and keys have none of the characters that mean something in a line,
which TvConfigManager.h shows of all the program uses) and nothing else; TLC evaluates them in
every run.

None of the invariants is inductive as it stands. What had to be added:

* `DecoderFlagTruth`: `DecoderInv` says, for every position inside a decoder
  call, how flag and driver differ, and that without an overlap one thread at
  most is inside.
* `StoppedClean`: `QuietInv`. While a StopTv runs, `StopProgress` says what it
  has switched off so far; afterwards `StopDone` says what is off, and which
  steps a late event can reach: a closed port reports a null signal, so the
  handlers return before they touch anything. `CommandLabels` ties the steps of
  the command thread to its command, and `TempScope` the local copy of the
  signal to the steps that use it.
* `EventTellsDispatchedStatus`: `DispatchInv`. `HandlerLabels` says which handlers
  take which steps of the poll thread; while one runs only a StopTv writes the
  recorded status, so it is the dispatched one or NULL when the event copies it.
* `ViewAgrees`: `ViewInv`. A change of the driver's signal is at each moment in one
  of four places: still a bit (`Unread`), in the thread's copy, half in the record,
  or in the record (`StatusKnown`); otherwise it is in `lost`. `FieldView` says the
  same of the two fields that have bits of their own and that one handler each
  copies.
* `DisplayFollowsSignal`: `DisplayInv`. From `ViewInv` the dispatched handler is the
  one the driver's status calls for (`HandlerOf`); `StableShown`, `RefusedStopped`
  and `AbsentIsSnow` say what it has done by each of its steps, and that commands
  undo none of it without a reset of the port.
* `ClientsKnowSignal`: `KnowInv` with the two above. `SourceView` ties
  `mCurrentSource` to the port, `EventView` the event being filled to the driver's
  signal, `LoopTells` keeps the poll thread in `sendTvEvent` while the loop runs,
  and `ToldView` holds between handlers: a signal to announce is either the one that
  was, or its handler has just been dispatched (`AnnounceNext`), and that handler
  ends only with the end of a send loop.
* `FieldsFound`, `ImplementsApi`: `WordsOfText`. While a thread parses, the words it
  has taken followed by what `strtok` has left are the text of its call, because
  only the holder of the mutex calls `strtok`; the words at `Execute` are then the
  whole text, and the parsers' branch is the operation the call names.
* `ImplementsRegistry`: `PassedSlots` and `FewKeys`, every slot a scan has passed was
  given to another client, so that identifiers stay below the number of clients.
* `NeverEvicted`: `AssignsFree`, the slot about to be assigned is free, which
  needs `ScanFinds`: a scan has a free slot ahead of it, or every key from the
  size it read is free. The second half is the counting argument that a map of n
  keys without a hole below n has no key above, and that a sender can insert
  null binders meanwhile.
* `UndisturbedDelivery`, `MissedEventFillsHole`: `UndisturbedMap`, the map is the
  one the loop started with plus a null binder at every missing index passed.
* `ReportsMatchQueries`: `ToldCompared`, the last report of a source that was not
  misled about is what it was last compared with, and `HdmiFresh` and `AvFresh`, a
  successful reading is of the present cables unless the device has news, in the
  local and then in the member; `NothingTold` and `ReadBefore` for the start.
* `VersionsAgree`: `RegisterInv`, the register is the encoding of all versions;
  the four-bit groups of two ports are disjoint, so an input alone on its port
  reads its own version back.
* `CrashWindows`: the mutex names the thread inside (`MutexNamesHolder`), a
  command in execution is the one its thread waits for, and a client that is not
  constructed is not registered.

* `FaultsOnlyInConstruction`: `ObjectInvariant`, the conjunction of `TypeInv`,
  `ControlInv` (what each step of each thread implies of its locals), `ObjectInv`
  (which TvClient exists, is constructed, is pointed to) and `ObserverInv` (which
  wrapper is in which observer list); a fault can then only come from a pointer
  that a construction in progress has not set.
* `EachWrapperToldOnce`: under `Untouched` (nothing released, no two threads in
  `GetInstance` together) `SingleInv`, one TvClient is all there is; `DistinctInv`,
  no wrapper is twice in its list; `EventInv`, the wrappers told so far are those of
  the part of the list that was passed.
* `TypeOK` of IniConfig: a line's text is bounded by the assumption when it is read
  or set, but its buffer also holds what longer texts left behind; `InText` bounds
  both, and `AllFit` the lines of a file cut at any character.
* `ReadsBack`, `OthersKept` hold of one step, and their proofs are about the
  operators. A lookup is characterised by its result: the least index whose line
  passes the test, and none before (`SectionLookup`, `KeyLookup`, `FoundLookup`).
  `AfterSet` has three cases (`SetInNewSection`, `SetNewKey`, `SetFound`); in each the
  lines before and after are matched by a shift of their indices, and the new line
  is shown not to be found for an unrelated name (`KeptByNewSection`, `KeptByNewKey`,
  `KeptByOverwrite`). Two prefixes of one text are related, which is why only
  unrelated names are safe (`PrefixesRelated`).
* `RestartReadsTheSame`: `RegularInv` and `SavedInv`. A line is `Regular` when its text
  has no blank and its type and value pointer are those reading its text would
  give; without `odd` all lines are, and after a complete save the file read again
  is `Alike` line by line. Files that are alike up to a line tell the same up to it
  (`AlikeFound`).
* `CutSaveInventsNothing`: `RegularInv` and `CutInv`, a file on disk after a cut save is
  a first part of the lines being saved. The whole lines of it are alike; the piece
  of one more is last, so that what is found in it is found in the whole line too,
  and its value begins the value of that line (`PieceIs`, `CutFound`).

Only model-checked: the liveness properties (`SignalEventuallyRecorded`,
`SignalReachesClients`, `EveryClientReached`, `EventsReturn`,
`CommandsAnswered`, `ReleasesReturn`, `ReportsCatchUp`), which this prover
does not reach. Every other property of a passing run is a theorem.

## 5. Plan

Order: what the viewer sees and hears first, then who is told, then the data.

1. Done: `TvCore` and its proofs.
2. Done: `TvServiceCallbacks` with `ClientRegistry`, and its proofs.
3. Done: `TvPollDetect`, `TvPortMap`, `TvEdid`, and their proofs.
4. Done: `TvClientCalls` and its proofs.
5. Done: `IniConfig` and its proofs.
6. Done: the command texts, `TvOperations`, `TvApi`, `TvCommands`, and their proofs.
7. Done: several wrappers over one TvClient, `TvClientWrapper`, and its proofs.
8. Done: `TvSystem`, the composition of TvCore and TvServiceCallbacks, and its
   proofs.
9. Open: an abstract specification of CTv (an input is played or not; its signal
   is shown or not) that TvCore implements in the absence of overlaps.
10. Done: proofs of `ViewAgrees`, `DisplayFollowsSignal`, `ImplementsRegistry`,
    `HotplugNamesQueriedInput`.
11. Open: TvPollDetect joined to TvSystem, so that source and signal events share
    the poll thread's send loop.
12. Perhaps: the video path text of `/sys/class/vfm/map`, if a caller appears.

Abstract specifications worth stating: ClientRegistry and TvApi (done), the playing
abstraction of CTv (9), a configuration store.

## 6. Not modelled

* Video paths (`VDIN_AddPath` and kin): text written to and read from a sysfs
  file, without state in the process; only the constructor adds one path.
* HDCP, CEC, HPD and audio calls of CHDMIRxManager: single ioctls, mostly unused.
* File, sysfs, log and serial wrappers: no state; a failing read or write is a
  choice in the modules that call them. `CSerialPort` is not used.
* `main_tvservice.cpp` and the demos: they start the thread pool, or are clients.
* `SwitchSource` and `SetColorRangeMode`, which nothing calls, and `UnloadConfigFile`,
  which deletes the file object and keeps the pointer: only CTv's destructor calls it.
* What reads the A/V sync files. A comment (CTv.cpp:118) says that DTV needs frame
  sync; `StartTv` writes 0 to tsync's `enable` and `mode` for the other inputs and 0 to
  `freerun_mode`, "do AV sync" (CTv.h:29), for DTV. Whether that gives DTV its sync
  back lies in the kernel.
* Texts longer than `LINE.Text`.
* The characters of command texts (a text is the sequence of its fields), the
  contents of EDID blocks, and log lines.

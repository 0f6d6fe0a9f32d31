# A TLA+ model of netsim

netsim is the daemon that lets Android emulators talk to each other over simulated
radios. Emulators connect to it by packet streams; a frontend (command line, web
page) looks at the scene of devices and changes it; the page is served, and kept up to
date, over HTTP; rootcanal, a library outside this
repository, simulates the Bluetooth controllers. This directory holds TLA+ modules of
its core, the TLC configurations that check them on small instances, and TLAPS proofs
that hold for every value of the constants. `PROJECT.json` ties every definition to the
lines it models and lists runs, mutants, findings, hazards and theorems.

## The system

| Component | State it keeps | Operations | Talks to |
|---|---|---|---|
| Blocking queue (`util/blocking_queue.h`) | `queue`, `stopped`, a mutex and a condition | `Push`, `Stop`, `WaitAndPop`, `Active` | used by both packet transports |
| Packet stream transport, server side (`backend/backend_server_hci_transport.cc`) | `mReading`, `mCloseCallback`, the packet callbacks, `mQueue`, the writer thread | `RegisterCallbacks`, `Transport`, `SendEvent`/`Acl`/`Sco`/`Iso`, `Close`, `Done` | gRPC stream, rootcanal (both directions), blocking queue |
| Backend gRPC server (`backend/backend_server.cc`) | none of its own; one handler thread per stream | `StreamPackets` | transport, chip emulator, scene controller |
| Scene controller (`controller/scene_controller.cc`) | `devices_`, `mutex_` | `Add`, `Copy`, `GetOrCreate`, `RemoveChip`, `UpdateDevice`, `Reset` | devices, notify manager; called by handler, frontend and rootcanal threads |
| Device and chip (`controller/device.cc`, `chip.cc`) | `model`, `chips`; `parent`, `chip_index` | `Update`, `AddChip`, `RemoveChip`, `Reset`; `Init`, `Model`, `KeyComp` | each other, chip emulator |
| Bluetooth chip emulator (`hci/bluetooth_facade.cc`) | `id_to_chip_`, phy indices, rootcanal's test model and event thread | `Start`, `AddHciConnection`, `UpdatePhy`, `BluetoothChip::Update`, `IncrTx`/`IncrRx`, `ComputeRssi` | rootcanal, scene controller |
| Frontend gRPC server (`frontend/frontend_server.cc`) | none | `GetDevices`, `UpdateDevice`, `SetPacketCapture`, `Reset` | scene controller |
| Notify manager (`controller/device_notify_manager.cc`) | registered callbacks, the next id, a mutex | `Register`, `Unregister`, `Notify` | scene controller calls `Notify` under its lock; HTTP sessions register |
| HTTP server (`frontend/http_server.cc`) | one `Session` per connection | the frontend's requests and the long poll `/register-updates`, all on one thread | notify manager, scene controller |
| Rust HTTP server (`rust/netsim-cxx`) | listener, thread pool, router | static files, `/get-version`, `/get-devices` | clients; scene controller through cxx |
| File-descriptor startup (`backend/fd_startup.cc`) | descriptors, reader thread, H4 parser | `Connect`, `StartReader`, `Write`, `Close` | rootcanal, scene controller |
| Discovery and startup (`netsimd.cc`, `core/`, `util/os_utils.cc`, `util/ini_file.cc`, `backend/packet_streamer_client.cc`) | the file `netsim.ini`, daemon processes | find the daemon's port, start a daemon, retry | file system, processes |
| Packet stream transport, client side (`backend/rpc_transport.h`) | queue, two threads, status | `Start`, `Write`, `Finish`, `Await` | gRPC stream |
| Command line tool (`rust/netsim-cli`, `frontend/frontend_client.cc`) | one command | request bytes, `send_grpc`, `print_response` | frontend gRPC server |
| Web page (`ui/ts/device-observer.ts`) | `simulationInfo`, failures of the poll | initial GET, `subscribe` | HTTP server |
| Protocol buffers (`rust/*-proto`) | message objects with cached sizes and unknown fields | accessors, `compute_size`, `write_to_with_cached_sizes`, `merge_from`, `clear` | every request and response |

What is hard here:

* **Threads.** Every stream has a handler thread and a writer thread; rootcanal has an
  event thread; gRPC runs frontend requests on its own threads. The queue reads a flag
  outside its mutex, `Done()` runs on two threads at once, `Device::AddChip` and
  `SceneController::RemoveChip` take no lock although the rest of the scene does.
* **Order and identity.** A device's chips live in two vectors and an index; the radio
  state of a chip lives in the model, in rootcanal's phys and in a sniffer; serials are
  matched by substring in one place and by equality in another.
* **Ends.** A stream ends because the peer half closes or disappears, because a write
  fails, or because rootcanal closes the transport; both threads have to notice.
* **Restarts.** A device reconnects while its old stream is being taken down; a daemon
  crashes and leaves its ports in `netsim.ini`; two clients start two daemons.
* **Time.** A page polls for ever against a server that closes connections after 15
  seconds; a client sleeps between attempts; the Rust server waits for its clients for
  ever.
* **Encodings.** Requests and responses are bytes: defaults are left out, lengths come from
  sizes cached earlier, a peer may be of another version.

## Modules

| Module | Models |
|---|---|
| `StoppableQueue` | What the blocking queue promises: a FIFO queue with atomic operations, empty and closed once stopped |
| `BlockingQueue` | `util::BlockingQueue` step by step; implements `StoppableQueue` |
| `BlockingQueueProofs` | Types, no stranded item, wakeup on stop, refinement |
| `HciTransport` | One packet stream: reader, writer, rootcanal, peer; uses the effects of `StoppableQueue` |
| `HciTransportProofs` | Types, the close report, gap-free delivery |
| `DeviceMap` | What the scene promises those who look at it: a map from serials to devices |
| `SceneController` | Streams, scene, devices, chips, phys and the frontend's requests |
| `MCSceneController` | Serials and requests for TLC |
| `SceneControllerProofs` | Types, unique serials |
| `SceneOrderlyProofs` | What the scene promises where streams of a serial do not overlap, and where they come and go one at a time |
| `SceneRefinementProofs` | Where streams come and go one at a time, the scene implements `DeviceMap` |
| `NetsimProto` | The fields of every message, from its generated Rust code |
| `Protobuf` | The generated code itself, once for all messages |
| `MessageExchange` | A program that builds and writes messages, a peer that merges them and writes them again |
| `NetsimCli`, `MCNetsimCli` | The Rust command line tool, the gRPC client and the frontend it talks to, over the bytes of `Protobuf` |
| `HttpServer`, `MCHttpServer` | The Rust HTTP server: accept loop, thread pool, parser, router |
| `HttpServerProofs` | Types, the lock, order of jobs, no job twice, the right answer |
| `Discovery` | Clients that find or start netsimd, its main function, `netsim.ini` |
| `DiscoveryProofs` | What `netsim.ini` names, why a client gives up |
| `LongPoll` | Notify manager, sessions of the libwebsockets server, subscription loop of the page |
| `LongPollProofs` | Types, the registered callbacks, safety of `Notify`, reasons of answers, when pages give up |

The modules stack: `BlockingQueue` is proved to implement `StoppableQueue`; `HciTransport`
uses that atomic queue for `mQueue`; `SceneController` takes a stream's life in
`HciTransport` as the step `TransportReturns`, and is proved to implement `DeviceMap` where
streams come and go one at a time. `CloseReported` of `HciTransport` is what
justifies that `TransportReturns` takes the rootcanal device out of the phys: rootcanal's
close callback has run when `Transport()` returns.

### BlockingQueue

Each method is its unlocked look at `stopped` (`PushCheck`, `StopCheck`), its critical
section (`PushLocked`, `StopLocked`, `Block`, `PopFalse`, `PopTrue`) and its notification
after the unlock (`NotifyOne`). `condition.wait` gives up the mutex and joins the wait set
in one step; `SpuriousWakeup` is the wakeup nobody asked for. The unlocked read of
`stopped` is a data race on a flag that is set once: the read gives the present value or a
stale FALSE. The two `Push` overloads differ in copy and move only.

### HciTransport

`pc["reader"]` follows the handler thread through `RegisterCallbacks` (called by rootcanal
inside `AddHciConnection`), `Transport` and `Done`; `pc["writer"]` follows `startWriter` and
`Done`. Every line of `Done` is a step, because both threads run it: the test of
`mCloseCallback`, the call, the callback's run and the clearing. Calling the member after
the other thread has cleared it is the call of an empty `std::function`, which ends the
process (`DoneCallEmpty`). Packets to the peer are numbered. The writer is never joined.

Assumed of the code outside: rootcanal's close callback closes the HciDevice, which calls
`Close()`; it does not call `SendEvent` and its like for a device that is closed; gRPC's
`Read` blocks until a packet, the end of the peer's writes or the end of the connection; a
`Write` fails when the connection is gone. A command packet has the two bytes of its
opcode (`packet->at(0)`, `packet->at(1)`).

### SceneController

A stream lives once, and its chip object, its rootcanal device and the `Device` it may
create are named by it. Steps under `mutex_` (`GetOrCreate`, `UpdateDevice`, `Reset`) are
atomic. `Device::AddChip` is two steps, the search for a duplicate and the insertion;
`RemoveChip` is two steps, up to the removal of the chip and the erasure by index. What the
code reads and writes without a lock is taken statement by statement; torn reads of a
vector or a protobuf message are not modelled. An erasure past the end of the vector drops
the last element or ends the process; a chip asked for a model entry it has not, or for a
parent it has not, ends the process. `reply` is the frontend request the last step answered
(properties only read it).

All chips of packet streams have the kind `bt` and the empty `chip_id`, because
`AddHciConnection` builds them so; `RemoveChip` is given the id the peer announced. `info`
keeps of a device's data its name, whether it has moved and whether it is visible.
`DeviceNotifyManager::Notify`, called at the end of `UpdateDevice` and `Reset`, changes
nothing of the scene; it is in `LongPoll`, where the scene is a version number.

`DeviceMap` is the scene without streams, lists, indices and locks: a map from serials to
devices, the radios of the connected ones, and operations that are one step each. The
refinement mapping is `SceneMap` (each device of `devices_` under its serial, with what
`GetDevices` shows of it) and `RadioMap` (the phys and the sniffer of each open stream, under
its serial). `CreateNew` is `Create` of the map, `AddChipInsert` is `Connect`,
`TransportReturns` is `Disconnect`, `RemoveChip` and `Erase` and the frontend's requests are the
operations of their names; `Connect`, `Reject`, `GetExisting` and `AddChipFree` change nothing
that is visible. The map says what the lists are for: a serial has one device, `MatchDevice`
answers for the one serial that contains the text, an update changes model and radios
together, only a device without chip and radio disappears, and no operation touches a second
device.

### NetsimProto, Protobuf, MessageExchange

The Rust code of a message is generated, and differs from that of another message by its
list of fields only. `NetsimProto` has that list for each message (number, name, kind,
nested type or values of the enum, the oneof it is a case of), taken from the message's
`merge_from`, `compute_size` and `write_to_with_cached_sizes`; `Protobuf` has the code.
Objects carry what is easy to get wrong: `cached`, which only `compute_size` sets and
`write_to_with_cached_sizes` trusts, and `unknown`, the fields and enum values of a newer
version. A oneof is one slot; `clear_` of any case empties it, `take_` only of the case it
holds. `-0.0` is left out like `0.0`. Varints, tags, UTF-8 and the order of unknown fields
are the protobuf runtime's, which is not part of the repository.

`MessageExchange` runs accessor calls in any order on any object inside the message, writes
it in between, and has a peer merge one message after another.

### NetsimCli

`Start`, `SendGrpc`, `Serve`, `CallFails` and `PrintResponse` are `rust_main` step by step;
`Gui` is the browser. Requests are the bytes of `get_request_bytes`; `HandleRequest` is the
daemon with such bytes, sent by whichever frontend (the tool's own `send_grpc` panics for
the methods that change the scene). `CountPackets` is `IncrTx`, which takes counts across
the boundary of one-byte varints. The daemon may go at any time: without a port
`NewFrontendClient` has a null stub, later the call fails.

### HttpServer

A client sends a request item by item (request line, headers, end, bytes) and may stop or
close anywhere; what follows the empty line is bytes, not lines. `Accept` is `execute`, with the panic that follows when all workers are
gone. A worker takes the lock (`Lock`), waits in `recv` with it (`Recv`, `Disconnected`),
and gives it up before the job runs. `ParseRequestLine`, `ParseHeader`, `ReadBody` and
`ResizePanics` read what has arrived and block otherwise; `Respond` is the router and
`write_to`. `AcceptFails`, `Join` and `Unwound` are the way out through `drop`. The length of
a vector is bounded by `MaxVec`, which stands for `isize::MAX`. `Files` is the directory
`netsim-ui`; a file's content is named by its URI.

### Discovery

A daemon is named by the ports it listens on. `Check`, `Found`, `NotFound`, `RunFrontendServer`,
`RunBackendServer`, `OpenIni` and `WriteLine` are its main thread, `Bind` the HTTP server's
thread; opening the file for writing empties it and each line is written by itself. `Begin`
to `Wake` are `CreateChannel`. The model has no clock: a daemon is assumed to have started
or ended by the fourth attempt of a client, seven seconds after it was started; the first
three may come too early. `SamePath` says whether reader and writer of the file build the
same path, which they do when the temporary directory ends in a slash. `Torn` is the state of
a `netsim.ini` whose frontend answers and whose backend does not.

### LongPoll

The scene is a version. `Apply`, `NotifyLock`, `CallCallback` and `NotifyUnlock` are
`UpdateDevice` and `Reset` down to one callback, on a gRPC thread or on the service thread
itself; `SilentChange` is what nobody notifies of. The other steps of the service thread are
the reasons of `callback_http`. A `wsi` is memory that is used again as soon as it is free, so
that a callback that outlives its session would reach the next one. `MaxId` stands for
`UINT_MAX`; a poll does not live long enough (15 seconds) for the ids to come round to its
own, which `RegisterUpdates` assumes. `noticed` and `recent` are read by properties and by the
clock of the page: three failures in a second cannot include a timeout. Assumed: libwebsockets
calls `callback_http` on one thread, `lws_callback_on_writable` may be called from another.

## Runs

A run that is expected to fail checks one statement of the repository that the code does not
keep.

| Run | Shows | Bounds |
|---|---|---|
| `queue_one_consumer` | `NoStrandedItem`, `StopWakesWaiter`, `ImplementsStoppableQueue`, `PopReturns` | one consumer that also stops, one other stopper, two producers, two values, no new push on two queued values |
| `transport` | `CloseReported`, `GapFree`, `StreamEnds`, `Delivered` | three packets out, two waiting in |
| `scene_orderly` | `ConnectedListed`, `NothingLeft`, `ImplementsDeviceMap` | three streams, two serials of which one occurs in the other, one handler busy at a time; updates of radios, names, positions |
| `scene_distinct` | `ChipStateApplied`, `ModelReachable`, `OneDeviceUpdated` | the same, three handlers busy, radio and capture updates |
| `scene_concurrent` | `UniqueSerials` | the same, any overlap, chip ids |
| `messages` | `RoundTrip`, `RelayLossless`, `SizeExact`, `MergeOverrides` | all message types, two accessor calls, two messages |
| `cli` | `PrintedIsServed`, `HandledAsMeant` | two devices, all kinds of commands, two changes |
| `http_server` | `ServedOnce`, `StartOrder`, `LockNotLost`, `RightAnswer`, `Answered`, `DropEnds` | three connections, two workers, three mixes of requests |
| `discovery` | `GaveUpWithReason`, `IniNamesDaemon`, `OneDaemonLeft` | two clients, two daemons, one crash |
| `long_poll` | `Registered`, `NotifySafe`, `AnsweredForReason`, `AlertedOnlyWhenDown`, `ChangeShown` | one page and the polls of others, two connections, one gRPC thread, ids that wrap after two, two changes |
| `scene_reconnect` | fails: a reconnecting device vanishes from the scene | two streams, one serial |
| `cli_devices` | fails: a response that is not UTF-8 ends the tool | as `cli` |

Why the bounds are enough to be interesting: a consumer, two producers and two stoppers
are the threads one stream has (the writer pops, rootcanal's threads push, reader and writer
stop). Two queued values make notifications overtake each other; three packets reach the
states with one packet in the writer's hand, one queued and one received. Three streams on
two serials give a device that reconnects while another one comes and goes, so that indices
into `devices_` shift; two serials of which one occurs in the other separate equality from
substring search. Two accessor calls around two writes change an object whose sizes are
cached; texts of 130 bytes, -1 and 300 cross the boundaries of varints. Three connections
on two workers leave one in the channel while both workers are kept waiting, panic or
answer. Two daemons and two clients give the races of start-up, and one crash leaves a
stale file. Two connections are enough for one to be notified while the other closes and
its memory is used again; ids 1 and 2 wrap at the third poll. The bounds are `MaxQueue`,
`MaxSent`, `MaxInbox`, `MaxBusy`, `MaxCalls`, `MaxMerges`, `MaxChanges`, `Size`, `MaxVec`,
`MaxCrashes`, `MaxId` and `MaxVersion`.

`MaxBusy` and `Overlap` say how much of the missing locking a run exercises. With
`MaxBusy = 1` set-ups and tear-downs do not overlap, and the scene keeps its promises
(`scene_orderly`); `scene_distinct` lets those of different serials overlap;
`scene_concurrent` allows everything. `scene_reconnect` shows that the promises of the
orderly case need the lock. Streams of `scene_orderly` are a symmetry set: they are model
values that differ by name only, no property names one, and what is checked is safety. That run
leaves out `SetPacketCapture`, which takes the same path as an update of the capture state
(`scene_distinct` has it): with it the run passes too, on 1.2 million states in five minutes.

Deadlock is checked for the queue and the command line tool. A stream ends, and a stream of
the scene lives once; messages, clients and connections are bounded; a page may be closed.
The other configurations say `CHECK_DEADLOCK FALSE`.

### Fairness

`BlockingQueue!FairSpec`: a thread inside a method and not in the wait set takes its next
step (the operating system schedules it, and critical sections are short). Nothing is
assumed of calls, and no spurious wakeup is promised. `HciTransport!FairSpec`: the two
threads run whenever they are not blocked in `Read` or `WaitAndPop`; rootcanal and the peer
owe nothing, so liveness is claimed only after the peer's end (`StreamEnds`) or up to it
(`Delivered`). `HttpServer!FairSpec`: workers and the dropping thread run, and the kernel
hands over connections; clients owe nothing, so `Answered` speaks of clients that have sent
all or closed, as long as not all workers are kept waiting by others. `Discovery!FairSpec`:
the threads of a daemon run; clients may stop. `LongPoll!FairSpec`: threads run when they are
not blocked, libwebsockets serves every connection that can be written (strongly fair: the
service thread is busy in between), a page handles its responses; no request has to be made
and nothing has to time out. The scene has no liveness property.

### Other observations

Statements of the repository that the models show not to hold, or to hold only under an
assumption, and that have no run of their own:

* **Transport.** `Close` only clears `mReading`, which is tested before the blocking `Read`: with
  a silent peer the handler does not return when rootcanal closes, although `Transport` "Returns
  when the grpc connection closes or the HciTransport closes." `Done` runs rootcanal's close
  callback on the writer thread while the reader may be in a packet callback ("All incoming
  messages to Rootcanal must be single threaded."). The writer is not joined, so it may still
  write when the handler has returned ("stream is closed on return").
* **Scene.** Two handlers that end together erase by an index found earlier and can take out a
  device that has a chip (`EraseOnlyChipless` with `MaxBusy = 3`; with one handler at a time it
  is a theorem, and part of `ImplementsDeviceMap`). A second Bluetooth chip of a
  device is skipped as a duplicate ("Device can have multiple chips of the same kind.",
  `proto/model.proto`). With a chip id other than the empty one, `NothingLeft` fails because the
  chip is removed with an id it was not added with (the code has a TODO for it). An update by
  name only is always refused ("update by id or name", `proto/frontend.proto`), and so is one by
  a full serial that occurs in another device's. Packet capture without a serial ("all devices",
  `cli.cc`) is answered OK and does nothing.
* **Queue.** With two consumers `PopReturns` fails, because `Stop` wakes one of them; every queue
  of the repository has one.
* **Command line.** Without a daemon the stub is null and the call dereferences it. `send_grpc`
  panics for `UpdateDevice`, `SetPacketCapture` and `Reset`, and `print_response` is `todo!()` for
  them.
* **Rust HTTP server.** Silent clients occupy the workers for ever, since nothing times out. It
  has no route `/register-updates`, so a page it serves gets 404 for its polls and gives up. The
  unit test `test_parse_without_content_length` expects a body that `parse` does not read.
* **Discovery.** A second daemon can empty and rewrite `netsim.ini` and then lose the HTTP port:
  the file names a daemon that is gone while the first one serves, and clients give up
  (`GaveUpWithReason` counts this as a failure). It can be worse: if the two write at the same
  time and the second one ends between its lines, or before them, the file keeps the frontend of
  the daemon that serves and no living backend. From then on every daemon a client starts finds
  the frontend and leaves, and every client gives up, for as long as the first daemon lives. This
  takes three clients and three daemons, more than the run has; the proof of `GaveUpWithReason`
  came upon it, and `Torn` names it. Reader and writer build the path of the file
  differently; with `SamePath = FALSE` every client gives up. After the fourth attempt a client
  sleeps eight seconds and gives up without another.
* **Long poll.** A change that is notified after the answer of a poll was computed, or between
  two polls, and any silent change, is not shown before the next notification ("The most updated
  state of the simulation.", `device-observer.ts`); the answer of the initial GET may replace a
  newer one.

## Proofs

Every statement is proved for all values of the constants, from the assumptions named in
the modules, and every `THEOREM` and `LEMMA` down to its last step.

* **`BlockingQueueProofs`** (assumes: finitely many threads, `NoItem` is no item).
  `TypeCorrect`. The inductive invariant `IInv` adds to the types the roles of the threads:
  whoever is inside `Push` holds an item, only a consumer waits or looks. `NoStrandedItemHolds`:
  while a consumer waits, the queue is no longer than the number of threads that notify or
  are about to look; inductive with `IInv`, since a push adds one value and one notifier, and
  a pop takes one value and one looker. It holds for any number of consumers.
  `StopWakesWaiterHolds` is for one consumer, which is what it needs. `Refinement`:
  `Spec => ImplementsStoppableQueue`, with what is queued after `stopped` mapped to nothing
  (a late push on a stale flag is a push on a stopped queue), the steps of `Push`, `Stop` and
  `WaitAndPop` mapped to call, effect and return.
* **`HciTransportProofs`** (assumes: natural bounds). `TypeCorrect`. `CloseReportedHolds`: `CloseInv` says that while the
  callback has not run to its end the member is set, unless nobody has registered yet, and a
  thread that is past the call has run it; so the second thread either finds the member set
  or the callback done. `GapFreeHolds`: the packets received, the one in the writer's hand
  and the queue are, in this order, an interval of the packets sent.
* **`SceneControllerProofs`** (assumes: `None` is no stream, requests carry at most one chip,
  with states that exist). `TypeCorrect` needs `Shape`: a handler that adds its chip holds a
  device, one that erases has an index of at least one, a device has as many chips as model
  entries. `UniqueSerialsHolds` adds `Entered`: the stream that created a device of the scene
  has connected, so its serial no longer changes. Removing an element, at whatever index,
  maps the new scene injectively into the old one.
* **`SceneOrderlyProofs`** (assumes in addition, in each theorem: `NoOverlap`, that a device
  reconnects only when its old stream has ended and that streams announce no chip id; the code
  guarantees neither, and `scene_reconnect` shows what happens without the first).
  `ModelReachableHolds`, `ChipStateAppliedHolds` and `OneDeviceUpdatedHolds` are for any number
  of handlers in set-up and tear-down at once. Their invariant `OrderlyInv` has four parts.
  `Alone`: of the streams of a serial all but one have ended. `Held`: the device a handler holds
  has its serial and is the only one of the scene that has, so `MatchDevice`, `GetOrCreate` and
  `RemoveChip` find that one or none. `OneChip`: a device has the chip of its handler from the
  insertion to the removal, and no other. `Radios`: which phys and which sniffer a stream is in,
  from its connection to its end, and that they agree with the model while it is open. The
  erasure by a stale index may take out another handler's device, but neither its chip nor its
  model, which is why these three survive it; that handler, when it ends, does not find its
  device any more. An erasure past the end may end the process, which the invariant allows.
  `ConnectedListedHolds`, `NothingLeftHolds` and `EraseOnlyChiplessHolds` need `MaxBusy = 1`:
  `OneAtATime` adds that the index a handler erases at is still its device's, that a device held
  is in the scene and that every device of the scene has its handler; the process never ends by
  itself.
* **`SceneRefinementProofs`** (assumes `NoOverlap` and `MaxBusy = 1` as above). `Refinement`:
  `Spec => ImplementsDeviceMap`. `RefinementInv` adds two facts to `OneAtATime`. `Informed`: a
  device nobody has created yet has the data of a new one, so that `CreateNew` shows `NewDevice`.
  `Erasers`: the device a handler erases has the handler's serial, so that the erasure by index is
  the map's removal of that serial. The lemmas `ByKey...` say when a map keyed by serial is
  unchanged, or gains, loses or changes one entry; they need what `UniqueSerials` and `Alone` say,
  that no two devices and no two open streams have a serial in common. Then one lemma per action.
  For an update, `TargetFound` and `TargetMatched` show that `MatchDevice` on the list and the
  map's search agree, on the target and on there being none; `UpdateSceneMap` and `UpdateRadioMap`
  that the statement-by-statement changes of model, phys and sniffer are one change of a chip's
  states, which for the radios rests on `Radios`: they agreed with the model before.
* **`HttpServerProofs`** (assumes: at least one worker, `NoConn` is no connection, requests are
  sequences whose headers have a number and in which bytes follow the empty line). `TypeCorrect` needs `SentSome`: no more is sent than
  the request has, so that what is read next is an item. `LockNotLostHolds`: the holder of the lock
  waits in `recv`, from the types. `StartOrderHolds`: as long as a worker is left, what was
  accepted is what was started followed by the channel; the channel is emptied only by the last
  worker's panic, after which the receiver stays dropped. `ServedOnceHolds`: the connections
  accepted are distinct and include those started and those in the channel, a worker's
  connection was started last by that worker, and nothing is read or answered of a connection
  that was not started. `RightAnswerHolds`: `AnswerInv` says what each worker has established at
  each point of the parser (the request line is one, headers only up to item `k`, the first
  length among them, where the section ends) and why each answer was given, in words that stay
  true when the client sends more or closes (`ReadWhole`, `Refused`); `RightAnswer` itself is not
  of that kind, since `WellFormed` speaks of what has been sent by now. `ReadWholeIsWellFormed` and
  `RefusedIsNotWellFormed` then compare the two: the bytes of a body are counted by an injection,
  and a body cut short has none by the pigeonhole principle.
* **`DiscoveryProofs`** (assumes: `None` is no daemon; `GaveUpWithReasonTheorem` also
  `SamePath`). `IniNamesDaemonTheorem`: `OneBound` says that at most one living daemon has the HTTP
  port, so that of two that were launched one will fail; `SoleWriter` that, while nothing has failed,
  no daemon is gone, and if only one was launched the lines it has written name it.
  `GaveUpWithReasonTheorem` adds `ClientInv`. `Progress`: while nothing has failed since a client
  began, the daemon it started is going to lead (its frontend is named, or yet to be), or to leave
  to one that leads, or two race for the HTTP port. `LastAttempt`: at the fourth attempt one daemon
  rules, its frontend named by the file, so that no line is written any more; a client that then
  fails to connect has read the backend port of the file as it still is, which is `Torn`.
* **`LongPollProofs`** (assumes: at least one callback id, `None` is no page, connection or thread,
  `"service"` is no thread of the gRPC frontend). One invariant, `IndInv`, in three parts.
  `ManagerInv`: `Registered` and `NotifySafe` hold together with the facts that a closed connection
  has no session left, that only polls have a callback id, that callbacks are left to call only
  while the manager's lock is held, and that the service thread is in a handler exactly when it
  has a session. Registering and unregistering wait for that lock, so nothing is left to call
  when they run; a session without a callback id closes without the lock and is no callback's.
  `ReasonInv`: a connection is writable for the first time only because its body is there or its
  poll was notified, the version a poll was notified of is not later than the scene, and the
  scene is read after that. `PageInv`: while the daemon runs, a page that has seen or will see a
  failed poll has seen a timeout since `start`, so the third failure is not within a second.

Only model-checked: the liveness properties (`PopReturns`, `StreamEnds`, `Delivered`, `Answered`,
`DropEnds`, `OneDaemonLeft`, `ChangeShown`), which rest on fairness; and everything about
`Protobuf` and `NetsimCli` (`RoundTrip`, `RelayLossless`, `SizeExact`, `MergeOverrides`,
`PrintedIsServed`, `HandledAsMeant`), whose operators are recursive over messages and would need an
induction over data. Every other invariant and action property of the passing runs is a theorem.

## Not modelled

* rootcanal and gRPC, as far as the assumptions above go; torn reads.
* Formatting and logging, `hci_debug.cc`, reflection and text format of the generated code,
  rendering in `ui/`, mounts and TLS of the HTTP server.
* `rust/.../ranging.rs`: a floating-point formula; `rust/model`: plain data.
* `StartWithFds` and the file-descriptor transport, `RpcTransport`'s threads, the propagation of
  packets between phys, the C++ command line tool: see the plan.

## Plan

1. `RpcTransport`: the client's two threads over `StoppableQueue`; its `Await`.
2. `FdStartup`: the reader's loop and its error paths, devices added before connections.
3. Statistics of the phys: `Send`, `IncrTx`, `IncrRx` and the ids they use; `GetDevices` as a reader.

# TLA+ models of the TuyaOpen Arduino core

This directory holds TLA+ specifications of the parts of this repository (the
Arduino core for Tuya T2, T3 and T5 boards and its libraries) that keep state
across calls, share it between threads or interrupts, or wait for something; TLC
configurations that check them; and TLAPS proofs.

`PROJECT.json` is the machine-readable index: which definition translates which
lines, what each run checks, which change to the code each property would catch
(mutants), the hazards, and the findings.

Contents: [1. The system](#1-the-system) · [2. Modules](#2-modules) ·
[3. Runs](#3-runs) · [4. Fairness](#4-fairness) · [5. Proofs](#5-proofs) ·
[6. Findings](#6-findings) · [7. Not modelled](#7-what-is-not-modelled) ·
[8. Plan](#8-plan)

## 1. The system

A sketch's `setup()` and `loop()` run on one thread (`cores/tuya_open/main.cpp`).
Around it run: the resolver's and network stack's thread, the WiFi driver that
posts events, the event task that calls handlers, the timer thread of `Ticker`,
the client thread of `TuyaIoT`, the Bluetooth stack, and the UART and SPI
interrupts. Below everything are Tuya's own libraries (`tkl_*`, `tal_*`, lwIP,
LittleFS, coreMQTT), which are not part of the repository: the models let them
answer in every way the code in the repository is prepared for. They fail wherever the
code looks at a result, and where it ignores one that a property depends on (the waits of
`hostByName()`, the driver calls of a power-down, `beginPacket()`, `objWrite()`, the start
of the cloud client's thread, the fsync of `flush()`, the start of BLE advertising,
`WiFi.begin()` and `disconnect()` in `WiFiMulti`). The other ignored results, of calls
that start, stop and give back what there is, are taken to be good: timers, UART, SPI and I2C
ports, mutexes and event bits, sockets, the BLE stack's registrations (a stack that did not
come up is one that refuses to advertise).

| Component | State it keeps | Operations | Interacts with | What is hard | What makes it correct |
|---|---|---|---|---|---|
| Circular buffer `cbuf` | array, two cursors, one slot never used | read, write, peek, remove, flush, resize(Add), counts | used by WiFiUDP for a packet | wrap-around in every operation, resize while wrapped, `size_t` subtraction | it is a bounded FIFO; cursors stay inside; only written bytes are read |
| `hostByName()` | two event-group bits shared by all callers | lookup | resolver thread, which writes its answer through the caller's pointer, late or never | several callers at once, two timeouts, results of waits ignored | the idle bit is never lost, the wait for it is long enough, an answer reaches nobody but the user of its own variable, each call returns |
| WiFi events | queue, handler vector, ids | post, the task's walk, onEvent, removeEvent | driver, event task, program's thread | handlers come and go during the walk, in overlapping calls of two threads; the queue overflows | order of calls, no double call, every accepted event is handled |
| WiFi mode, STA, AP | what is brought up, low-level flag, started flag, driver's work mode | mode, enableSTA/AP, begin, softAP, (softAP)disconnect | brings up event queue and task; posts events | each part of the bring-up can fail and is tried again | reports what is, but to a mute driver; what reports itself on is ready; what is off runs only what the driver refused to stop |
| TCP client, server | shared handle, receive buffer, `_connected`; server's socket, accepted connection | connect, stop, copy, assign, read, peek, flush, write, connected; begin, end, hasClient, available | network stack, which reuses descriptors | shared ownership, partial reads and writes, failures half way | every socket closed once, by its last user; stream neither loses nor repeats; no over-reporting |
| UDP object | socket, multicast group, send buffer, receive buffer, remote address | begin(Multicast), stop, beginPacket, write, endPacket, parsePacket, read, flush | stack, allocator, `cbuf`; used by DNSServer and sketches | each of the steps of begin() can fail; one remote address for both directions | knows its socket; buffer before socket; reception never blocks itself |
| Captive-portal DNS server | domain, request buffer, header, question | start, stop, processNextRequest | WiFiUDP | ignored results, a question kept from request to request, allocation failure | one reply per query, to its sender, with its ID and name; responsive |
| `Ticker` | timer handle, two callbacks, an argument | attach(_ms), once(_ms), detach | timer thread | stores and loads without a lock | a firing calls what was attached; no timer is lost |
| Serial port | pointer table, mutex, ring buffer | begin, end, read, available, write | receive interrupt | interrupt between any two steps of begin and end | bytes in order, once, of this session |
| I2C master | two buffers, three indices | begin, end, setBufferSize, transmissions, requests, reads | bus, allocator | an allocation fails between free and use | no index outlives or exceeds its buffer |
| SPI master | transaction flag, completion flag | begin/endTransaction, transfer | driver's interrupt (T3) | wait for an interrupt that may be of another transfer or never come | a transaction is not cut short |
| MQTT client | client pointer, connected flag | init, connect, disconnect, free, subscribe, publish, loop | the SDK's coreMQTT client and its callbacks; a sketch that connects in loop() | the flag and the library's session change apart from each other; every answer is ignored | the flag is the session; the sketch comes to hear what it subscribed to |
| Cloud client `TuyaIoT` | static pointers to the licence, one global client, its thread, the event under way | setLicense, begin, callback, reading and writing data points | its own thread, which reads the object's buffers late; the sketch's callback | begin() again, a thread that is not made; data points read by id and counted by index; reports that fail; one C++ type per kind | the client is who begin() was told; a value comes back as it came |
| Button and LED of the cloud sketches | press state and time; LED state, level, blink interval | buttonCheck(); on, off, blink, update | `loop()`, the client's thread, the clock | clock wraps, rare looks that miss what the button does; two threads without a lock; reports that fail | by the looks at it a press does one thing; LED, state and cloud agree |
| File system (`FS`, `LittleFS`) | per object an implementation, mounted or not; a directory recursion under way | construct, mount, mkdir, remove, rename, open, write, flush, close | flash file system; power | mkdir fails or is cut short at any depth; a flush fails and nobody is told; a mount that fails formats | what was reported done is there after any restart |
| BLE peripheral | table of characteristics and its index, connection handle, the sketch's two flags | create, start, advertise, notify, indicate, callbacks | Bluetooth stack's thread | flags change while loop() sends; handle of a former connection; the stack refuses to advertise | sends go to who is there, under the own entry; the device stays reachable |
| WiFiMulti, WiFiScan | known networks; pointer, count and result of the last scan | addAP, run, scanNetworks, scanDelete | station, a sketch that scans too | pointer kept after release, count through `int8_t` | the strongest usable network looked at is chosen; every result given back once |
| HTTP client | the parts of the URL, the response | begin, GET and its kin, end | blocking library of the SDK | optional parts of a URL, a refused URL after a good one | a request is given the URL's host and path |
| Weather service | one answer at a time | one query per call, 13 of them | blocking call of the cloud; a sketch that asks for everything | items missing, refusals, lists by day | a complete answer fills everything |
| Log, pins, tones, time, start-up, board variants, scripts | almost none | | hardware layer | little | |

Interactions that the models compose: `DNSServer` calls `WiFiUDP` (`DNSServer`
instantiates `WiFiUdp`); `WiFiUDP` keeps a packet in a `cbuf` (which `Cbuf` shows
to be the queue `CbufFifo`, and as a queue it appears in `WiFiUdp`); `mode()` brings
up the queue and task of the WiFi events and posts into them (`WiFiMode` extends
`WiFiEvents`). The libraries above the drivers are each composed with the sketch that
drives them, since the order of calls is the sketch's (`MqttClient`, `TuyaIot`,
`Button`, `QuickStart`, `TuyaWeather`, `HttpClient`, `Ble`, `WiFiMulti`).

The hazards, each with the line where it bites and the properties that watch over
it, are listed in `PROJECT.json`. Those for which no property is stated say why.

## 2. Modules

Names of variables and operators are the source's where TLA+ allows. A comment
`Mutant of X` marks an operator that no specification uses: it is a plausible bug
in the code that `X` translates, and the property listed with it in `PROJECT.json`
is violated when `X` is replaced by it.

### Cbuf, CbufFifo — `cores/tuya_open/cbuf.cpp`, `cbuf.h`

`CbufFifo` is what the header promises: a sequence `q` of at most `cap` bytes.
`Cbuf` is the code: `_begin` and `_end` as offsets from `_buf` (`begin`, `end`),
`size` slots of which one is never used, and `buf` with `Garbage` where no write
has been. Each public operation is one action, with the same split at the end of
the array that the two `memcpy()` of the source have; `Room` counts modulo `SizeT`.
`Cbuf` implements `CbufFifo` under the refinement mapping `q <- Contents`,
`cap <- size - 1` (`ImplementsFifo`).

`resize(n)` with `n + 1 = available()` is let through by the code and breaks the
buffer (section 6). The constant `ExactShrink` says whether callers do that; the
pass run and the theorems are about callers that do not.

### HostByName — `WiFiGeneric.cpp`, `hostByName()` and its callback

`pc[t]` is where a thread is between the waits and the calls that change the event
group; `bits` is the group; `cell[t]` is the caller's `IPAddress`, `mem` what these
variables hold, and `pending` what the resolver still has to answer. `Ask` is
`dns_gethostbyname()` with its three kinds of result, `Found` the callback, which
may come at any time after, even when the asker is gone. Setting a bit wakes
everybody who waits for it, because each wait is for one bit and does not clear it
(`xClearOnExit` is false, `WiFiGeneric.cpp:244`). Time passes (`Tick`) only when all threads inside wait: what
they do between two waits takes no time. The 15000 ms are `DoneWait` ticks, the
16000 ms one more.

A late answer is written to where its asker wanted it. The variable is free again as soon
as the call has returned, as `WiFiClient::connect()`'s local one is (`WiFiClient.cpp:303`);
who uses it next may find the address of the earlier name there. `owed[t]` are the names
whose answers were still to come for the variable when `t` called. `Truthful` says that a
lookup finds the truth, nothing, or an answer that was owed: never what another thread asks
for at the same time, whoever's answer it was that woke it.

### WiFiEvents — `WiFiGeneric.cpp`, event queue, task and handlers

`queue` is `_arduino_event_queue`, `list` is `cbEventList`, `task` the event task with
its loop index, `doing[by]` the `onEvent()` or `removeEvent()` that the program's thread
(`"app"`) or the handler being called (`"handler"`) is in. The two overlap as they like: a
registration loads the id (`OnEvent`), stores the next one (`StoreId`) and appends
(`PushBack`); a removal is one step per round of its loop (`RemoveRound`). So two callers
may take the same id, and the list need not be in the order of ids; an entry's `no` says
the how-manieth it was. The task's loop reads the size anew each round and copies the
entry, as the code does. That one round, or one `push_back()`, is not interrupted by
another access to the unlocked vector is assumed: what happens otherwise is undefined. The
three kinds of callback differ only in their signature.

### WiFiMode — `WiFiGeneric.cpp`, `WiFiSTA.cpp`, `WiFiAP.cpp`

Extends `WiFiEvents`. `made` is the prefix of event group, queue, driver, thread that
`_start_network_event_task()` has brought up, `lowLevel`, `started` and `work` are the
flags and the driver's mode, `radio` is what the driver actually runs. `mode()` is the
disjunction of its ways (`Already`, `PowerDown`, `NoLowLevel`, `SetMode`), each with
the answer it gives; `Enable` is the code's bit arithmetic, which reaches the numbers 0 to 7
(`Numbers`), and nothing but the driver turns down those that are no mode. `GetMode` may be
`OFF` because the driver did not tell (`answer.mute` marks a call that it happened to), and
each of the three driver calls of `PowerDown` and the two of `Disconnect` may be refused on
its own; `left` is what a power-down was refused to stop. A mode change is one step: one
thread changes the mode. `begin()` and `softAP()` are `EnableMode` followed by `Start`.

### WiFiSocket — `WiFiClient.cpp`, `WiFiServer.cpp`

`handle[c]` stands for both shared pointers of a client. `Rebind` is what losing the
last reference does: the socket is closed unless another client shares the handle.
A socket's receive buffer is kept under its descriptor (`held`, `pos`, `failed`);
bytes are numbered as the peer sent them, so `past`, the buffer and `stream` together
say what was lost, repeated or reordered. `read(buf, n)` is its two optional fills and
then one step per round of its loop; `write()` is one step per round, with its retry
counter. `silent` counts bytes sent and not reported, `spilled` the sockets that the
four exits listed at `NoOtherLeak` forget.

### WiFiUdp — `WiFiUdp.cpp`

One object, its stack and its allocator. `begin()` is one action with an outcome for
each way it can end; `beginPacket()`, which may make buffer and socket itself, likewise.
An action that answers takes the answer as a parameter (`ParsePacket(len)`,
`BeginPacketTo(peer, ok)`), so that a client composed with it can react.

### DNSServer, over WiFiUdp — `DNSServer.cpp`

`processNextRequest()` runs in steps (`pc`: idle, alloc, read, begin, write, end, free)
between which datagrams arrive. A DNS message is a record; `Decision` is the branch of
lines 106 to 117; a reply is written in up to three parts into `tx`. `question` survives
from request to request, as `_DnsQuestion` does. A datagram shorter than a header makes
the code read past what arrived: what it sees then is any message.

### Ticker, SerialUART, Wire, SPI, composed in Peripherals

* `Ticker`: every store of `attach`/`once`/`detach` and every load of
  `_static_callback()` is a step. The code promises nothing to a firing that an attach
  or detach interrupts (`disturbed`): there the model has the null call and the wrong
  argument, and no property forbids them.
* `SerialUART`: `begin()` and `end()` are lists of steps; the receive interrupt runs
  to its end between any two of them. `era` separates the bytes of sessions.
* `Wire`: buffers as numbers of allocated bytes, with allocations refused at will.
  `freeWireBuffer()` resets, for each buffer freed, the indices of the other one
  (`Freed`), as the code does.
* `SPI`: as built for T3, where `transfer(buf, n)` starts a transfer that an interrupt
  completes.
* `Peripherals`: these four share nothing. `focus` says which one moves, so their state
  spaces add up instead of multiplying; every property of one driver is decided by the
  behaviours in which that driver alone moves.

### Nine libraries and sketches, composed in Services

As in `Peripherals`, `focus` says which of them moves; `Only(name)` holds the others
still. Two variables of the same name (`at`) get names of their own in the instances.

* `LittleFs` — `FS/src/file.cpp`, `LittleFS.cpp`. `object[o]` is what a `VFSFILE` variable
  has behind it, `tree` and `content` are the flash, `making` is the `createDirRecursive()`
  under way: one call of the flash file system is one step, because power may fail
  (`Restart`) between any two. `size` is what the open file would hold with all that was
  written to it. `flush()` may fail to bring that to flash and tells nobody (`lossy`); after
  that `close()` may answer 0 for a file that lost something. `promised` records what a call
  told the sketch. `Mount` is `mount()`, which formats when it fails; `open()` and
  `openDir()` mount first.
* `MqttClient` — `MQTTClient.cpp` with `mqtt_publish_in_callback.ino`. `is_connected` against
  the library's `session`; `spoiled` is set by the events that the class does not notice.
* `TuyaIot` — `TuyaIoT.cpp`, `ArduinoTuyaIoTClient.c`, `dpType.ino`. `sg` are the static
  pointers, `buffer` what they point to, `thread[t]` where the client thread of the `t`-th
  start is; the thread may not come to be, and `begin()` says nothing of it. The callback
  takes the data points of an event one by one (`at`); it has no case for a bitmap, and the
  report of each of the others may fail (`unwritten`).
* `Button` — `buttonCheck()`, which three sketches have word for word. `Look` is one call
  after any time up to `MaxGap`; `millis` wraps. Between two looks the button does what it
  likes: `held` is how long it was really down, `seen` how long by the looks, and `slipped`
  says that it was let go in between and no look saw it.
* `QuickStart` — `quickStart.ino`, `tLed.h`. One access to what the two threads share is one
  step (`pc`); `raced` is set when one stores a state while the other is between its own
  store (or `update()`'s test) and what follows from it, `failed` when the last report did
  not reach the cloud, where the state is a bool (`AsBool`).
* `TuyaWeather` — `TuyaIoTWeather.cpp`, `weatherGet.ino`. `Demo` is the sequence of the
  sketch's queries, each with the items that it asks for and reads.
* `HttpClient` — `HTTPClient.cpp`. A URL is the sequence of its marks and words; `begin()`
  cuts it where the code does, with the port in 16 bits. What the URL was written from
  (`meant`) is compared with what the request is given: host and path, since protocol and
  port are kept and not handed on.
* `Ble` — the classes of `libraries/BLE` with `ble_server.ino`: the table and `char_index`
  that all objects share, the stack's callbacks between any two looks of `loop()`; the stack
  may refuse to advertise, which nobody looks at (`refused`).
* `WiFiMulti` — `WiFiMulti.cpp`, `WiFiScan.cpp`. `ap_info` is the static pointer, `heap` what
  the SDK has given and not got back; the sketch `WiFiScan` uses the same pointer. Counts go
  through `Int8`, which is negative for some and small again for more. `joining` is a name:
  `begin()` drops the channel and the BSSID that `run()` hands it.

## 3. Runs

All runs finish within five minutes with two workers. "States" are distinct states.

| Run | Module | Checks | Bounds, and why they are enough | States |
|---|---|---|---|---|
| `cbuf` | `Cbuf` | `TypeOK`, `NoGarbageRead`, `CountsShareCapacity`, `ImplementsFifo` | capacity to 4, transfers to 3, two byte values: each wrap position, each split, each exact fit and a zero capacity occur; `SizeT` 256 is above every count, as 2^32 is | 12,340 |
| `cbuf_exact_shrink` | `Cbuf` | `WritesOnlyAppend` is violated | as above, `ExactShrink` | – |
| `host_by_name` | `MCHostByName` | `IdleNeverExpires`, `IdleRestored`, `Truthful`, `EveryLookupReturns` | one thread to hold the bit and one to wait; as many variables, used again at once, so that a late answer meets a new call by either thread; two entries of the resolver's table, one for a late answer; `DoneWait` 1, so that an answer comes before, at and after the timeout | 534,402 |
| `wifi_events` | `MCWiFiEvents` | `EventsTypeOK`, `CalledInOrder`, `RemovalHidesOne`, `EveryEventHandled` | three registrations: the fewest of which one is removed, one hidden and one called, by two callers that overlap; one callback for one kind of event or all; queue of one, so it is full and overflows; two events | 536,260 |
| `wifi_mode` | `MCWiFiMode` | `OnMeansReady`, `ModeTruthful`, `OffIsQuiet` | all modes, failure and refusal of every call; no handler and two events, since `wifi_events` is about more of them | 64,496 |
| `wifi_mode_enable` | `MCWiFiMode` | `EnabledApIsOn` is violated | as above | – |
| `wifi_socket` | `MCWiFiSocket` | `EverySocketOwned`, `StreamIntact`, `NeverOverclaims` | two variables share a handle or not; three descriptors: one each and one for the server; a buffer of two and three bytes, so reads of 1 to 3 fill twice, wrap and loop; two retries | 68,364 |
| `wifi_udp` | `MCWiFiUdp` | `NoSocketLost`, `SocketHasSendBuffer`, `NoEmptyPacket` | two descriptors, so a second socket could be lost; datagrams that are empty, short, exact and too long | 1,438 |
| `dns_server` | `MCDNSServer` | `TypeOK`, `RepliesMatchRequest`, `NothingLeftBehind`, `Responsive` | two senders, two IDs and two names: enough for a reply to get any of them wrong; two datagrams: one being served, one waiting; all message forms | 136,422 |
| `dns_server_starved` | `MCDNSServer` | `KeepsTakingRequests` is violated | one name, one ID | – |
| `peripherals` | `Peripherals` | `CallsWhatIsAttached`, `NoStrayTimer`, `ReadsThisEra`, `IndicesMatchBuffers`, `OneBufferIsWhole` | two callbacks, arguments and timers to mix up; a ring of two and three bytes, so it overflows; two ends; I2C sizes 0 to 3 around the default 2; two transfers in a transaction | 374,886 |
| `services` | `MCServices` | `TypeOK`, `PromiseKept`, `FlagIsSession`, `CloudIsFaithful`, `PressMeansOneThing`, `AllAgree`, `AnswersServe`, `SendsAreOwn`, `ScansServe`, `KeepsGoing` | paths three names deep, so that the recursion goes down twice and fails at any depth, and one beside them; two objects, one mounted and one not; events of two data points of four types, one of them without a case, and one that is unknown; two `begin()`; a clock of 12 with a long press of 4, so that it wraps in every part of a press; every combination of the parts of a URL; two characteristics and a third place in the table; three connections; two known networks; results of up to two, and of the least and greatest numbers that an `int8_t` makes negative and that it makes small again | 187,121 |

What they show, and which behaviour of the code each property is about, is written
above each property in its module. The least obvious ones:

* `IdleNeverExpires`: the code ignores the result of the 16 s wait. That is right only
  because whoever cleared the bit sets it within 15 s *and* all waiters wake at once and
  may then look names up together. That sharing makes `Truthful` and
  `EveryLookupReturns` non-trivial: two lookups share one "done" bit, and one may be
  woken by the other's answer. What remains is an answer to an earlier call with the same
  variable, and the property says exactly that.
* `RemovalHidesOne`: a removal during the walk shifts the vector under the loop index
  and can hide a handler from the event under way, but never more than one per removal,
  whichever of the two callers it is and whatever the other is in the middle of.
  `CalledInOrder` is about the order in the list; ids, of which two callers may take the
  same, promise no order.
* `ModeTruthful`, `OffIsQuiet`: the code reads a query that failed as "off" and ignores what
  the driver says to a power-down. The properties name these two (`mute`, `left`) and say
  that nothing else makes an answer of `mode()` false or leaves a radio running.
* `EverySocketOwned`: of its parts, `NoStrangersSocket` says that no handle is of a closed
  socket or of someone else's, which reuse of descriptors would make dangerous, and
  `ConnectedHasSocket` that a client that calls itself connected has one. `NoOtherLeak`: the four exits that forget an open socket are counted, and the run shows
  that there is no fifth.
* `RepliesMatchRequest`: `_DnsQuestion` is kept from request to request and yet never
  used for another request's reply, and no reply is written without a send buffer although
  the result of `beginPacket()` is not looked at.
* `IndicesMatchBuffers`: `freeWireBuffer()` resets the "wrong" indices, and it is still
  right since both buffers are always freed together.
* `PromiseKept`: `mkdir()` takes "exists" for success and tries a directory once more after
  its parents. Whatever fails, and wherever power does, a call that reported success left
  what it promised; what takes it back is the format after a failed mount, and for a file's
  bytes a `flush()` that failed, of which nobody is told.
* `AllAgree`, `FlagIsSession`, `KeepsGoing`: the code has no lock, no notice of a dropped
  session and no memory of a missed connection, and asks neither whether a report worked nor
  whether the stack advertises. The properties name these events (`raced` and `failed`;
  `spoiled`; `missed` and `refused`) and say that nothing else brings the parts out of step.
* `PressMeansOneThing`: `uint32_t` subtraction gives the right duration over a wrap of the
  clock, and a press is never two things. What it is goes by the looks: two short presses
  with no look between them are one press to the code, which may be long enough to remove
  the device; a press that only one look sees is none. Without such a slip the property also
  bounds what the button really did, by the time between two looks, and a press longer than
  the debounce time and two such times is never lost.
* `CloudIsFaithful`: a value comes back as it came unless its own report failed; one that
  failed does not shift the others.
* `AnswersServe`: of the URL, that host and path of the request are what it was written from.
  The port is told from the rest by its lower 16 bits and, like the protocol, kept, without
  any effect on where the request goes.
* `ScansServe`: `scanDelete()` keeps the pointer and `scanNetworks()` overwrites it. No result
  is released twice, read after its release or lost, unless an `int8_t` makes its count
  negative. `run()` chooses the strongest usable network among those it looks at: all of up to
  127, the first few or none of 256 and more. It is the choice that is shown; the station is
  told the name, and which network of that name it joins is the driver's affair.

`CHECK_DEADLOCK FALSE` is in three configurations: in `MCWiFiEvents.cfg` the bounds on
events and registrations run out and a program may have nothing left to do; in
`Peripherals.cfg` `endTransaction()` may wait for ever for an interrupt that a refused
transfer never causes, which is what the code does; in `MCServices.cfg` the bounds on scans,
connections and calls of `begin()` run out, and a sketch may have been stopped by its answers.

Bounds (`MaxCapacity`, `MaxChunk`, `MaxIds`, `MaxEvents`, `MaxInbox`, `MaxArrivals`,
`MaxIn`, `MaxOut`, `MaxBacklog`, `MaxBytes`, `MaxEnds`, `MaxSize`, `MaxTransfers`, `MaxLen`, `MaxDps`, `MaxBegins`,
`MaxGap`, `MaxHandle`, `MaxAPs`, `MaxScans`) are in the
guards and named as bounds where they are declared. `PacketSize`, `BufSize`, `QueueSize`,
`RxSize`, `WireSize`, `MaxRetry`, `DoneWait`, `TableSize`, `Millis`, `DebounceMs`, `LongPressMs`, `CharMax`
and `Int8Max` are the code's own limits, made small.
Symmetry is used in `wifi_udp` and `wifi_socket` only, which check no liveness; their
sets are never compared or ordered.

## 4. Fairness

* `HostByName`: `WF(Run(t))` because threads get the processor; `SF(Tick)` because clocks
  run although a thread that comes and goes can disable `Tick` again and again. Nothing is
  assumed of the resolver: `EveryLookupReturns` holds although answers may never come.
* `WiFiEvents`: `WF` of the task's own steps (its thread waits on the queue for ever), `WF`
  of the `onEvent()` or `removeEvent()` that each caller is in (they have no waits), and
  `SF(Return)`: a handler returns even if it registers and removes handlers before. Without the last the code could not promise anything, since
  a handler runs on the event task.
* `DNSServer`: `WF(ProcessNextRequest)` because `loop()` calls it for ever, as the example
  does; `SF(TakesDatagram)` because `parsePacket()` does not fail to find memory every time.
  `Responsive` speaks of servers whose `_buf` could always be allocated. The violation run
  shows that the same fairness does not help once it could not.
* `Services`: `WF` of a `mkdir()` under way, of the MQTT sketch and of the BLE sketch, whose
  threads run for ever (`MkdirGoesOn`, `MqttGoesOn`, `BleGoesOn`), and `SF` of a successful
  connection (`MqttConnects`): the sketch tries in every loop, and not all attempts fail.
  Nothing is assumed of brokers, centrals or power.
* All other specifications are safety only.

## 5. Proofs

Proved by TLAPS for every value of the constants that the named assumptions allow
(`CbufAssumption`, `HostByNameAssumption`, `WiFiEventsAssumption`, `WiFiModeAssumption`,
`WiFiSocketAssumption`, `WiFiUdpAssumption`, `DNSAssumption`, `PeripheralsAssumption`, `ServicesAssumption`,
`UrlAssumption`: sizes and times are naturals, what stands for "none" is none of what it is told from, a
press can be seen before the clock has gone round, the parts of a URL do not contain the mark that ends them).
Conditions beyond these are in the theorem's own statement and in the last column. Every invariant and every
action property or refinement that a passing run checks is the statement of one of these theorems.

| Module | Theorem | Says |
|---|---|---|
| `CbufProofs` | `CursorsStayInside`, `ReadsOnlyWritten`, `RoomNeverWraps` | `[]TypeOK`, `[]NoGarbageRead`, `[]CountsShareCapacity`, for callers with `~ ExactShrink` |
| | `ImplementsQueue` | `Cbuf` implements `CbufFifo` (`ImplementsFifo`), for callers with `~ ExactShrink` and transfers of at least one byte |
| `HostByNameProofs` | `IdleWaitSuffices`, `IdleBitReturns` | `[]IdleNeverExpires`, `[]IdleRestored`, for any number of threads and any wait |
| | `LookupsTruthful` | `[]Truthful`, for any number of threads and variables, used again or not |
| `WiFiGenericProofs` | `TypesKept`, `WalkInOrder`, `HidesOneEach` | `[]EventsTypeOK`, `[]CalledInOrder`, `[]RemovalHidesOne` |
| | `OnMeansReadyAlways`, `ModeTruthfulAlways`, `OffIsQuietAlways`, `ModeTypesKept` | `[]OnMeansReady`, `[]ModeTruthful`, `[]OffIsQuiet`, `[]TypeOK` of `WiFiMode` |
| | `ModesUseTheEvents`, `EventsSoundUnderModes` | `WiFiMode` implements `WiFiEvents` without its fairness, whose three invariants therefore hold of it |
| `WiFiSocketProofs` | `EverySocketOwnedAlways`, `NeverOverclaimsAlways`, `StreamIntactAlways` | `[]EverySocketOwned`, `[]NeverOverclaims`, `[]StreamIntact` |
| `WiFiUdpProofs` | `SocketsAccountedFor`, `BufferComesFirst`, `NoDeadBuffer` | `[]NoSocketLost`, `[]SocketHasSendBuffer`, `[]NoEmptyPacket` |
| | `TypeOKAlways` | `[]TypeOK` of `WiFiUdp` |
| `DNSServerProofs` | `RepliesAreTheRequests`, `LeavesNothingBehind`, `TypeOKAlways` | `[]RepliesMatchRequest`, `[]NothingLeftBehind`, `[]TypeOK` |
| | `UsesTheObject`, `ObjectIsSound` | `DNSServer` implements `WiFiUdp`, whose three invariants therefore hold of it |
| `PeripheralsProofs` | `IndicesMatchBuffersAlways`, `OneBufferIsWholeAlways`, `CallsWhatIsAttachedAlways`, `NoStrayTimerAlways`, `ReadsThisEraAlways` | the five properties of the run, without "Always" |
| `ServicesProofs` | `PromiseKeptAlways`, `FlagIsSessionAlways`, `AllAgreeAlways`, `SendsAreOwnAlways`, `PressMeansOneThingAlways`, `CloudIsFaithfulAlways`, `AnswersServeAlways`, `ScansServeAlways`, `TypeOKAlways` | the nine invariants of the run, without "Always" |
| | `ClientIsWhoWasMeantAlways`, `EchoesWhatCameAlways` | the two parts of `CloudIsFaithful` |
| | `ChoosesStrongestAlways`, `ReleasedOnceAlways` | the two parts of `ScansServe` |
| | `WeatherServesAlways`, `AsksWhatWasMeantAlways` | the two parts of `AnswersServe` |

The arguments:

* **cbuf.** That reads return only written bytes is not inductive. It is needed of every
  slot between the cursors (`StoredWritten`), through wraps and through `resize()`'s
  move, and for that the cursors must stay in the array (`CursorsOK`). `TakeBytes` is the
  lemma that reading, peeking, removing and resizing share: what `n <= Available` bytes
  from `_begin` are, and where the cursor is afterwards. `RoomNeverWraps` needs
  `SizeT > MaxCapacity + MaxChunk`, which a 32-bit `size_t` grants.
* **cbuf as a queue.** The refinement mapping is what `Cbuf` calls its contents: the bytes
  from `_begin` on, round the end of the array. Byte `i` of the queue is in a slot that is
  computed from the cursor (`Slot`), and there are as many bytes as lie between the two
  cursors (`Between`). With that each call is looked at on its own: `TakeIs` for what removes from the front, `WriteIs`
  and `WriteCharIs` for what appends, `ResizeIs` for the move to a new array, which keeps the
  queue though every slot changes. A single character is the queue's transfer of one byte,
  hence `MaxChunk # 0`.
* **hostByName.** Behind every thread that waits for the idle bit there is one that will
  set it, and it has less time left than the waiter (`BitComes`). `Tick` takes one from
  both, a new waiter starts with `DoneWait + 1` while nobody who holds the bit has more
  than `DoneWait` left, and setting the bit wakes all waiters, so none is left without
  a holder. `BitMissing` (waiters only while the bit is out) and `SomeoneRuns` (when it
  is out somebody is on the way to set it) are what the step of a new caller needs.
  `LookupsTruthful` has an invariant of its own (`TruthInv`): two threads inside never share a
  variable (`CellsApart`), and an answer that is still to come for the variable of a call is
  one to its own question or one that was owed when it began (`AnswersExpected`), so these are
  all that can be found there (`HoldsExpected`).
* **Events.** That the next call is of a later entry rests on the list being in the order in
  which entries were put in (`Ascending`), which `erase()` and `push_back()` keep whatever ids
  the two callers took, and on everything
  called being behind everything at or after the walk's place (`Behind`), which an erase
  before that place only strengthens. `HidesOneEach` counts: an erase can move the walk's
  place past the end, and an entry registered then is hidden at once. So the places of
  which that may come true count as well (`Gaps`), and of those there is at most one more
  per removal (`OneMoreGap`, by an injection of the gaps after an erase into those before).
* **Modes on events.** A call that sets the mode changes the events' side only by the event
  that the bring-up posts, and posts it as anybody does (`EnterPosts`); the driver's events and
  the handlers' calls are steps of `WiFiEvents` as they are (`ModeStepIsEventStep`). So the
  events' invariants, proved of `WiFiEvents` with any program, need no second proof.
* **Modes.** A mode is reported only when `lowLevelInitDone` is set, and that is set only when
  queue, driver and thread are all there (`Ready4`); failures leave a beginning of the
  bring-up (`ModeTyped`). A WiFi that was started has a mode that is not `OFF` (`UpHasMode`),
  so whoever reads `OFF` from it has asked a mute driver; a number that is no mode stays a
  number (`NumberTyped`).
* **Sockets.** `EverySocketOwned` is, with the owners' types, inductive when it is written as
  equations of sets (`Accounts`): letting go of a handle closes exactly the sockets that
  no client has any more (`RebindHandles`). `NeverOverclaims` needs that a `write()` under way
  has not counted more than was sent (`Sending`).
* **The received stream.** `StreamIntact` says that what was read, the rest of the buffer and
  what is to come make one line (`Line`). Reading moves bytes over the first joint of that
  line (`TakeLine`), filling over the second (`FillLine`), and starting the buffer again from
  the front moves nothing (`RewindLine`). Each operator on a buffer keeps that
  (`TakeIntact`, `FillIntact`), so does whatever `read()` does with one, two or more of them; and
  a descriptor without a client has no bytes (`Streams`), or the next connection that the
  stack gives it would start with another's.
* **UDP.** Two invariants that do not need each other: the socket side (`Socket`), since
  every path first closes what was open and allocates the buffer before the socket; and
  the packet side, where a buffer that is there is never empty because each of the places
  that shorten or fill it keeps it only if bytes are left. The rest of the types needs both.
* **DNS.** At every place of `processNextRequest()` it is known what the UDP object and the
  server's own fields hold of the request (`Unread`, then `Answering`). That
  `beginPacket()` cannot fail there, which is why ignoring its result is right, follows
  from the socket the request came in on: it has its send buffer, and a sender is never
  nobody (`DnsBeginReply`). What is written of a reply is its beginning and ends with its last
  part (`Written`), hence the type of the packet being made. Each call that the server makes on
  the object is one that `WiFiUdp` allows any client (`UsesTheObject`), so what `WiFiUdpProofs`
  proves of the object is cited, not proved again (`ObjectIsSound`, through an `INSTANCE` of that
  module).
* **Peripherals.** The five parts touch variables of their own, so a step of one leaves the
  invariants of the others (`WhoseStep`). I2C: both buffers are there or neither
  (`BothOrNeither`). SPI: what the interrupt has still to say of a transaction with one
  buffer. Ticker: the timer that is known, being stored or being taken back, and a firing
  on the way that nothing disturbed. Serial port: what is in the ring, in the SDK's buffer
  and read so far is one run of bytes of this era, in order (`OneRun`), which holds
  unless a callback of before `end()` was still under way when the port was begun again
  (`Dirty`); `JoinRuns` is the lemma on sequences behind it.
* **Services.** Again one invariant per part.
  - *File system*: what was promised is in the tree, what `mkdir()` is about to promise will be,
    and an open file would hold no less than is on flash (`AtLeast`), so whatever a flush or a
    close that fails brings there is no less than before (`FsInv`).
  - *MQTT*: `FlagIsSession` is inductive with its types.
  - *QuickStart*: whoever is between its store and its report wants what the state is, and what
    is not yet lit or told is about to be (`LitOrAbout`, `ToldOrAbout`), until a thread has stored
    while the other was under way or a report has failed.
  - *BLE*: characteristic `i` has entry `i - 1` (`OwnEntries`).
  - *Button*: by the looks at it a press in state 1 has not lasted, in state 2 has but not long,
    and the difference to what it really was is at most the time between two looks unless it
    was let go unseen (`Pressing`); durations add up over a wrap (`ElapsedAdds`).
  - *Cloud*: a pointer leads to each buffer that holds something, or `begin()` is about to set
    it, and the thread, if any, is started last (`OnceBegun`). An event's data points have
    different ids, and as many have been reported as there are among those looked at with a case
    and without a failure (`HandlingInv`, `CountGrows`); a value of each type comes back through `Wide` and `Cast` unchanged
    (`ComesThrough`).
  - *Scans*: which results are out at each place of `run()`, which comes to scan twice only after
    a wide one (`ResultsOut`). What `int8_t` makes of a count is never more than the count
    (`Int8Of`), so `run()` looks at what there is. `run()`'s loop over the networks is a recursive function; that it
    has one value for each length follows by induction (`LookExists`), and that the value is the
    strongest usable network among the first `n` by another (`IsBest`, `BetterIsBest`,
    `ChoiceIsBest`).
  - *Weather*: which items of an answer come to which place of a vector is a count of the items
    kept before (`PlaceOf`, `KeptFrom`, `EntriesAre`).
  - *URLs*: `IndexIs` says where the first mark is, `Halves` and `Parts` what is before and after
    it. A URL is written as protocol, "://", authority and path (`WrittenIs`), and since no part
    holds the mark that ends it each cut of `beginInternal()` is where the writer joined
    (`AuthorityIs`, `RestIs`).
  - *Types*: the counts and bounds follow the same invariants; where a type rests on another
    part of the state (a handle on the tree, the depth of a recursion on its path) that part is
    in `FitsInv`.

The library's induction theorems take an operator as a parameter, which the installed provers
cannot instantiate. Where an induction is needed it is made over a *set*: `Least` (a nonempty set
of naturals has a least element) follows from `NatLessThanWellFounded` and `WFMin`, and
`Induction` from that; the set collects the numbers up to which a statement holds.

Only model-checked: liveness (`EveryLookupReturns`, `EveryEventHandled`, `Responsive`,
`KeepsGoing`), which needs ENABLED and is out of the prover's reach here; and the three
properties that the code violates (section 6), of which a counterexample is all there is.

## 6. Findings

Each is shown by a violation run.

1. **`cbuf::resize()` lets itself be shrunk one byte too far** (`cbuf.cpp:45`). Its comment
   says it does "not lose any data". The guard compares the number of slots, one of which
   is never used, with the bytes stored. With `n + 1 == available()` the cursor `_end` is
   left past the array, `room()` wraps, and the next bulk write goes over unread bytes.
2. **`enableAP(true)` answers true in sniffer and in station mode and leaves the access point
   off** (`WiFiGeneric.cpp:434`). Modes are numbered 0 to 4, and treated as bits: sniffer (1)
   and station (2) each have a bit in common with access point (3). The run's trace is the
   shorter one, in sniffer mode. `softAPConfig()` takes a false answer for "enable AP failed"
   (`WiFiAP.cpp:80`) and goes on otherwise.
3. **One failed allocation makes the DNS server deaf** (`DNSServer.cpp:78`). The packet is
   left in the UDP object, whose `parsePacket()` returns 0 while it has one. The example
   says that the server "will reply with provided IP to all DNS request".

Disagreements that were met and are not runs of their own. Some concern arguments and
return values the models abstract from; others are in a model, and the property beside
them says how far they reach:

* `disconnect(true)`'s arguments are ignored (`WiFiSTA.cpp:98-113`,
  `WiFiClientConnect.ino:87`); `config()` returns the driver's result, 0 for success, which
  `WiFiClientStaticIP.ino` tests with `!`.
* `mqtt_basic.ino:10` says that it reconnects "if the connection is lost", but its `loop()`
  only calls `mqtt.loop()`; and `mqtt_publish_in_callback.ino`, which tries whenever
  `connected()` is false, is never told of a drop (`spoiled` in `MqttClient`).
* The driver's answers to a power-down are ignored (`WiFiGeneric.cpp:212-214`; `left` in
  `OffIsQuiet`), a query of the mode that fails is "off" (`WiFiGeneric.cpp:411`; `mute` in
  `ModeTruthful`), and `disconnect()` of a station with an access point answers for the second
  of its two calls only (`WiFiSTA.cpp:106-108`).
* `WiFiMulti::run()` drops a working connection each time it is called: it looks for
  `WiFi.SSID()` in its list, and that is always the empty string (`StationSSID`). The
  channel and the BSSID of the network it has chosen are dropped by `begin()`
  (`WiFiSTA.cpp:56-76`), so the station may join another network of that name.
* A request is given neither the protocol nor the port of its URL (`HTTPClient.cpp:70-81`).
* `TuyaIoT.write()` and the start of its thread can fail and no caller looks
  (`quickStart.ino:82`, `ArduinoTuyaIoTClient.c:75`; `failed` in `AllAgree`, `unwritten` in
  `EchoesWhatCame`).
* A weather answer without success is not freed (`TuyaIoTWeather.cpp:121`). `weatherGet.ino`
  starts again from its first request for
  ever, and reads vectors by the number of days it asked for, past their end if an answer
  lacks items.
* `write(dpid, const char *)` of the template passes a pointer to its pointer.
* `LittleFSDemo.ino` uses a handle after closing it. A mount that fails for any reason
  formats the flash (`LittleFS.cpp:64`; `PromiseKept` holds between formats). `flush()` ignores what
  `tal_fflush()` and `tal_fsync()` answer (`LittleFS.cpp:298`; `lossy`). A `VFSFILE` of
  type `FATFS` leaves its pointer to an implementation undefined.
* The result of a scan whose count an `int8_t` makes negative (128 to 255 networks) is not
  released, and one of 256 is looked at not at all and of more in part (`WiFiMulti.cpp:89`;
  `wide` in `ScansServe`).
* `ble_server.ino` never advertises again after a connection shorter than a round of its
  `loop()`, or after the stack has refused to, which `BLEAdvertising.cpp:41` does not look at
  (`missed` and `refused` in `StaysReachable`).
* `tLed.h:113` compares times without regard to the wrap of the clock, unlike the button.
* `tone()` (`Tone.cpp:8`) has one `is_init` for all pins and initialises only once, so a
  second pin or another frequency never takes effect; `duration` is not looked at.

## 7. What is not modelled

* Inside a modelled component: socket options, addresses and ports, `write(Stream)`,
  hostnames, RSSI, MAC and static addresses, pin and clock settings, and the byte layout of
  DNS messages. None is read by the control flow the properties are about.
* Data races whose outcome the source does not determine: one access to the handler vector
  interrupted by another (calls that overlap between accesses are modelled), a torn update of the Arduino API's ring buffer, two threads in the
  low-level start of WiFi. They are hazards, and each says so.
* Calls out of order for which the code promises nothing: `SerialUART::end()` without
  `begin()`, the bytes of a `WiFiUDP::write()` to a full buffer, which ignores what `endPacket()` says, a
  write through a handle whose file was formatted away.
* Two threads that change the WiFi mode: nothing in the repository says they may.
* Questions that only ask the driver or the SDK (addresses, RSSI, MAC, network names of
  `WiFiSTA` and `WiFiAP`, `isMounted`, device state): they change nothing.
* Of the cloud client: raw data points, `remove()` and the board's licence. Of the BLE
  library: a second service, which starts the shared table over, and writes by the central.
  Of the file system: a second open file, reads, seeks and directory listings, which change
  nothing of the library's.
* `Log`, pins, tones, start-up, board variants and scripts: they keep no state across calls,
  are tables, or run once on the host.

## 8. Plan

The order is by how much the rest of the system stands on a part, and by how hard it is to
test. All steps are done.

1. `CbufFifo`, `Cbuf`, `CbufProofs`.
2. `WiFiUdp`, then `DNSServer` composed with it; `WiFiUdpProofs`, `DNSServerProofs`.
3. `HostByName`, `HostByNameProofs`.
4. `WiFiEvents`, with `WiFiMode` on top; `WiFiGenericProofs`.
5. `WiFiSocket`, `WiFiSocketProofs`.
6. `Ticker`, `SerialUART`, `Wire`, `SPI`, summed in `Peripherals`; `PeripheralsProofs`.
7. `LittleFs`, `MqttClient`, `TuyaIot`, `Ble`, `WiFiMulti`, and the sketches' `Button` and
   `QuickStart`, summed in `Services`; `ServicesProofs`.
8. `HttpClient` and `TuyaWeather`, in the same sum.
9. The compositions by refinement: `DNSServer` over `WiFiUdp`, `WiFiMode` over `WiFiEvents`.

Abstract specifications: the FIFO (`CbufFifo`), checked and proved; the UDP object under any
client (`WiFiUdp`) and the event queue under any program (`WiFiEvents`), which `DNSServer` and
`WiFiMode` are proved to implement. That a `WiFiClient` is a
reference-counted handle ("closed exactly when the last user lets go") is stated by the
invariant `EverySocketOwned`, and that its receive buffer is a window on one stream by
`StreamIntact`.

What would come next:

* a second BLE service over the shared table, and writes by the central;
* raw data points of the cloud client, and `remove()`;
* two threads that change the WiFi mode, if the code comes to promise something of them;
* the data race of `Ticker` (`Ticker.cpp:57`) and the wait of `SPI` on T3 (`SPI.cpp:142`) with
  properties of their own, if they are repaired: as the code is, the first has no
  outcome that the source determines, and the second waits for ever.

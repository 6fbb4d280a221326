# A specification of BSOD

BSOD shows network traffic as particles that fly between two planes. A
*server* (`src/server`) reads packets from a live interface or a trace file
with libtrace, groups them into flows and sends a stream of small messages to
every connected *client* (`src/client`), which keeps the flows it has been told
of and draws them. This directory holds TLA+ modules that model the two
programs, TLC configurations that check them on small instances, and proofs
that hold for every instance.

Run a configuration with `tlc -config X.cfg M`, the proofs with
`tlapm M_proofs.tla`. `PROJECT.json` lists the runs, maps every definition to
the lines it stands for, and lists the hazards the properties are aimed at.

## 1. The system

| Part | State | Operations | Hard behaviour |
|---|---|---|---|
| Flow table (`packets.cc`) | `flows` (an lru container), the next flow id, `lastts` | `per_packet`, `expire_flows`, `expire_all_flows`, `send_existing_flows` | ordering of expiry and export, unsigned time differences, snapshot for a new client |
| lru container (`lru`) | a list by recency, a map from key to (list iterator, value) | `find`, `insert`, `erase`, `pop` | the two containers must agree |
| Exporter (`exporter.cc`) | ring buffer with head and tail, one read pointer per client, two mutexes, one condition | `push_onto_fifo`, `create_client`, `disconnect_client`, `exporter_thread`, `write_fifo` | two threads, pointers freed from a callback, slow clients, a full ring |
| Main loop (`bsod_server.cc`) | options, the open trace, the wake-ups in the event loop, signal flags | `main`, `bsod_event`, `process_bsod_event`, `file_cb`, `sleep_cb`, `signal_event`, signal handlers | re-entry after a restart, callbacks that outlive a trace, flags overwritten |
| Listening socket (`socket.cc`) | `first_client`, `wait_for_client`, UDP socket | `listen_cb`, `udp_cb` | failing accept, first client ends a wait |
| RTT estimator (`RTTMap.cpp`) | a map from (flow, time stamp or sequence number) to the time it was seen | `Add`, `Retrieve`, `Flush`, `Update` | stale entries, time stamps that come twice |
| Darknet list (`Blacklist.cpp`) | the set of hosts that have sent, a file | `load`, `save`, `set_light`, `is_dark` | a file rewritten in place, crashes between and in two saves, files that cannot be opened |
| Configuration and plug-ins (`bsod_server.cc`, `plugins/`) | the globals of `do_configuration`, four loaded modules, the rows of `multiplenet24`, what `lpicolour` hangs on a flow | `load_modules`, `close_modules`; colour, direction and place of a packet | modules that are replaced while clients, flows and the colour table remain; tables that fill as packets arrive |
| Client network stream (`socket.cpp`) | receive buffer, descriptors, connection | `updateTCPSocket`, `openSocket`, `disconnect`, discovery | messages cut anywhere, state left by the last connection |
| Client flow manager (`flowmanager.cpp`, `flow.cpp`) | pool of Flow objects, vector, map, selection, look-up threads | `newFlow`, `newPacket`, `delFlow`, `delAll`, `showType`, `onClick`, `DnsLeft/Right` | four views of one object kept in step, threads without locks |
| Particle systems (`ps_*.cpp`) | a pool of particles, collections by colour and size, display lists | `add`, `update`, `del`, `delAll`, `showColor`, `render` | fixed capacity, collections found by a computed key, lists recorded one a frame |
| Server browser and windows (`gui.cpp`, discovery in both `socket.c*`) | which windows are shown, the two lists of servers, the ports probed | `beginDiscovery`, `updateUDPSocket`, `udp_cb`, `openSocket`, `disconnect`, button handlers | replies late, lost and out of order; state shared by windows and connection |
| Textures (`texture.cpp`) | the registry of texture objects, three pointers to them | `loadTexture`, `deleteTexture`, images of the server | pointers left to deleted objects |
| Rendering, configuration files, logs | OpenGL objects, files | | out of scope |

How they interact: `main` opens a trace and runs the event loop. Every wake-up
calls `bsod_event`, which passes packets to `per_packet` until the input has to
be waited for. `per_packet` updates the flow table and pushes messages onto the
ring, and the exporter thread drains the ring to the clients' sockets. A new
connection is greeted by `create_client` (version, colour table, images) and
`send_existing_flows` straight on its socket, outside the ring. The client cuts
the bytes into messages once per frame and calls its flow manager; the user's
clicks reach the same objects, and the look-up threads write to them.

What makes each part correct, in a sentence: every client's picture of the flows
is that of the table; the container's two halves agree; no freed read pointer
is used and no unread data is overwritten; the server goes on reading, reacts
to signals, and stops only when it should; the stream is a channel of messages;
each flow object is in exactly one place and can be found, selected, hidden and
removed; a round trip time is that of a packet and its answer, and a host is
called dark only if it was silent; what a packet is said to be and where it is
drawn is what the greeting and the flow messages announced; each particle is in
one collection and the screen catches up with it; every server in reach is
listed, and a click in the list takes the server the user sees.

## 2. The modules

| Module | Models | State and actions |
|---|---|---|
| `Lru` | `server/lru` | operators on the pair (list, map) |
| `FlowTable` | `packets.cc`, with the clients' views | `PerPacket` is one call of `per_packet`, its messages included; `StartTrace`, `EndTrace`, `Join`, `Leave` |
| `Exporter` | `exporter.cc` | main thread: `Push`, `Signal`, `Accept`, `Register`, `Greet`, `Readable`, `Disconnect`; exporter thread: `Check`, `Wait`, `BeginPass`, `BeginSend`, `EndSend`, `EndPass`, `AssignTail`; peers: `Close`, `Stall` |
| `ServerLoop` | `bsod_server.cc`, `listen_cb` | one action per stretch of `main` between two calls that block, and one per callback |
| `ClientStream` | the socket from `create_client` to `updateTCPSocket` | `OpenSocket`, `Send`, `Update(n)` (a read of n bytes and the whole parsing loop), `Lose` |
| `MessageChannel` | what the stream promises: whole messages, in order, once | abstract; `ClientStream` implements it (`IsChannel`) |
| `FlowManager` | client flows, descriptors, check boxes, look-up threads | one action per message handler and click, three per look-up thread |
| `ColourModules` | `plugins/colour`: `colours`, `sipcolour`, `lpicolour`, `bpfcolour` | operators: the table a module describes (`*Info`), the types it may give a packet, `LpiStep` for what it keeps |
| `PositionModules` | `plugins/direction` and `plugins/position` | operators: the direction of a packet, the place of an address, the rows of `multiplenet24` |
| `ServerConfig` | configuration, loading of plug-ins and what they make of a packet | `Boot`, `Top` (the head of main's loop), `PerPacket`, `EndTrace`, `Sigusr1`, `EditFile` |
| `PacketHandler` | `RTTMap`, `Blacklist`, sampling and the show options | `ReadPacket` is one call of `bsod_read_packet`; `RestartTrace` (the head of main's loop), `Stop`, `Crash`, `CrashInSave` start the next trace or the next server |
| `ParticleSystem` | `particles.cpp`, `ps_classic.cpp`, `ps_shaders.cpp`, `ps_texture.cpp` | `Start`, `Render`, `Update` for a frame; `NewPacket`, `Reconnect`, `AddFlowDescriptor`, `ProtocolClicked`, `TestData`, `PeriodicCleanup`, `Shutdown` |
| `Textures` | `texture.cpp` and the images of the server | operators and actions on the registry, used by `ClientBrowser` |
| `ClientBrowser` | `gui.cpp` windows and server list, discovery of both sides, connecting | one action per button, key or window event, one per datagram that arrives or is lost, `OpenSocket` inside those that connect |
| `MC*` | | values of the constants |
| `*_proofs` | | theorems |

`PacketHandler` and `ServerConfig` are about two other parts of the same
`per_packet` that `FlowTable` models: `FlowTable` leaves open what a packet is
coloured and where it is drawn, `ServerConfig` says so; `PacketHandler` starts
once the flow is known. `FlowManager` keeps the check boxes, `ParticleSystem`
what they hide; `ClientBrowser` connects, `ClientStream` is the connection.

Abstractions that matter:

* `FlowTable`: an address is a model value; a flow's two halves are two ids. The
  ring is taken as lossless and the clients' views change with the message
  (`Exporter` is about the ring). Seconds only, taken modulo `TimeMod`, so the
  unsigned subtraction of the code wraps here too.
* `Exporter`: positions in the ring are absolute and a message is one unit.
  libfifo is not in the repository; its operations are modelled from their use.
  A pointer that was freed can hold any offset (`FREED`).
* `ServerLoop`: libwandevent is not in the repository either. Its `running` flag
  is only set where the code sets it. A read may end in any event libtrace has
  (`Events`), one that `process_bsod_event` does not know included. A deleted
  watch whose memory is still pointed to can name any client's descriptor
  (`WatchesLeft`).
* `ClientStream`: a message is its bytes, but few: the fixed sizes keep the
  order of the real ones. The length of an image is one byte instead of four.
* `FlowManager`: positions, textures and particles are left out. The left and
  right look-up threads do the same, so one is modelled. The build has a GUI.
* `ServerConfig`: an address is its four octets, and a place is the pair of
  numbers a plug-in scales to coordinates. The guess of libprotoident and the bpf
  filters are not in the repository: the guess is a constant operator, and a
  packet says which filters match it. An array that the code leaves
  uninitialised holds any of `Junk`. A NULL pointer that is followed ends the
  program (`Die`). A scan that leaves an array ends the model (phase "overrun"):
  what such a server does is undefined, and nothing is said of it.
* `PacketHandler`: flows are pairs of end points, compared for equality only;
  that `cmp()` of `RTTMap.h` is no order for addresses more than 2^31 apart is
  left out. `LongIs64` says how wide the `unsigned long` behind a time stamp is.
  Of the options that a SIGUSR1 reads again, `darknet` and `blacklistdir` may
  change with every trace; sampling, `rttest` and the show options are constants.
  Opening the list's file may fail each time; a disk that fills up while it is
  written is left out, but for the truncated file of a crash.
* `ParticleSystem`: positions and speeds are left out; a life counts updates. Of
  a time stamp only this is kept: what a display list recorded of a particle is
  either still right or `Wrong`. `colour` is the colour a particle was added
  with, which its collection need not have.
* `ClientBrowser`: a server has one host name, one address and one reply. A text
  the user types is taken apart already (host, port, or a bad port). Between the
  look-ups of one frame nothing else happens, as in the program.

## 3. The runs

| Run | Instance | Shows |
|---|---|---|
| `flowtable` | 2 hosts (4 flow keys with direction and ports folded in), 1 client, timestamps 0..3 wrapping at 8, expiry after 1 s, three flows per trace (ids 0..5) | list and map of the container agree; every client's view is the table; a packet names a flow every client has; with ordered timestamps no idle flow is kept |
| `exporter` | 2 clients, ring of 2 messages, 2 that fit and any number that do not, clients that stall | no freed pointer in a pass; the two threads never write to one client at once; a quiet pass frees no unread data; the main thread gets on, closed clients are forgotten and the next push sends a message whose signal was lost, unless somebody has stalled |
| `exporter_outstanding` | 1 client, ring of 2, 4 pushes | violation: a tail assigned after the mutex is released passes unread data |
| `server_loop` | all values of `client_wait` and `loop`, 2 clients | no callback outlives its trace; the input is read on unless an unknown event or an early restart stopped it; only that restart takes the check for signals away, and all others are answered; the server exits only when told to |
| `client_stream` | two descriptors, two images, messages of all other types, 4 messages, reads of 1 to 6 bytes | nothing is lost; the stream is a `MessageChannel`; every message is handled |
| `client_stream_no_images` | no images configured | violation: zeroed image headers are read as a FLOW |
| `flow_manager` | 3 objects, 2 ids, 2 types, 2 look-ups | pool, map, vector, selection, hide flags and descriptors agree |
| `server_config` | all 13 plug-ins, 8 configuration files (one that does not parse, one with a library that is missing, one without the parameter, one with fewer rows than `NETCOUNT`), 5 packets, 2 loads, 2 rows | a type of a packet is described in the greeting; colour data is that of the loaded module; lpicolour's guess uses both sides; a packet is drawn where its flow was announced |
| `config_reload_colours` | the same | violation: after a SIGUSR1 that loads another colour module the greeting still describes the old one |
| `packet_handler` | 9 packets (handshake, time stamps, a ping, UDP), 2 hosts inside, times 1..4, every other packet sampled out; without a list 2 traces of 3 handled packets, with one 3 traces of 2, 1 and 1, 2 directories | a round trip time is that of a packet that was answered, and no older than the flushes allow; a host marked dark was silent as far as the list is sure to know, across restarts, failed opens and crashes |
| `particles` | 3 particles, collections of 2, two colours with sums 39 apart, the kind given or chosen from the hardware | the pool is conserved; an update ages every particle once; a particle of a checked colour is in a collection that is drawn; display lists catch up |
| `client_browser` | 2 servers, one in the first range of 2 ports and one only in a second, datagrams reordered and lost, 3 windows, a configured server or none | key movement follows the server window; rows are entries; no pointer is left to a deleted texture; every server in reach is listed |

Why the bounds are enough. `flowtable`: two keys in each direction give lists of
several flows, touches that reorder them and expiry of none, some and all; three
seconds against an expiry of one leave live and idle flows side by side; `IdLimit`
allows three flows, which is far from the wrap of the 32-bit counter of ids: that
case is out of reach. `exporter`: two clients are enough for one to be furthest
behind while the other leaves, and the small rings fill up; two messages fit, so
that one may lose its signal and another follow, and a third finds the ring full.
Two clients are also enough in `server_loop`, where only "none, one, more" is
looked at; all other variables are bounded by themselves. `client_stream`: every
cut of every message occurs, because reads are of any length up to more than the
longest message; the contents of messages look like types, lengths and version
bytes on purpose. `flow_manager`: two ids show a swap of the last flow into the
middle, three objects a look-up on an object that is neither active nor free.
`server_config`: the configuration files name every plug-in between them, two
loads are one change of modules, and two rows hold the inner networks but not the
outer one as well, which uses the same rows when both sides load the module: that
fills them, and one row is a parameter that is too small. `packet_handler`: three
packets are a complete handshake or a time stamp, its repetition and the echo; one
second to flush and to save against four seconds of time lets both fall due
between any two of them; two traces are one restart of each kind. For the list,
two directories and three traces let it be kept in one, left for the other, and
found again; the packet out is never displayed and must count all the same. A
third time the full set of packets would only repeat what the maps of two traces
show, because a list and the map of round trip times do not touch: `Bounds` of
`MCPacketHandler` keeps the long traces and the three restarts apart. `particles`:
three particles overflow a collection of two; the sums of the two colours are as
far apart as colours that differ by 1/255 in red, whose numbers meet after 39 full
collections, and no overflow gets that far here (`MCSum` makes it meet at once).
`client_browser`: the second server is found only if the range grows, and one
repeated and one late reply are possible; a third server would only repeat the
step. Bounds in guards: `MaxTime`, `IdLimit`, `MaxPush`, `MaxClients`,
`MaxMessages`, `MaxRead`, `MaxThreads`, `MaxLoads`, `MaxPackets`, `MaxRuns`, and
the size of `TexId`. `CHECK_DEADLOCK FALSE` is used where the program really may
stop: the server exits or dies (`server_loop`, `server_config`, `packet_handler`,
whose bounds also end a behaviour), the client shuts down (`particles`,
`client_browser`).

Each violation is described under `findings` in `PROJECT.json`, with the text of
the repository it contradicts.

Disagreements that have no run of their own. For the first ones a module states
what the text says; checked under the constants of the run above, or the ones given
here, TLC finds the behaviour.

* A packet with an early timestamp expires flows that are active: the idle time is
  an unsigned difference (`OnlyIdleFlowsExpire` of `FlowTable` with
  `Monotone = FALSE`; `packets.cc:140` against the comment at 129).
* When the ring is full the message is dropped for everybody and no client is
  disconnected (`SlowClientDropped` of `Exporter`; `exporter.cc:346` against
  `server/README:242-244`).
* A SIGUSR1 in the wait for the first client leaves an event loop in which nothing
  is scheduled: no input is read, and neither the restart nor a SIGTERM is served
  (`SignalTimerArmed` of `ServerLoop`; `bsod_server.cc:441` against 452-453).
  `OnlyRestartDeafens` says that nothing else leads there.
* An input that ends in the first `bsod_event` leaves the server running, because
  `running` is set after it (`EndOfTraceNoticed` of `ServerLoop`;
  `bsod_server.cc:311-312` against `server/README:191-195`).
* `multiplenet24` looks at `NETCOUNT` rows of an array that has as many as its
  parameter says, and leaves it if they are fewer (`RowsWithinTable` of
  `ServerConfig`; `multiplenet24.cc:72` and 121-132 against
  `server/README:149-151`).
* When all its rows are taken, what it returns is ignored: the packet is exported
  with whatever the array of coordinates held (`OnlyRowsRendered` of
  `ServerConfig`; `packets.cc:182-210` against `bsod_server.conf:125-126`).
* A full collection of one colour overflows into one of another colour when their
  numbers meet; the code logs "BAD DIFF", and the particles are hidden with the
  other colour (`CheckedIsShown` with `Sum <- MCSum`; `ps_classic.cpp:432-442`
  against `ps_interface.h:39`).
* A look-up thread goes on for a flow that was removed (`RemovedNotResolved` of
  `FlowManager`; `flowmanager.cpp:217`).
* When the signal for a pushed message comes before the exporter waits, the
  message stays in the ring until the next push, which `NextPushDelivers` says is
  enough (`exporter.cc:230`). Should such messages fill the ring, no push signals
  any more.
* An event that `process_bsod_event` does not know returns 0 with nothing
  registered and `running` still set (`bsod_server.cc:431-435`): the input is not
  read any more. No text of the repository speaks of such an event;
  `InputNotForgotten` names it as an exception.
* A client that joins during a flow is told the addresses of its second half in
  the other order than the clients that were there (`packets.cc:325-331` against
  `packets.cc:173-177`).
* A failed `accept` ends the wait for the first client (`socket.cc:97` against
  `server/README:115-118`); the watch `file_event` is deleted after it was freed
  in `file_cb`.
* A module whose parameter is left out is never initialised, although
  `position.h` says the parameter may be empty: `multiplenet24` and the bpf
  direction then follow NULL pointers. The network 0.0.0.0/24 is the mark of a free
  row of `multiplenet24`, and shares the first one.
* `hex2dec` loses the high digit, and the order of the bpf configuration compares
  red with blue, so two expressions of different colours can be one entry. A
  colour that loses all it has (#101010, #F0F0F0) becomes black, and black is what
  ends the table in `form_colour_msg`: the types after it are not described to
  any client (`NoBlack` of `ServerConfig_proofs`).
* The statics `last` and `next_save` survive the trace they were set in: a new
  trace with earlier packets is neither flushed nor saved until it has caught up.
  On a machine with 64-bit longs echoed time stamps find no entry
  (`LongIs64`). A crash in `save` cuts the list off, and a list whose file cannot
  be opened starts empty: hosts that have sent are called dark until they send
  again. A list that is switched off is neither saved nor deleted before the end.
* Colours of equal `Color::sum()` share their collections from the first, so that
  hiding one hides the other. A new collection of a hidden colour starts shown;
  the Hide and Show All buttons reach the particles only through the check
  boxes. After `delAll` and the hourly clean-up display lists show what is gone
  until their turn comes.
* Discovered servers are counted but never shown: the lines of
  `addDiscServerListEntry` that touch the list box are commented out. A reply to
  a discovery before a refresh lists its server twice; so does a host known by
  name and by address. The range reaches `replyPort + 4` where a comment says 5,
  so servers behind a gap of five ports are not found. A bad port replaces the
  address of a connection that stays.
* Texture objects of failed loads stay registered; `utilShutdown` uses a pointer
  before it checks it.

### Fairness

* `Exporter`: weak fairness of the exporter thread and of the main thread once it
  is inside a call (`Signal`, `Greet`); strong fairness of the two steps that
  take `clientmutex`, which the exporter releases between any two passes; a
  closed connection is readable until its callback runs, so its callback is
  strongly fair. Whether peers read, close or stall is not assumed; the
  properties name a stalled client as the exception, because the exporter
  writes while it holds the mutex. A spurious wake-up is possible and not
  promised.
* `ServerLoop`: weak fairness of `main` and of the two timers. Descriptors,
  signals and clients are not promised.
* `ParticleSystem`: weak fairness of `Start` and `Render`, and of the return from
  `updateMain`, whatever the network did in it: the main loop runs for ever. That
  frames which took no time, and are thrown away, are not all there is, is not
  needed: lists are recorded in those too.
* `ClientBrowser`: weak fairness of the arrival of every datagram that is on its
  way; the property names a lost one as the exception. The user owes nothing.
* `ServerConfig` and `PacketHandler` have safety properties only.
* `ClientStream`: the client calls `updateTCPSocket` once per frame, so `Update`
  is weakly fair. `AllHandled` is about behaviours in which the user does not
  connect again for ever.

## 4. The proofs

The theorems hold for all values of the constants that satisfy the named
assumptions of the modules. Most assumptions only say what the constants are
(numbers, flags, sets of packets); those that say more about the program are

* `TexIdAssumption` (`Textures`): there are texture ids for the images loaded at
  the start. `glGenTextures` hands out ids for ever; the model's are a set.
* `LibraryAssumption` and `BpfConfigAssumption` (`ServerConfig`): the plug-ins are
  those of `src/server/plugins`, the bpf plug-in has an `init_bsod_module`, and a
  bpf configuration has at most 127 entries, because the types of the plug-in are
  of type `char` (`bpfcolour.cc`).
* `PoolAssumption` (`ParticleSystem`): there is a particle at all. `pop_back` on
  an empty stack is undefined, and `MAX_PARTICLES` is positive.
* `MessagesAssumption` and `FixedSizeAssumption` (`ClientStream`): what the server
  writes is as long as its type and its last fixed byte say (`Framed`), with the
  sizes of `packetSizes`; both sides are compiled from the same structures.
  `ImagesAssumption` only says that an image is bytes.
* `Monotone` (`FlowTable`) is not assumed but a premise of the theorem about
  expiry.

Seven theorems more have a hypothesis, and each hypothesis is the exact place
where the program gives way without it:

| Theorem | Hypothesis | Without it |
|---|---|---|
| `RttAnswers` (`PacketHandler`) | `Apart`: no number of one kind (time stamp, sequence number, ping) is looked up as one of another | the round trip time is still between packets of one connection (`RttWithinConnection`) |
| `TypesAreDescribed` (`ServerConfig`) | `NoBlack`: no configured colour is read as black | the colour table ends at the black entry |
| `StreamInvariant`, `BytesAreKept`, `ClientInStep`, `StreamIsChannel` (`ClientStream`) | `ImagesConfigured`: both sides have an image | the client takes a zeroed image header for the start of a FLOW (`client_stream_no_images`) |
| `CheckedColoursShown` (`ParticleSystem`) | `NumbersApart`: the numbers of the collections of two colours do not meet, however many there can be | particles overflow into the other colour's collection and are hidden with it |

The runs satisfy `Apart` (`MCPacketHandler` has TLC check it); the others are
plain from their constants. `TypesAreDescribed` has its hypothesis in the run too:
no configured colour turns black there.

* `FlowTable_proofs`. The inductive invariant `IInv` is the conjunction of the
  types, the container's two halves, distinct ids, views and the packet message,
  whatever the order of the timestamps (the run has them in order). They need
  each other: a view is right because ids are distinct, and an id is found
  because list and map agree. The lemmas at the top say what `find`, `insert` and
  `pop` do to the list. `TimesInv`, that the list is in the order of the times,
  is added for timestamps that do not go back
  (`Monotone`); from it follows `NoIdleFlows`: the early exit of `expire_flows`
  misses nothing. That only idle flows expire is not true of other timestamps
  (`OnlyIdleFlowsExpire`), and of these it is no more than the test itself.
* `Connection_proofs` is about `Exporter` and `ClientStream`, the two ends of a
  connection. `PassInv` says what `clientmutex` protects: during a pass the
  clients still to visit are connected, and the pointer furthest behind is one of
  them or the head; between `Register` and the end of `Greet` the new client has
  nothing to be sent. `QuietInv` is about passes that nothing disturbs.
  For the stream, `Parse` is shown to be well defined by induction from the end
  of the buffer (`ParseLoop`, `DownFrom`): it goes on only at a higher index,
  because every message has at least one byte. The same induction gives what the
  loop does with any buffer (`ParseFacts`): the messages found and the bytes left
  are together the buffer, and if the buffer begins with whole messages, those
  are found whose last byte is there (`InStep`). `StreamInv` adds that everything
  sent is a whole message and that what has been handled is a beginning of it.
  `NothingLost` alone is not inductive: it does not say where in the stream the
  buffer starts. The refinement (`StreamIsChannel`) takes each action to one of
  `MessageChannel`; `Update` is a `Deliver` of the messages found, perhaps none.
* `ServerLoop_proofs`. `PhaseInv` says which wake-ups and which trace exist in each
  phase of `main`; `WaitInv` what is known while the first client is awaited.
  `ReadInv` is what `InputNotForgotten` needs: the first event is not reached with
  a SIGTERM pending, so a trace that was stopped by a request in it was stopped by
  a restart. `SignalInv` (`DeafByRestart`) follows the check for signals from the
  wait to the first event: where it is not scheduled, a signal has been found, and
  of the two only a restart gets past the test of `terminate_bsod`.
* `FlowManager_proofs`. `IInv` is the conjunction of all invariants of the run and
  `VisibleHasType`, that a flow that is not hidden has had a packet. Without it
  the selection could not be shown drawable, because a click selects any flow
  that is not hidden. That check boxes and flags agree after a new descriptor
  needs `DescriptorsExist`: no flow can have had a packet of the new type yet.
  One lemma per action; `PushProperties`, `PopProperties` and `SwapProperties`
  are about the sequences.

* `ServerConfig_proofs`. The first thousand lines are about the plug-ins: what type
  each of the four colour modules can return and how long the table it describes
  is (`AllDescribed`), which states `lpicolour` can leave on a flow (`LpiOK`), and
  that `multiplenet24` never moves a network once it has a row, for any `NETCOUNT`
  and any parameter (`Fixed`; `RowNumbers` says what rows an array has for the
  scan). The invariant ties them together: `TableInv` says whose table the
  greeting holds, `LpiInv` what hangs on flows, `PlaceInv` that the places of a
  flow are those its ends have for good. `ColourDataFresh` is needed by all three,
  since a state of `lpicolour` means nothing to another module. The ends of the
  program, and of what is known of it, clear what the invariant speaks of
  (`EndsInv`).
* `PacketHandler_proofs`. `FreshInv` says how old an entry can be that a packet
  meets: the last flush was at most `FLUSH_EVERY` before every packet handled so
  far, and left nothing older than `FLUSH_AGE`. `AnswersAreRecent` adds the gap
  before the packet that finds the entry, because the flush runs after it. As
  `last` outlives the trace, all this holds from the first flush of a trace on, or
  from its beginning if the trace does not begin before the remembered one; the
  rest is `Behind`. `ListInv` says that a host that counts is in the list, and in
  the file if it came from there; `SaveInv` that a save that succeeded wrote all
  that had been learned by then, which is what a crash leaves. The history
  variables `learned`, `kept`, `saved` and `flushed` exist for these two
  properties only. `Provenance` says for every entry of the map which packet of
  the trace it stands for, with handshakes moved to the other flow.
* `ClientBrowser_proofs`. `WindowInv` adds to the two invariants of the run that no
  window is shown before the start, where a configured server is listed without
  being displayed. `TexturesAlive` needs the types of the registry and
  `TexIdAssumption`. `NoneOverlooked` is the safety half of `EveryServerFound`:
  a server in the range probed so far is listed, or a datagram about it is on its
  way or was lost. It is inductive as it stands.
* `ParticleSystem_proofs`. The inductive invariant of the pool is `TypeOK` and
  `PoolConserved` only; the work is in the loops. Each loop of the code is a
  recursive function, and has three lemmas: what one turn does, that the function
  is defined where the loop uses it, and what the whole loop does. `update`
  deletes from the vector it walks over, so its lemma (`UpdatedLoop`) speaks of
  the part before the index, which is done, and the part after it, which is
  untouched. `SomeFits` is the pigeonhole argument that a particle that was free
  finds a collection with room. The order in which `std::map` is walked is that of
  `SetToSeq`; `UpdateAges` and `DelAllFacts` hold for any order.
  `CheckedColoursShown` takes two invariants more: `CollectionsShown`, that a
  collection of a checked colour is drawn, and `OwnColours`, that a collection has
  a number of its colour and, with `NumbersApart`, no particle of another.

Induction is over the natural numbers, through a set: `SetInduction` says that a
set of naturals that contains 0 and with each number the next is all of them (from
`WFMin`, the well-foundedness theorem of the library without an operator
parameter). A statement to be proved for all n is turned into the set of the n it
holds for. This is enough for the loops, whose turns are counted, and for `Parse`.

The type invariants (`TypeOK`) and `IdsDistinct` are proved and no longer part of
a run, and `NoneOverlooked` and `RttOfConnection` are proved without one. Only
model-checked:

* all liveness, which depends on fairness: `MainThreadProgress`,
  `ClosedClientForgotten`, `NextPushDelivers`, `TermExits`, `RestartServed`,
  `AllHandled`, `ListsCatchUp`, `EveryServerFound`;
* the three violations, which are counterexamples and need no proof.

## 5. What is not modelled, and the plan

Not modelled, on purpose: rendering, camera and mouse, shaders, fonts, sliders
and layout of the GUI, parsing of configuration and image files, log and daemon
helpers, the scaling of places to coordinates (floats), the grammar of the bpf
configuration, and the libraries. `ps_vtf.cpp` is compiled but nothing selects
it. `operator[]` of the lru container is not used by the server.

Planned: `System`, that is `FlowTable`, a ring that may drop messages, and
`FlowManager` as the client's view; the view as a refinement when nothing is
dropped, and what is left of it when something is.

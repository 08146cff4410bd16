# Verification of xtunnel

TLA+ models of the tunnel of this repository (`src/`), the TLC runs that check
them and the theorems TLAPS proves about them.

## The system

xtunnel is an Android VPN. A packet of an application takes this way:

    TUN device -> hev-socks5-tunnel (C, lwIP and cooperative tasks)
               -> SOCKS5 server on 127.0.0.1 (Go, xtunnel.go)
               -> one of N websocket channels with smux streams -> the server

Two processes run it: the user interface (`MainActivity`, `CfOptimizer`,
`SubscriptionManager`) and `:vpn` (`TProxyService`, the C library, the Go core).
They share `SharedPreferences` and talk by intents. The preferences are a file
and, in each process, a map that is read from it when a `Preferences` object is made
and written to it as a whole by a commit that changes something.

| Component | State | Operations | Interacts with |
|---|---|---|---|
| ECHPool (`xtunnel.go` 771-1014) | `smuxConns`, `channelRTT`, a goroutine and a probe for each channel, `ctx` | `Start`, `Close`, `dialAndServe`, `probeChannelRTT`, `openBestStream` | made and closed by the core; used by every SOCKS5 connection; `refreshECH` |
| SOCKS5 core (198-370, 1320-1468) | `serviceMu`, `proxyListener`, `echPool`, the configuration globals | `StartSocksProxy`, `StopSocksProxy`, `WaitSocksProxyReady`, the handlers | called by threads of the VPN service; handlers read `echPool` without the mutex |
| ECH configuration (402-640) | `echList`, `refreshMu` | `prepareECH`, `refreshECH`, `getECHList` | dials of the pool; start of the core |
| UDP association (1269-1596) | `stream`, `target`, `clientAddr`, `closed` | `loop`, `send`, the reply reader, `Close` | three goroutines of one SOCKS5 connection |
| VPN service (`TProxyService.java`) | `tunFd`, `currentSwitchSeq`, `switchLock` | `onStartCommand`, `startService`, `switchProfile`, `stopService`, `onRevoke` | intents in, calls of the Go core and of the C library out |
| User interface (`MainActivity`, `CfOptimizer`) | the current profile it shows, `CURRENT_PROFILE_ID` and `enable` in its map of the preferences | select, toggle, apply, synchronise, optimise | intents to the service |
| Subscription and preferences | the set of profiles, their order and fields | `applySubNodes`, add, remove, copy | background threads and the main thread on the same file |
| hev-socks5-tunnel (`hev-jni.c`, `hev-main.c`, `hev-socks5-tunnel.c`) | `is_working`, `run`, `event_fds`, `session_set`, `session_count` | start and stop by JNI, event, device and timer tasks, sessions | called by the VPN service; connects to the SOCKS5 server |
| TCP session (`hev-socks5-session-tcp.c`, `misc/hev-ring-buffer.c`) | `queue`, ring buffer, `pcb`, `pcb_eof`, the task's stage and timeout | `tcp_splice_f`, `tcp_splice_b`, the callbacks `tcp_recv_handler`, `tcp_sent_handler`, `tcp_err_handler` | lwIP on the device's side, a socket to the SOCKS5 server |
| UDP session (`hev-socks5-session-udp.c`, `core/src/hev-socks5-udp.c`) | `frame_list`, `frames`, `addr`, the control connection, the task's stage and timeout | `udp_recv_handler`, `fwd_f`, `fwd_b`, the yielder that looks at the control connection | lwIP on the device's side, the mapped DNS, a UDP socket to the SOCKS5 server |
| Mapped DNS (`hev-mapped-dns.c`) | list, red-black tree, `records`, `use` | `find`, `lookup` | DNS queries from the device; destinations of sessions |

What is hard in it: goroutines that outlive the pool they belong to; globals
read without the mutex that guards them; switch requests that overtake each
other while a start waits up to 15 seconds; a restart of the process with intents
still under way; a flag and a profile read long before they are used, or written back; a shutdown
that must wake tasks that sleep without a deadline; an LRU cache that reuses the
addresses applications still hold; memory lent to lwIP until the device has
acknowledged it; callbacks that come between two yields of a task; one direction
of a connection that ends before the other. `PROJECT.json` lists each at its line under
"hazards", with the property that covers it or the reason why none does yet.

## The modules

| Module | Models | Actions |
|---|---|---|
| `EchPool` | `ECHPool` of `xtunnel.go` | one for each stretch of `dialAndServe` between two points where another goroutine may run; the probe goroutine; `Close` in two steps (cancel, then the slots under `wsConnsMu`); `openBestStream` in two steps (its two read locks); the network |
| `EchConfig` | `echList`, `prepareECH` and `refreshECH` across starts and stops; EXTENDS `SocksCore` | a start's query and a channel's, answered or asked again for whatever node the globals hold by then; the tries of `dialWebSocketWithECH`; a failed query and the next one are one step, as only the globals read by the next one matter |
| `SocksCore` | `StartSocksProxy`, `StopSocksProxy`, SOCKS5 handlers | a caller goes `start`, `resolving`, `listening`, `started` or `stop`, `closingListener`, `closingPool`, `stopped`; `serviceMu` is held in between; connections accept, connect, associate, relay and end |
| `OneNode` | what the core promises to the application: one node at a time, its port open only while it runs | abstract specification, `SocksCore` implements it, and under `TProxyService` it does so up to the end of the process |
| `TProxyService` | the VPN service and those who send it intents; EXTENDS `SocksCore`, whose callers are the main thread, the binder thread of `onRevoke` and one thread for each switch request | `onStartCommand` by intent, the steps of `startService`, of a switch thread, of the optimizer; `onRevoke` at any time the device is there; commits and reads of the preferences; crash, restart, exit |
| `HevTunnel` | the JNI methods, the thread that runs the tunnel, its tasks and its session set | what a task does between two yields is one action |
| `UdpAssociation` | one `UDPAssociation`: the goroutines of `handleSOCKS5UDP`, `loop` and the reply reader | `Close` by any of them in four steps (the section under `mu`, then stream, UDP socket, TCP connection); `send` from the section under `mu` to the write; the server ends the stream |
| `RingBuffer` | `hev-ring-buffer.c`: a buffer whose data is read, then released | operators |
| `TcpSplice` | the task of one TCP session, the callbacks of lwIP and both ends; EXTENDS `RingBuffer` | `tcp_splice_f` and `tcp_splice_b` are one action each, as nothing yields in them; the drain before the task returns; the timeout, a termination; segments in flight to the device carry what the memory holds when they are sent |
| `ByteRelay` | what a TCP session promises, in both directions | abstract specification, `TcpSplice` implements it |
| `UdpSession` | the task of one UDP session, its queue and the control connection; EXTENDS `MappedDns` | `udp_recv_handler` with its lookup of any address by its low bits, `fwd_f` up to a `sendmmsg` that takes all, a part or nothing, `fwd_b`, the yielder; other sessions and queries use the mapped DNS in between |
| `MappedDns` | `hev_mapped_dns_find`, `_lookup` | a hit, a new index, an eviction, a lookup |
| `AddressBook` | what the mapped DNS promises | abstract specification, `MappedDns` implements it |
| `EchPoolProofs`, `SocksCoreProofs`, `EchConfigProofs`, `UdpAssociationProofs`, `HevTunnelProofs`, `TcpSpliceProofs`, `UdpSessionProofs`, `TProxyServiceProofs` | | theorems |
| `MCEchPool`, `MCTProxyService`, `MCUdpSession` | | constants and symmetry for TLC |

Definitions whose name has an underscore followed by a capitalised word
(`DrainProbe_NoWait`) are mutants: the bug a property is there to catch. They are
in no next-state relation.

Abstractions. Payloads, addresses and wording are left out. A node (profile) is
a model value: its server address, token, DNS server and ECH domain are what the
globals of the core hold (`config`). A pool, a session, a switch request and a
thread of the tunnel are numbered in the order they are made; 0 stands for nil. In
`EchPool`, `rtt` also records the session a value was measured on, and in
`AddressBook`, `since` records the names used since the last use of a name: neither
is read by an action's guard in the code's models; nor is, in `TProxyService`,
`reverted`: that `:vpn` has put an older profile back. The preferences of
`TProxyService` have two entries, `enable` and the current profile: `stored` is the
file, `ui` the map of the user interface, `loaded` that of `:vpn` from the read at
the top of `startService` to `setEnable(true)` at its end (a switch thread gets its
node with the intent), and `selected` what `MainActivity` shows, which its
`Preferences` object keeps (`currentProfileId`). A commit is one step, as it waits for the
write. The memory an allocation needs is
always there, except where a mapped definition says otherwise; a DNS message with
several questions is several `find` steps. lwIP ends a pcb in TIME_WAIT after two
minutes (`tcp.c` 1467-1486) without calling `errf`: a TCP session whose upload is
blocked for longer keeps a pointer to freed memory and uses it in `tcp_recved` or
`tcp_abort` (`hev-socks5-session-tcp.c` 74, 329). `TcpSplice` keeps that pcb, whose
window is all that is touched, and says nothing of what the memory holds by then.

External parts, modelled as the code uses them: smux closes a session whose
peer is silent and refuses streams on a closed one; lwIP frees a pcb at any time;
the task scheduler runs ready tasks in any order and a join wakes the task it
waits for; Android delivers intents in order, makes a process for an intent that
finds none, restarts a process that crashed (`START_STICKY`) with the intent it was
handling and those behind it or, without any, a null one, and does not restart one
that calls `System.exit` in `ACTION_DISCONNECT`; after the `System.exit` of `onRevoke`
it may or may not. A nil dereference in a goroutine
ends the process.

## The runs

| Run | Shows | Bounds |
|---|---|---|
| `ech_pool` | types; `RttOfPublishedSession`: no late probe of a replaced session rates the next one; `OpenSessionHasOwner`: no websocket is stranded by any order of dial, death, probe and `Close` | 2 channels (symmetric), 2 dials each, so that a session is replaced; 1 client, which chooses between the channels; refreshes by both channels |
| `ech_pool_live` | after `Close` every session and stream is released for good (`ReleasedAfterClose`), goroutines end unless they wait for an ECH record (`ChannelsExitAfterClose`), a dead session leaves its slot (`DeadSessionRetired`) | 1 channel, as channels meet only in `refreshMu` and in the choice of `openBestStream` |
| `ech_config` | `EchHeals`: a record of the node before, or a query that hangs on a node without one, does not keep the live pool from connecting; `ClosedChannelsExit`: goroutines of a closed pool end although `prepareECH` does not look at its context; refreshes are one at a time | 1 caller, 2 pools (the last node and the next), 4 nodes: two that answer, one that never does, one without ECH; 1 channel each, which meet in `refreshMu` |
| `hot_switch` | `LatestSwitchWins`: overtaken requests neither stop nor replace the latest; `StartNotRefused`; of the core `NoOrphan` and `ConfigOfLivePool`, with the main thread, the binder thread and the switch threads as its callers; `HostsOneNode`: refinement of `OneNode`, with a process that may end; `RunsSelectedNode`: when all is quiet the pool in use is the selected node's, with the exception below; types | 2 switch threads, 3 pools (one for the start and one for each switch), 2 nodes (symmetric), 2 intents under way, 1 connection, so that the process may crash; without the optimizer |
| `hot_switch_live` | `DisconnectEndsProcess`; `SwitchesSettle` | the same with 1 node, as what a switch is to does not matter here, 1 intent under way and the optimizer |
| `udp_association` | types; `StreamHasReader`; `OneCloser`: one goroutine at a time is past the test of `closed` in `Close`; all goroutines of the client's side end after any `Close` (`AssociationEnds`), the stream is closed with the association (`StreamReleased`), the end of a stream closes the association (`StreamEndCloses`) | 2 senders, of which one becomes the client; one association, as associations share nothing but the pool |
| `udp_session` | `SendsAsMeant`: what is queued goes where it was meant to go when it came, with the exception below, in order, once, however `sendmmsg` splits a batch; `WaitsOnlyIdle`: no lost wake-up; `ControlEndEnds`: the session ends with its control connection; `Consistent` and `KeepsAddresses` (refinement of `AddressBook`) of the mapped DNS beneath it | 3 names on 2 addresses, so that an address changes hands while a datagram is queued; datagrams to a mapped address and to one outside the network with the same low bits, each of which is plain while the record is empty; a queue limit of 1, so that 2 frames make a batch that is sent in parts; 1 reply to be read |
| `hev_tunnel` | `OneTunnel`, `SessionsTracked`, `TimerServesSessions`, and the stop of a running tunnel returns (`StopOfRunningReturns`) | 2 Java threads, 2 starts (the statics are used again), 3 sessions with a limit of 2 |
| `tcp_splice` | types; `UnackedIntact`: memory lwIP may send again is not written; `WindowCoversQueue`: the receive window is opened by exactly what left the queue; `WaitsOnlyIdle`: no lost wake-up; `KeepsStreams`: refinement of `ByteRelay` | a buffer of 3 bytes and 4 bytes down, so that it wraps with unacknowledged bytes in it; a window and 2 bytes up, so that the window closes and opens |

`StreamReleased` has the exception the code has: an association closed while its
first datagram opens a stream keeps that stream in its field, after `Close` has
looked there. Nothing closes it then but the server or the end of its channel;
`StreamHasReader` says that a goroutine still waits for that.

`OneCloser` is about the section of `Close` after the test. The sockets may be
closed again after it, by the deferred closes of `handleSOCKS5` and
`handleSOCKS5UDP` (`xtunnel.go` 1321, 1432), which does nothing more.

`RunsSelectedNode` and `SendsAsMeant` have an exception each, for what the code does
and no document means it to do. Either property without its exception is violated in
its run.

- *The older profile* (`reverted`). `startService` makes its `Preferences` first
  (`TProxyService.java` 101), waits up to 15 seconds for an ECH record, and then
  calls `setEnable(true)` (262). If the map it read had `enable` off, the commit changes it and
  writes the whole of it, with the profile of then. The user switches on and off;
  `:vpn` takes up the first CONNECT after the off has been committed, reads {off, A}
  and waits; the user taps on B, which sends nothing as the switch is off; the user
  switches on again; `:vpn` writes {on, A}. The DISCONNECT ends the process, the last
  CONNECT makes another, and that one starts A while the interface shows B, until the
  next tap. The comment of `selectProfile` (`MainActivity.java` 860) promises "停用状态下：即时切换当前节点并刷新界面高亮"
  (while switched off: the current node changes at once, and so does the highlight).
  A tap ends the exception if it gets its profile into the file; switching on and off
  does not.
- *The aliased address* (`Aliased`). `hev_socks5_addr_from_lwip` looks every IPv4
  address up (`hev-utils.c` 75-96), and `hev_mapped_dns_lookup` takes `ip & ~mask` for the index of a
  record (`hev-mapped-dns.c` 258) and does not compare `ip & mask` with the network,
  which `conf/main.yml` 42-44 calls "Mapped IP network base" and "mask". The app
  configures 240.0.0.0/4 and 10000 records (`TProxyService.java` 189-191), so that
  a datagram to 224.0.0.251 (mDNS) goes to the name of record 251, if there is one.
  `Meant` says what the device means by an address from the mapped network and the
  tree of names; `Resolved` what the code makes of it. A TCP session finds its
  destination in the same way. For `AddressBook` such a lookup is a use of the name.

Three runs find what a comment or document says violated by the code:

| Run | Finding |
|---|---|
| `hot_switch_tun` | the hot switch is to keep the TUN device; a CONNECT handled between `echPool = nil` and the end of `StopSocksProxy`, or accepted before and handled in it, dereferences nil and takes the process down |
| `optimizer_race` | a tap on a node switches to it; the optimizer that started before the tap switches back when it ends, because its `Preferences` object keeps the profile of that time |
| `hev_stop` | "Wait for async initialization": when `hev_socks5_tunnel_main` has failed early, the wait never ends, with the JNI mutex held |

## Fairness

Goroutines, Java threads and tasks are scheduled (weak fairness of each one's
steps). Dials, probes, the wait for ECH in `StartSocksProxy` (15 s) and
`WaitSocksProxyReady` (3 s) have deadlines, so they return. No fairness is
assumed of a DNS server that must answer `prepareECH`, except that one of a node
in `Answering` does in the end in `ech_config`, where a dial of a live pool also
reaches its server in the end; none is assumed of users, of clients, of
the optimizer or of the network. A stream of a client has to end only once its
session is closed. A session of hev-socks5-tunnel may last as long as the tunnel
runs; after `run = 0` nothing is read from the device any more and its timeout
comes at last. `TProxyService` takes `TProxyStartService` and
`TProxyStopService` as single steps that return; `hev_stop` shows when the latter
does not.

## The proofs

| Module | Theorems | Argument |
|---|---|---|
| `EchPoolProofs` | `TypeCorrect`, `PoolInvariant`, `RttIsCurrent`, `NoStrandedSession` | `RttOfPublishedSession` is not inductive: a probe that outlived its session would break it. `IInv` adds that a slot holds only the latest session of its goroutine (`SlotIsLatest`), that a probe runs only while the goroutine waits for it (`ProbeIsAwaited`), and that a drained session is closed (`DrainedIsClosed`) |
| `SocksCoreProofs` | `CoreInvariant`, `CoreTypeCorrect`, `NothingOrphaned`, `LivePoolReadsItsConfig`, `ListensOnFreePort`, `CoreRunsOneNode` | `CoreInv` adds that only the holder of `serviceMu` is in a locked section (`MutexHeld`) and how the two globals pair up at each of its steps (`Paired`). For `OneNode`, the pool in `echPool` is not closed (`GlobalIsLive`), and `OpenUnderMutex` says what is open in each locked section: a start runs a pool where none runs, serves once it listens, or leaves it again; a stop withdraws the listener before it leaves the pool |
| `EchConfigProofs` | `EchInvariant`, `EchTypeCorrect`, `EchKeepsCore`, `EchRunsOneNode`, `EchAsksForLiveNode` | `EchInv` adds to `CoreInv` that nothing panics without connections, that a channel comes with its pool (`ChannelOfPool`) and that one that refreshes has a try left (`TryLeft`), without which the types are not inductive. Every step is one of `CoreNext` or leaves the core alone, so `EchSpec => CoreSpec` (`EchKeepsCore`), which carries every theorem of `SocksCoreProofs` over. `AsksForLiveNode` is an action property: once a pool is live, every query that is begun, by a closed pool's channel too, is for its node |
| `UdpAssociationProofs` | `AssociationInvariant`, `AssociationTypeCorrect`, `StreamIsWatched`, `ClosedOnce` | `UInv` adds that a goroutine past the mutex of `Close` has set `closed` (`ClosedIfClosing`) and that the loop opens a stream once, before there is a reader (`OpensOnce`) |
| `HevTunnelProofs` | `TunnelInvariant`, `TunnelTypeCorrect`, `OneTunnelAtATime`, `SetTracksSessions`, `TimerIsAwake` | `HInv` adds that whoever stops holds the JNI mutex (`MutexHeld`, `StopIsOfWorking`), that only the last thread made may be running (`LastThreadWorks`) and that tasks exist only in `hev_socks5_tunnel_run` (`TasksOfRun`). `UnlinkedRemoves` and `AppendAdds` say what the list operations do to a list without duplicates |
| `TcpSpliceProofs` | `SpliceSafe`, `SpliceTypes`, `SpliceUnackedIntact`, `SpliceWindow`, `SpliceWaits`, `SpliceRelays` | `SafeInv` adds to the invariants that what lwIP has not had acknowledged lies, in order, in the cells behind `rp` of the buffer, within `use_size` (`BufferInv`); the ring's cells are all different (`BehindDiffers`), so `writing` never offers one of them. `WaitInv` says what each result left open when its direction had nothing to do. For `ByteRelay` bytes are numbered: the queue continues what the server has got (`UpStream`), and `refs` is the numbers up to `taken` (`DownStream`) |
| `UdpSessionProofs` | `DnsInvariant`, `DnsConsistent`, `DnsKeepsAddresses`, of `MappedDns`; `SessionInvariant`, `SessionTypes`, `SessionSendsAsMeant`, `SessionWaitsIdle`, `SessionKeepsDns`, `SessionKeepsAddresses` | `DnsInv` adds that the list is in order of last use (`ListIsRecency`): the names behind the head were all used since its own last use, and there are as many as addresses, which is what `AddressBook` asks of an eviction. `SessionInv` adds that a batch is out only in `sendmmsg` (`BatchIsOut`) and what the results say of the queues once both have been looked at (`IdleF`). The queue and what is due lose the same prefix when a batch is sent (`DropDrop`, `DropAppend`); what is appended to them agrees because the record of an index and the name whose node has it are the same (`Consistent`), but for an aliased address. A step of the session is a step of `MappedDns` or leaves it alone (`DnsRefined`), so that `DnsInv` and the refinement of `AddressBook` carry over |
| `TProxyServiceProofs` | `ServiceInvariant`, `ServiceTypes`, `LatestSwitchRuns`, `StartsAreNotRefused`, `ServiceKeepsCore`, `ServiceRunsOneNode`, `SelectedNodeRuns` | `ServiceInv` adds to `CoreInv` whose call is in which phase (`MainCall`, `BinderCall`, `SwitchCalls`), that a switch thread past the first check of `seq` holds the lock (`LockHeld`), that a request that overtakes it waits (`OvertakerWaits`), that both globals are nil between a stop and the start that follows (`NilBeforeStart`), and for `LatestSwitchWins` what holds from the return of the start on (`LatestRuns`). The call under way is then that of the latest request (`OnlyLatestMoves`). `ServiceRunsOneNode` takes the refinement of `OneNode` over, where a crash or an exit is `ProcessEnds`. `RunsSelectedNode` speaks of quiet states only; `SelectionInv` says what holds on the way to them: unless an older profile has been put back, the file and the map of the user interface have the selected node (`SelectionStored`), the last switch under way is to the selected node (`LastSwitchSelected`), a switch of the user interface that is off has its DISCONNECT under way as the last intent or has stopped the service (`DisabledStops`), nobody connects and so nothing panics before the listener is there (`QuietBeforeListening`), an overtaken request is never the latest (`LatestFailed`), and with no switch and no stop under way the latest request, the start or the pool is of the selected node (`ServesSelected`) |

They hold for every value of the constants that satisfies the assumption of the
module (`PoolAssumption`, `CoreAssumption`, `EchAssumption`, `AssociationAssumption`,
`DnsAssumption`, `UdpAssumption`, `TunnelAssumption`, `RingAssumption`,
`SpliceAssumption`, `ServiceAssumption`);
`SpliceRelays` moreover assumes that `tcp_write` does not refuse the first of two
chunks and then take the second (`"first"` is not in `Refusals`): the code would
leave a hole in the stream then, since it passes both chunks before it looks at
the results. `SelectedNodeRuns` assumes that the optimizer does not run
(`~Optimizing`): `optimizer_race` shows a behaviour with it that ends on another
node; its statement has the exception of the older profile, as that of
`SessionSendsAsMeant` has the one of the aliased address. The theorems of `SocksCoreProofs` are about callers that start and stop
freely, as `CoreSpec` says. TLC checks the core under its callers, in `hot_switch`
and `ech_config`; `TProxyServiceProofs` proves that those of the service, with
crashes, keep `CoreInv` and the promise of `OneNode`, and `EchConfigProofs` that
`EchSpec` implies `CoreSpec`. `PortIsFree` and `AsksForLiveNode` are proved and in no
run of their own: `HostsOneNode` catches a listener left open, and `EchHeals` a query
for the wrong node that matters.

Out of reach of the prover, and so only model-checked: liveness under fairness
(the properties of `ech_pool_live`, `EchHeals`, `ClosedChannelsExit`,
`DisconnectEndsProcess`, `SwitchesSettle`, `StopOfRunningReturns`, `ControlEndEnds`
and the three temporal properties of `udp_association`). Every other property of the
passing runs is stated by a theorem.

## Not modelled

The wire formats (SOCKS5, smux headers, DNS messages, YAML), the websocket and TLS
libraries, lwIP and the task system; scoring in `CfOptimizer`; layout,
notifications and statistics; the SOCKS5 server side of hev-socks5-core, which the
app does not use; the drivers of other platforms.

## Plan

1. Done: `EchPool`, `SocksCore`, `EchConfig`, `TProxyService`, `MappedDns`,
   `HevTunnel`, `UdpAssociation`, `RingBuffer`, `TcpSplice`, `UdpSession` and `OneNode`,
   with the proofs above.
2. The destinations of datagrams in `UdpAssociation`: which target a datagram goes
   to once the stream is open for the first one's.
3. `Subscription`: `applySubNodes` and the user interface on one set of
   profiles; that nodes added by hand survive and the current node exists.
4. The codecs of the SOCKS5 server as operators with round-trip properties.

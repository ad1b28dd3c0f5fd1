# A TLA+ model of AWGSocks

AWGSocks is a Windows service that offers a loopback SOCKS5 proxy whose traffic
leaves the machine only through a userspace AmneziaWG tunnel. This directory
holds TLA+ modules for the parts of it that are concurrent and hard to test, the
TLC configurations that check them on small instances, and TLAPS proofs of the
properties that matter most. Paths below are relative to `src/`.

## 1. The system

| Component | State | Operations | Talks to |
|---|---|---|---|
| Tunnel (`internal/awg/tunnel.go`, `dryrun.go`) | `cfg`, `dev`, `tnet`, `running`, `ready`, `kick`, supervisor goroutine | Start, Stop, Reload, Reconnect, supervise, performReconnect, WaitReady, DialTCP, ListenUDP, LookupHost | device, resolver |
| Manager (`internal/service/manager.go`) | `tunnelWanted`, `pausedBy`, `tunCfg`, `app`, `socks`, `retryCancel`, `retryGen`, `ctx`, locks `mu`, `startMu`, `conflictMu` | Start, Stop, Reload, StartTunnel, StopTunnel, Reconnect, checkConflict/pause/resume, retryStart, OnPowerResume, Status | everything below |
| Conflict detection (`internal/service/conflict.go`) | none | configConflict, reading the adapters | manager |
| Control loop (`internal/service/service_windows.go`) | none | Execute: start, ParamChange, power events, stop | manager |
| Management pipe (`internal/ipc`) | listener, one goroutine per request | Start, Stop, dispatch | manager |
| Network watcher (`internal/winsys/netchange_windows.go`) | registration, one-token event channel | Start, Stop, the notification callback | manager |
| Resolver (`internal/dns/resolver.go`) | cache, calls in flight, semaphore | Lookup, Flush | tunnel |
| SOCKS5 server (`internal/socks5/server.go`) | listener, active connections, session semaphore | Start, Stop, acceptLoop, handle, connect, relay | tunnel |
| UDP relay (`internal/socks5/udp.go`) | learned client address, per-family in-tunnel sockets, idle timer | associate, pumps, Close | tunnel |
| Batching adapter (`internal/awg/netstack.go`) | packet queue, free list | readLoop, Read, Close | device |
| Configuration (`internal/config`) | none | parse, validate | manager |
| Logging (`internal/logging`) | file, size, limits | logf, rotate, prune | everyone |
| Installation (`internal/service/control_windows.go`, `internal/winsys`) | data and program directory, files and their ACLs, service registration | Install, Uninstall, Start/Stop/RestartService, RepairPermissions | Windows |

The hard behaviour is in the manager and the tunnel. The control loop, the
watcher, every pipe request and every retry run on goroutines of their own and
all of them may start, stop or reload one tunnel. `Tunnel.Start` checks
`running`, builds a device without the lock (which may take 40 seconds to
resolve an endpoint) and records it afterwards, so the callers must be
serialised by `startMu`. A pause (the same configuration is connected through another
client of this machine) must take the tunnel down and keep it down although
attempts may be anywhere in that window, and its end must bring a wanted tunnel
back. Shutdown must wait for all of them without waiting in a circle. The
resolver collapses concurrent lookups of a name, bounds the queries and the
cache, and is flushed when the tunnel is replaced. The SOCKS5 server counts its
sessions with a semaphore and its goroutines with a wait group, and a reload
replaces it while clients connect. A UDP association has five kinds of goroutines
that open and close the same sockets. Installation has no concurrency but may be
cut off between any two of some thirty steps, and run again.

What makes each part correct:

* tunnel and manager: one device at a time; none lost; none open during a
  pause; every live retry can be cancelled; nothing left after Stop; the
  configuration reported is the one in force; stop, requests, retries and
  resumption make progress;
* resolver: one query per name, bounded queries and entries, no cancellation
  cached, no answer from another tunnel, every lookup returns;
* readiness: a call waits on a channel somebody will close, and goes on only
  after a handshake of the device in force; the reported state converges;
* SOCKS5 server: sessions bounded, tokens and tunnel connections given back on
  every way out, nothing of a server left after its Stop, which waits for nobody but
  silent peers; a reload never leaves the machine silently without a listener;
* UDP relay: one local client per association, no datagram of another sender, no
  socket outlives the association;
* installation: the key is never readable to others, a registered service that the
  commands have seen finds everything it needs, settings that were read survive.

`PROJECT.json` lists, under `hazards`, where each of these can go wrong.

## 2. The modules

| Module | Models |
|---|---|
| `TunnelLifecycle` | `awg.Tunnel` as seen by the callers of Start, Stop and Reload, and the supervisor |
| `Manager` (EXTENDS `TunnelLifecycle`) | the manager's threads composed with the tunnel, the pipe, the watcher and the control loop; properties and fairness |
| `TunnelReady` | `awg.Tunnel` as seen by those who wait for it: the readiness channel, the reported state, the supervisor's ticks, DialTCP, ListenUDP, the DNS attempts |
| `Resolver` | `dns.Resolver` with the tunnel that is asked and replaced |
| `SocksServer` | `socks5.Server`: listener, accept loop, sessions, Stop |
| `Proxy` (EXTENDS `SocksServer`) | the servers composed with `Manager.Reload` and `Manager.Stop` |
| `Association` | abstract: what a UDP association promises |
| `UdpRelay` (implements `Association`) | one association of `socks5/udp.go` and its datagram header |
| `Install` | the commands of `control_windows.go` on a machine, step by step |
| `MCManager`, `MCProxy` | instances: the stack and address of each configuration, the settings of the proxy, symmetry |
| `ManagerProofs`, `DeviceProofs` | theorems about `Manager`: the pause and the retry; the device, Stop, Reload and the watcher |
| `ReadyProofs`, `ResolverProofs`, `ProxyProofs`, `RelayProofs`, `InstallProofs` | theorems about `TunnelReady`, `Resolver`, `Proxy`, `UdpRelay` and `Install` |

### TunnelLifecycle

`cfg`, `running`, `dev` and `kick` are the fields of `Tunnel`. `open` is the set
of devices built and not closed, `devCfg` the configuration each of them runs
(`None` after a half-applied IpcSet), `sup` and `supCancelled` the supervisors
that are alive or told to stop, `sv` what a supervisor in `performReconnect` has
read and is about to apply. A thread inside Start or Stop has its stage in
`op[t]`, inside Reload in `rs[t]`, with its locals in `hold`, `bcfg` and `rl`
and the result in `res[t]`. Each action is one critical section of `t.mu` or the
stretch between two:

* Start: `StartCheck` (the check under the lock), `BuildFail`/`BuildOk`
  (`buildDevice`, with success possible even for a cancelled context because
  `toUAPI`'s select may take either ready branch), `StartRecord`,
  `StartLaunch` (the supervisor, started with the lock released);
* Stop: `StopMark`, `StopClose` (after `wg.Wait`, which waits for every
  supervisor);
* Reload: `ReloadRefuse` (the dry run), `ReloadDecide` (one read of `cfg`,
  `running` and `dev`), then `ReloadAdopt`, `ReloadApply` or the rebuild
  `ReloadSwap`, `ReloadStarted`, `ReloadRestored`, which calls Stop and Start
  through the same stages as everybody else;
* supervise: `SuperviseKick`, `SuperviseApply`, `SuperviseExit`.

A device identity is reused once nothing refers to it, so the bound `Devices`
limits how many exist at a time, never how many are built in a behaviour. With
no identity left `BuildOk` is disabled and the build can only fail. `OneDevice`
therefore runs with two identities: a second open device would be seen. The
runs with one identity cannot see two devices at a time and do not check for
it; they still contain every order of build, record, stop and close.

### Manager

`pc[t]` is a thread's place in its own routine, `at[t]` its stage in
`startTunnelOnce`, `cc[t]` its stage in `checkConflict`. Every critical section
of `m.mu` is a step. These neighbouring steps of the code are one step here,
because nothing another thread can do in between changes the outcome:

* taking `startMu` and reading `pausedBy` (`AttemptLock`): the lock may as well
  have been taken a moment later, and an attempt that sees a pause touches
  nothing before it releases the lock;
* reading the adapters and setting or clearing `pausedBy` (`CheckRead`): only
  the owner of `conflictMu` writes `pausedBy`, and an adapter that changes in
  between raises an event that stays queued;
* taking the cancel function out of `retryCancel` and calling it
  (`CancelRetry`): nobody else can take it any more, and a retry that has not
  noticed yet takes the same steps as one that noticed and lost the select;
* releasing `startMu` and `conflictMu` at the end of `pause`;
* `Running()` followed by `Reconnect()`: a token queued for a tunnel that has
  just stopped is the same as one queued just before the stop;
* the cancellation and the clearing of a finished retry (`RetryClear`).

What is *not* merged is what the findings below depend on: `resume`'s read of
`tunnelWanted` and its `retryStart`; StopTunnel's three sections; the read of
`tunCfg` (`CheckBegin`) and of the adapters; the rebuild's Stop and Start.

Time is left open: a retry's delay, the two second debounce and `retryWake`
(which only shortens the delay) become "may happen at any moment". A retry's
generation is an identity of `Retries` that no live goroutine has, which is all
the code's comparison `m.retryGen == gen` can tell apart. `host` is the set of
tunnel addresses that adapters hold; `AddressChange` replaces it at any moment
and queues an event only while the watcher is registered (there is no initial
notification). `Faults` names the steps of Start that may fail and
`ReadFailures` bounds how often reading the adapters fails.

The replacement of the SOCKS5 listener inside `Manager.Reload`
(`manager.go:674-743`) is in module `Proxy`: here the reload ends after its
conflict check. The two halves share no variable but the place in Reload.
`Reload` is one action for the two callers the code has, a pipe request and
ParamChange in the control loop. The runs have it as a request only, because one
reloader is what their state space allows; the proofs cover both.

### TunnelReady

`TunnelLifecycle` asks who owns the device; this module asks who may use it. It
keeps `running`, `dev`, `ready`, `state` and `kick` of `Tunnel`, and the locals of
one supervisor per device. A device and its stack are one identity; `hs` are the
devices whose newest handshake is fresh. A channel is an identity, reused
when neither the tunnel nor a waiter refers to it. The supervisor's tick is three
steps (read the statistics, set the state, mark readiness), because Stop, Reload
and the waiters run between them, and so are the three parts of a reload in place.
`WaitLoop`, `WaitClosed` and `WaitCtx` are the loop of WaitReady; `Query` is one
round of `lookupUncached` with `RetryDecision`. Start and Stop are one thread:
`startMu` serialises them, apart from the rebuild that `Manager` is about.
`proved` is a history variable: the device whose handshake closed a channel.
`WaitCtx` is the other way out of the wait: a context that ends looks at the
reported state alone.

### Resolver

An answer is its kind (`addrs`, `error`, or `ctx`, the error of the caller's own
context) and the tunnel that was asked. `Lookup` and `Finish` are the two
critical sections, `Acquire`/`GiveUpQueueing` the semaphore's select, `Answered`
the whole of `lookupUncached`. An entry may expire at any moment; `evictLocked`
compares with the time at which the lookup began, so it drops any subset of
what has expired by now. `NewTunnel` and `Flush` are the two halves of what
`Tunnel.Start` does to the resolver; `Flush` alone is what Stop does.

### SocksServer and Proxy

A server value is built once, started at most once and stopped at most once, as in
the code; a reload makes another. A connection's session is a phase in `pc`
(`Negotiate`, `Request`, `Resolve`, `Dial`, `Reply`, `CopyUp`, `CopyDown`, ...), a
byte stream is what ends its reads and writes: whether the peer has finished
(`peer`, `remote`) and whether this side has closed it (`shut`). The accept loop
has a connection in hand (`held`) between Accept and `trackConn`, which is the
window Stop's snapshot misses. Deadlines are "may fail at any moment"; phases
without a deadline end only with their peers: `CopyUp` with the client, `CopyDown`
with the remote end, `Hold` (an association) with the control connection.
`CopyFails` is a write that finds the other side closed, which nothing forces to
come. A connection that is not from this machine and one over the limit are turned
away alike (`Admit`). `CanBind` is the system's rule that two sockets do not
listen on one address. `Proxy` adds the manager: `ReloadRead` to `ReloadAdopt` are
the critical sections of Reload and the calls between them, in the order that
depends on whether the address changes. `StopRead`, `StopPipe`, `StopSocks` and
`StopReturn` are `Manager.Stop` as far as the listener is concerned: `m.socks` is
read first (`msocks`), then the pipe is closed and the reloads in flight are
waited for, then the server that was read is stopped.

### UdpRelay and Association

`hpc` is the handler, `ppc` the pump from the client, `tpc` one pump per
in-tunnel socket, `wpc` the idle watcher and `kpc` the goroutine it starts for
Close. `tunnelConn` is called by the handler (warm-up) and by the client's pump,
each with its own `tc`, `fam`, `hand` and `got`. An address is a local sender or
one of the other values a client may declare. A datagram is the lengths and
fields `parseUDPHeader` looks at, and `ParseUDPHeader` its tests in the code's
order.

`Association` says it without goroutines: an association belongs to one local
client, the client is told of it while the tunnel carries it, and when the
handler has returned no socket is open and no goroutine runs. `KeepsPromise` is
the refinement (`Promise == INSTANCE Association WITH ...`), which `RelayProofs`
proves.

### Install

One action per step of a command that changes the disk or the registration, in
the code's order, with `pc` the next step; a file that is copied is "part" in
between, an ACL is the name of the call that applied it or "inherit".
`Abandon` is an error return or a killed process at any step. Two errors do not end
a command: an `OpenService` that fails, for whatever reason, is taken for a service
that is not there (`NotOpened`, with the history variable `blind` for a registered
service that was not seen), and a `Stat` or `LoadApp` that fails makes `installApp`
begin with the defaults (`LoadSettings`). The options are those of the command line;
`--socks`, `--log-level` and `--no-autostart`, which override the settings kept, are
one option `set`. Beside the command
run the service process (`Service`), Windows forgetting a deleted
service, `awgsocks run` by any user, Explorer's permanent grant and an
administrator's edits. `Save` is one step because `App.Save` renames a complete
file.

## 3. The runs

| Run | Instance | Result |
|---|---|---|
| `ManagerRaces` | 1 request, 2 retries, 2 devices; start, stop, reconnect, power, all faults; 2.2 million states | `PausedMeansDown`, `OneDevice`, `NoLeakedDevice`, `RetryRecorded`, `StoppedMeansClean`, `TypeOK` hold |
| `ManagerReload` | 2 configurations with different stacks, one with a hostname; reload requests, a failing read; 2.9 million states | `ReportedConfig`, `SettledAgrees` hold |
| `ManagerLive` | 1 request (stop), 1 retry, `FairSpec`; 84 thousand states | `StopCompletes`, `RetryBringsUp`, `NotifiedResume` hold |
| `ManagerStop` | stop requests | `NoRetryAfterStop` is violated |
| `ManagerRebuildRace` | reloads that rebuild | `NotRunningWhilePaused` is violated |
| `Resolver` | 2 callers, 2 names, 1 entry, 1 query, 2 tunnels, `FairSpec`; 70 thousand states | `SingleFlight`, `QueriesBounded`, `CacheBounded`, `CancellationNotCached`, `LookupReturns`, `TypeOK` hold |
| `ResolverFlush` | 1 caller, 2 tunnels | `CacheFromThisTunnel` is violated |
| `TunnelReady` | 2 devices, 3 channels, 1 caller with 3 attempts, 1 reload, 1 reconnect, `FairSpec`; 1.25 million states | `NoOrphanWaiter`, `ReadyMeansHandshake`, `NotFoundConfirmed`, `WokenByHandshake`, `Converges`, `TypeOK` hold |
| `Proxy` | 2 servers, 2 clients, 2 addresses, limits 1 and 2, 1 reload at a time, 2 errors, `FairSpec`; 557 thousand states | `SessionLimit`, `StoppedMeansDrained`, `RemoteReleased`, `AlwaysListening`, `ReloadHonest`, `StopClosesItsServer`, `StopWaitsOnlyForPeers`, `TypeOK` hold |
| `ProxyStop` | 2 servers, 1 client, 1 reload | `NoListenerLeft` is violated |
| `UdpRelay` | 2 senders, 4 sockets, 13 lengths, `FairSpec`; 43 thousand states | `NoLeakedSocket`, `HeaderSplit`, `KeepsPromise`, `AssociationEnds`, `TypeOK` hold |
| `Install` | no bound: 6.2 million states | `KeySecret`, `ServiceReady`, `SettingsSurvive`, `TypeOK` hold |

Why the bounds are enough for what they ask. A race in this code is between an
attempt, a pause and at most one more actor: the runs have the watcher, one
request, one or two retries and the control loop at once, each of which repeats
its routine without limit (nothing but the failing reads is counted). Two retries
are what `clearRetry`'s generation is about; with a third, no new pair of
generations appears, and the theorem covers any number. Two names with a cache of
one entry and one token put every lookup at the limit; the second caller joins the
first one's query, or queues behind it for the other name, and the theorems cover
any number of callers. In `TunnelReady` the second device is what a late
supervisor or a late waiter could mistake for the first, and three channels are
the current one, the one waited on and a fresh one. In `Proxy` two clients meet a
limit of one and a limit of two, the second server is the one a reload makes, and
two errors are the smallest limit that tells a counter that is reset from one that
is not. In `UdpRelay` four sockets are one more than the proofs ask for, since at
most two are taken when one is opened, and the lengths lie on both sides of every
boundary of the header. `Install` has nothing to bound. All invariants and action
properties in this table are also proved for every value of the constants, under
the hypotheses section 4 names; the bounds carry the whole weight only for
liveness and for the cases those hypotheses leave out. Symmetry is used for safety
only: requests, retries, devices, callers and names are interchangeable.

The four violations, in the code's terms:

* **A stop that does not last** (`ManagerStop`). The end of a pause reads
  `tunnelWanted` and calls `retryStart` in two critical sections. StopTunnel in
  between clears the wish and finds no retry to cancel; the retry recorded next
  brings the tunnel up.
* **A rebuild during a pause** (`ManagerRebuildRace`). `Tunnel.Reload` stops and
  starts the tunnel without `startMu` and without looking at `pausedBy`. A pause
  that falls between the two finds nothing to stop. The `checkConflict` after a
  successful reload only refreshes a pause that is already on, and after a
  rolled-back one it is not called. The same gap lets a retry or a start request
  build a device beside the rebuild's own: with reload and start requests and
  two configurations of different stacks, TLC finds two open devices, then one
  that nobody refers to and that Stop leaves behind. `OneDevice`,
  `NoLeakedDevice` and `StoppedMeansClean` are therefore claimed only of
  reloads that do not rebuild (`SameStack` below).
* **An answer that survives the flush** (`ResolverFlush`). A lookup in flight
  across `Flush` stores its answer afterwards.
* **A listener that survives Stop** (`ProxyStop`). `Manager.Stop` reads `m.socks`
  (`manager.go:518`), then waits in `pipeSrv.Stop` for the requests in flight. A
  reload among them replaces the listener; Stop then stops the server it has read,
  which is stopped already, logs "no resources left behind" (`manager.go:542`), and
  the new listener is open. `StopClosesItsServer` says what does hold.

What was observed besides. The model has each of these behaviours; no run is given
to them, some because no line of the repository promises otherwise, and where a line
does it is quoted:

* A reload that finds the tunnel down sets `t.cfg` and reports success
  (`tunnel.go:879`) while a start that read the old configuration goes on and
  records its device: the device then runs a configuration nobody reports.
  `ReportedConfig` compares the two reports and does not see it.
* With `auto_start` off and a tunnel started by hand, nothing compares the
  adapters before the next address change: the watcher asks for no initial
  notification (`netchange_windows.go:84`), so a conflict that is already there is
  not stepped aside from until something changes.
* Two reloads at once (two pipe requests, or one and ParamChange) read the same
  `m.app` and `m.socks`. Each may start a listener on its own address, and only
  the last is recorded and stopped. `ReloadHonest` is therefore checked and
  proved for one reload at a time (`Reloaders` has one member); with two members
  it is violated. So is `ReportedConfig`, since each reload sets `t.cfg` and
  `m.tunCfg` in two critical sections. `AlwaysListening` holds of any number.
* When reading the adapters fails twice in a row (`manager.go`, checkConflict),
  both the first and the debounced check leave `pausedBy` as it was, and nothing
  looks again before the next address change. `SettledAgrees` is checked with one
  failing read and proved with none.
* `WaitReady` reports success for a call whose context ends between the critical
  section of Stop and the end of that Stop, because it then looks at the reported
  state alone (`tunnel.go:482-484`). This contradicts its comment, "It never
  succeeds while the tunnel is down" (`tunnel.go:455`); the call fails on a closed
  stack afterwards. `DownOnlyDuringStop` proves that this is the only such moment.
  `WokenByHandshake` is about calls whose context lives.
* Stop of the SOCKS5 server closes the client's side of the sessions it knows "so
  that the service can shut down promptly instead of waiting on idle sockets"
  (`server.go:300-301`). The copy from the remote end has no deadline
  (`server.go:645-652`), so a remote that is idle holds Stop up for as long as it
  likes; so does the client of a connection that was accepted before Stop's snapshot
  and tracked after it. `StopWaitsOnlyForPeers` says that nothing else does.
* `Install` and `Uninstall` take any error of `OpenService` for "not installed"
  (`control_windows.go:246`, `386-388`) and go on to overwrite or remove the files of
  a service that may be registered and running. `ServiceReady` is about a
  registration that no command has overlooked.
* `installApp` takes any failure to read `config.json` for a reason to begin with the
  defaults (`control_windows.go:440-445`), which are then written over it, with a
  warning, although "install keeps the settings in an existing config.json"
  (`main.go:171`). `SettingsSurvive` excepts that step.
* The in-tunnel socket of an association stays in its map after the tunnel is rebuilt
  (`udp.go:323`): every datagram fails until the association ends.
* An accept loop that meets too many errors ends and leaves the listening socket
  open: clients queue and nobody answers them. `AlwaysListening` and
  `ReloadHonest` are about the socket, not the loop.
* A rebuild whose second start fails too (`tunnel.go:932`) leaves a wanted tunnel
  down with no retry pending.
* A caller that joined a lookup gets the error of the first caller's context
  (`resolver.go:121`).
* A service whose privileges could not be restricted stays registered when its
  deletion fails as well (`control_windows.go:318`).

Every property of a passing run has a mutant in `PROJECT.json`: a plausible slip
in the code (a dropped check, a lock not taken or not released, a missing reset)
under which TLC finds the property violated.

### Fairness

`Manager`: strong fairness for every thread's own steps, because the Go
scheduler runs every runnable goroutine and a `sync.Mutex` hands itself over to
a starving waiter; weak fairness for the supervisor, which waits for no lock
that is held for long; strong fairness of `BuildOk` for retries, an assumption on
the environment: an endpoint that is tried again and again resolves in the end.
Controls, requests, notifications and address changes are not fair: nobody
promises that they come. `Resolver`: weak fairness of a caller's steps (the
query is bounded by its three attempt timeouts) and strong fairness of
`Acquire`, since senders on a channel are served in order.

`TunnelReady`: weak fairness of the supervisors, which tick every second, and of
a Start, Stop or Reload that has begun; handshakes and waiters owe nothing.
`Proxy`: weak fairness of sessions, accept loops, Stop and a reload that has
begun. Clients and remote ends owe nothing, since relaying has no deadline; that is
why `StopWaitsOnlyForPeers` names the peers a Stop may wait for instead of claiming
that it returns. `UdpRelay`: weak fairness of the handler, Close and
the pumps, because ListenUDP and LookupHost have timeouts; a read of a closed
socket fails. Idleness, datagrams and the end of the control connection may
never come.

Deadlock is checked in the manager's runs, although a service that has stopped
makes no step of its own: adapters keep changing (`AddressChange`), so the check
says little there, and `StopCompletes` carries the claim that nobody waits for
ever. `Proxy`, `UdpRelay` and `TunnelReady` may end (everything
stopped, the bounded identities used up), so they do not check for deadlock, and
their liveness properties carry the same claim.

## 4. The proofs

All proofs hold for every value of the constants that satisfies the named
assumptions of the modules; sets of threads, devices, callers, names, servers,
connections and channels may be infinite. What the assumptions ask, besides that
`None` is none of the other values and that limits are positive:

* `ThreadAssumption`, `ConfigAssumption`, `ManagerAssumption`: the threads are the
  control loop, the watcher, the requests and the retries, all different; the
  address is part of the stack;
* `ResolverAssumption`, `NoneAssumption`: the limits are naturals;
* `ReadyAssumption`: there is a channel that is neither the current one nor waited
  on, which is what `make` returns;
* `RelayAssumption`: there are at least three sockets, so that ListenUDP always
  has one (lemma `SocketLeft` shows that two are the most that can be taken
  then);
* `SocksAssumption`, `ProxyAssumption`: settings are told apart by address, limit
  and UDP, the fields `Manager.Reload` compares.

Every inductive invariant below was model checked on instances like those of
section 3 before it was proved. A lemma per part, with one case per action, shows
that the part is preserved.

`ResolverProofs`. `ResolverInv` conjoins the types with

* `FlightInv`: `inflight[n]` is the one caller between its two critical
  sections for `n`, and whoever joined `n` finds one there (this is what makes
  `SingleFlight` inductive);
* `AnswerInv`: a caller about to finish has an answer, of kind `ctx` only if its
  own context has ended (needed for `CancellationNotCached`);
* `TokenInv`: the tokens are the callers in the query stage (lemmas
  `TokenTaken`, `TokenReleased`, `TokenKept` on cardinality);
* `CacheInv`: the cache is finite and within its bound (`EvictMakesRoom`,
  `FinishKeepsCache`).

Theorems: `ResolverTypes`, `OneQueryPerName`, `ConcurrencyLimit`, `CacheLimit`,
`NoCancellationCached`.

`ManagerProofs`.

* `ManagerTypes`: `TypeOK`, for every kind of reload. It needs `HeldInv`:
  a thread that records, launches or closes holds a device, and `running`
  implies that one is recorded.
* `RetryAlwaysRecorded`: `RetryRecorded`. The strengthening `RetryInv` says that
  a recorded retry is also the newest generation, which is what `clearRetry`
  compares.
* `PauseKeepsTunnelDown` and `AttemptsRespectPause`: `PausedMeansDown` and
  `NotRunningWhilePaused`, under the hypothesis `SameStack`: all configurations
  agree on address, DNS and MTU. Without it both are false, as
  `ManagerRebuildRace` shows; with it Reload never rebuilds. The invariant
  `PauseSafe` has the control part (`StageInv`, `OpInv`: which stages of the three
  nested routines go together; `LockInv`: who is inside a locked region owns the
  lock; `PhaseInv`, `ConfigInv`), `DeviceInv`: nothing runs while a device is
  being built, and every open device is recorded or held by the thread about to
  record or close it; `StopInv`: how far the stop of a pause has come; and
  `PauseInv`: while a pause is on, either its own stop is still to be finished,
  or no attempt is past its look at `pausedBy` and no device is open. The argument is
  the comment in `startTunnelOnce` made precise: an attempt that is inside
  `startMu` when the pause begins ends before the pause takes the lock, and one
  that takes it later sees `pausedBy`. `StartMuExcludes` is the lemma that two
  threads are never inside together. `PauseSafe` was model checked before it
  was proved.

`InstallProofs`. `IInv` conjoins the types, `KeySecret` and `ServiceReady` with
`StepInv`, which says what each step may rely on after the steps before it, the
command having been entered from any state an earlier one was abandoned in:

* `Unregistered`: a service that is registered while anything is put in place or
  taken away is one that the command did not see (`blind`);
* `ClosedFirst`: the data directory has been closed before anything is put into
  it (needed for `KeySecret`: a copy inherits from it until it gets its own ACL);
* `SourceKept`: what was given to Install is still whole, and is not copied onto
  itself;
* `ConfReady`, `ProgramReady`: the configuration and the program are whole
  before they are protected, and protected before the service is created (needed
  for `ServiceReady`).

`InstallInv` has one lemma per conjunct (`TypeStep`, `KeyStep`, `ReadyStep`,
`StepStep`) with one case per action. Theorems: `InstallTypes`, `KeyStaysSecret`
(which needs no exception), `ServiceStaysReady` (of a registration that no command
has overlooked), and the action property `SettingsAreKept` from the lemma
`SettingsStep`, which lists the steps that may change the settings. The instance
TLC checks is the whole of it here; the proof adds the argument, step by step, why
it holds.

`DeviceProofs` continues `ManagerProofs`.

* `OneDeviceAtATime`, `NoDeviceIsLost`, `StopLeavesNothing`: `OneDevice`,
  `NoLeakedDevice` and `StoppedMeansClean`, under `SameStack`, without which all
  three are false (section 3). `DeviceSafe` adds to `PauseSafe`: `OwnerInv`, the
  converse of `LockInv` (a lock that is taken has an owner inside its region, so
  that Stop leaves none); `SoleInv`, devices are built, recorded and closed one at
  a time and a supervisor runs beside its device; `CloseInv`, how far
  `Manager.Stop` has come. While the service serves this follows from `startMu`
  (lemma `OneAtATime`). The exception is `Manager.Start` itself: when its listener
  fails it stops the tunnel without `startMu`, and the retry it started may be
  anywhere. `BootInv` and `SpentInv` are for this: until the service serves there
  is one retry, started after the first attempt has failed, and once anything is
  left of a device (`Left`) nobody who could build another has an attempt to go.
* `ReportsItsConfig`: `ReportedConfig`, with rebuilds and rollbacks, under
  `OneReload`: at most one thread can be in Reload, as when the administrator
  waits for one reload to end. `CfgInv` is the value of `t.cfg` and `m.tunCfg` at
  each stage of a reload.
* `SettledChecksAgree`: the action property `SettledAgrees`, with rebuilds and
  overlapping reloads, under the hypothesis that no read of the adapters fails.
  `SettleInv`: a check that is under way compares with the loaded configuration
  or another check is still to come; so does the pause agree with the adapters
  at the watcher's debounced check, unless an event is queued or a check is
  pending.

`ReadyProofs`. `ReadyInv`: `CallerInv` (how far Start and Stop have come),
`SuperInv` (a supervisor runs beside its own device or Stop waits for it, so what
it has read is of that device: needed for `ReadyMeansHandshake`), `DownInv` (a
tunnel that is down left nobody on an open channel: needed for `NoOrphanWaiter`),
`StateInv` (the reported state outlives the tunnel until Stop ends: needed for
`DownOnlyDuringStop`) and `AttemptInv` (the counters of a
lookup). Theorems: `ReadyTypes`, `WaitersAreWoken`, `ReadyFromHandshake`,
`NotFoundIsConfirmed`, and two action properties, `OnlyHandshakesWake`
(`WokenByHandshake`) and `DownOnlyDuringStop`. Markings of readiness enter through lemmas
on their effect (`MakeReadyEffect`, `MarkNotReadyEffect`).

`ProxyProofs`. `ServerInv` is about one server: `ListenInv` (socket, accept loop
and Stop), `HeldInv` (the connection in the accept loop's hand, which Stop's
snapshot misses), `ConnInv`, `CopyInv` (the connection into the tunnel), `TokenInv`
and `CountInv` (tokens and counts are cardinalities of sets of sessions).
`ReloadInv` says that a reload keeps its new server to itself until it sets
`m.socks`, with any number of reloads at once, and `CoverInv` that the server in
force serves or some reload has, or is about to have, one that does. `WaitInv` is how
far `Manager.Stop` has come with the server it read, whoever stops it. Theorems:
`ProxyTypes`, `SessionsAreLimited`, `StopDrains`, `RemotesAreReleased`,
`ReloadKeepsListening`; and, under `OneReload` (reloads follow one another),
`ReloadIsHonest` and `ManagerStopsItsServer` from `HonestInv`, which says which
servers may listen at each stage. That nothing listens after Stop is not among them:
`ProxyStop` shows it to be false with a single reload.

`RelayProofs`. `RelayInv`: `StageInv` and `CloseInv` (which goroutines exist at each
stage of the handler and of Close), `SocketInv` (a socket is in the map or in one
caller's hand), `ReturnInv` (what tunnelConn returns), `PumpInv`, and `OpenersInv`
and `PairInv`, which count the sockets in use when another is opened. Theorems:
`RelayTypes`, `SocketsNeverLeak`, `HeaderIsSplit` (for every length: the tests of
`parseUDPHeader` against the format), and the refinement `RelayKeepsPromise`:
`Spec => Promise!Spec`, step by step from `RelayInv` (lemma `StepSimulates`).

Only model checked, and why:

* all liveness (`StopCompletes`, `RetryBringsUp`, `NotifiedResume`,
  `LookupReturns`, `StopWaitsOnlyForPeers`, `AssociationEnds`, `Converges`): the
  prover does not reason about fairness;
* `SettledAgrees` with a failing read, on the instance of `ManagerReload`;
* everything that a rebuild does beside another start: there the pause and device
  properties are false.

## 5. Not modelled, and the plan

* **Tunnel configuration and application configuration** (`internal/config`):
  parsing and validation of text, sequential and without state, with unit tests
  and a fuzz test. A configuration is a model value with the parts the lifecycle
  tells apart. Load and save as files are in `Install`.
* **Logging**: every method runs under one mutex; rotation depends on file names
  made from the clock and on the directory listing, redaction on regular
  expressions. Only the directory it creates matters elsewhere (`Install`).
* **Batching netstack adapter** (`awg/netstack.go`): an experiment that nothing in
  the application selects, by its own comment.
* **Command line client**: flags, one request over the pipe, printing.
* **AmneziaWG device and gVisor stack**: third party; `bind.go` and `stats.go`
  adapt to them.
* Of modelled components: the JSON framing of the pipe, reply codes and
  statistics of the SOCKS5 server, the text of security descriptors, `Status`.

Next:

1. The pause and the device without `SameStack` but with nobody else starting the
   tunnel while it is rebuilt (`OneReload`, no start requests, no retry pending):
   the largest hypothesis under which they can hold with rebuilds.
2. `SettledAgrees` with one failing read, which needs what the first check saw to
   be remembered through the debounce.
3. A configuration's parameter rules and `SafeMTU` as operators against a
   reference definition, if they are ever changed.

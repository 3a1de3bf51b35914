# TLA+ models of Serial-via-Ethernet

These are TLA+ specifications of the Raspberry Pi side of Serial-via-Ethernet
(`src/pi/`). Each one is checked with TLC.

## The system

- **Slot Supervisor and Slot Store** (`portal_v2.py`, class `Portal`,
  `SlotState`). Each configured slot (a physical USB port) has a fixed
  TCP port and a record (`running`, `pid`, `devnode`, `last_gen`,
  `last_error`).
  - `start(slot_key, devnode)` is called from `/api/start` and hot-plug
    "add". It does the following:
    1. bumps the generation;
    2. answers "already running" when the slot is healthy on the same
       devnode;
    3. otherwise stops the current child;
    4. waits for the device node to open;
    5. spawns `serial_proxy.py -p port devnode`;
    6. after 0.5 s checks that the child has not exited;
    7. probes the port up to 20 times;
    8. commits the result, or kills the child.
  - `stop` is called from `/api/stop` and hot-plug "remove".
  - `get_devices` reaps slots whose process is no longer alive.
- **HTTP facade** (`RequestHandler`, `main`). A plain
  `http.server.HTTPServer`, so requests are served **one at a time**. Note
  that spec §5 describes a multithreaded supervisor.
- **Proxy engine** (`serial_proxy.py`, `RFC2217Proxy.run`). One process per
  slot. A single-threaded `select` loop over:
  - the listening socket, where a new client replaces the old one;
  - the client, where bytes go through the codec and then to the tty;
  - the tty, where bytes go to the client.
- **Frame codec** (`handle_rfc2217`, `_handle_com_port_option`,
  `_send_telnet`, `_send_com_port_option`). Telnet IAC parsing, RFC 2217
  COM-PORT subnegotiation, and replies.
- **Serial port adapter**: pyserial's `Serial`, with its line settings.
- **Device Logger** (`SerialLogger`) and the **web UI** (`serve_ui`).
  Neither holds state that any other part reads.
- **BLE controller** (`ble_controller.py`). Module globals under `_lock`,
  asyncio event loops created on demand and stopped by `shutdown()`, and
  a disconnect callback. This repository does not import it.

The parts interact as follows:

- The supervisor spawns and kills proxy processes.
- It sees them only through the process table (`os.kill(pid, 0)`) and
  through TCP connects to their port.
- The proxy sees the client only through the bytes `recv()` returns.

## Modules

| Module | Models |
|---|---|
| `SlotSupervisor` | `Portal.start/stop/get_devices`, the helpers, and the OS around them |
| `PortalConfig` | `Portal._load_config`: slots.json to `[slot_key -> tcp_port]`, recursive, with a non-recursive reference |
| `MCSlotSupervisor` | two slots and two devices, with the slots and ports `LoadConfig` makes of two slots.json files |
| `Rfc2217Codec` | `handle_rfc2217` (`Scan`), `_handle_com_port_option` (`ComPortOption`), and the reply frames |
| `Rfc2217Spec` | a reference written from spec §4.1: what a complete client stream means |
| `ClientDataPath` | the client-readable branch of the proxy loop over a TCP connection |
| `MCClientDataPath` | the client messages (esptool / pyserial `rfc2217://`) |
| `SessionSpec` | the abstract session promise of spec §4.3 / S4: one client attached, pre-emption, serial bytes only to the attached client, in order |
| `ProxySession` | every branch of `RFC2217Proxy.run`, plus `stop()` and `signal_handler`, over client connections; it refines `SessionSpec` |
| `MCProxySession` | three client connections as model values |
| `BleController` | `scan`, `connect`, `disconnect`, `write`, `shutdown`, `status`, `_ensure_loop`/`_run_async` and `_on_disconnect` in `ble_controller.py`, with caller threads and the event loops |
| `MCBleController` | two caller threads and two addresses |
| `Hotplug` | `SlotSupervisor` driven by udev: devices plugged into slot ports, and `/api/hotplug` requests served in any order |
| `MCHotplug` | two slots, two device nodes, three hot-plug events |

### `SlotSupervisor`

**Slot state.** The `SlotState` fields are functions over `Slots`.

**Requests.** `req` is the request that HTTPServer is serving: at most one,
because the server is single-threaded. A start request is split at its
waits, because children start, crash and devices vanish while it sleeps.
The request steps are:

- `StartRequest`: up to the end of the stop of the old child;
- `SettleAndSpawn` / `SettleTimeout`: the settle wait, then `Popen`;
- `PollExited` / `PollRunning`: `proc.poll()`;
- `ProbeOk` / `ProbeTimeout`: the port probe, and the commit or the kill.

`StopRequest` and `GetDevices` are each atomic, since each runs inside one
request.

**Environment.**

- `proc` is the process table. A child is `"starting"`, `"listening"`,
  `"exited"` (a zombie, not yet waited for), or `"none"`.
- `childPort` and `childDev` are each child's arguments.
- `present` is the set of device nodes that exist.

The subprocess reaping rules are taken from CPython:

- `proc.poll()` reaps (`PollExited`).
- `Popen.__del__` reaps a child that has already exited (`DropPopen`).
- Children still running when their Popen object was dropped are reaped at
  the next `Popen()` (`ReapActive`).

The environment steps are:

- `ProxyListens`: `open_serial` and then `start_server` succeed.
- `ProxyStartFails`: the device is gone or the port is taken.
- `ProxyCrash`: for example, an uncaught `serial.write` error.
- `Plug` / `Unplug`.

### `Rfc2217Codec`

The codec is modelled as pure operators:

- `Scan(data, k)` is the `while i < len(data)` loop. It is recursive, and
  `k = i + 1`.
- It returns the data bytes and the control events, in the order the code
  meets them.

### `ClientDataPath`

`ClientDataPath` applies the codec to each `recv()`:

- Control events change the line and send replies as they are met.
- The data bytes are then written to the serial port.
- `serialLog` records the order in which the tty sees data bytes and line
  changes.
- When `Segmented` is true, a `recv()` may end anywhere in the byte stream.

### `ProxySession`

- `conn[c]` is client connection `c` as the proxy sees it:
  - `none`: not made yet;
  - `pending`: in the listen backlog;
  - `open`: accepted;
  - `eof`: the peer closed it;
  - `closed`: closed by the proxy.
- `cs` is `self.client_socket`. It may name a closed socket.
- `Selectable` models `select()` not raising. With a closed socket in the
  read list, `select()` raises `ValueError` and the loop only `continue`s.
- Each branch of the loop is one action:
  - `Accept`: close the previous client, then accept;
  - `AcceptFails`: close the previous client, then `accept()` raises and the
    bare `except` passes;
  - `ClientEof`: close the client and forget it;
  - `SerialWriteFails`: the exception is uncaught, so `finally: stop()` runs
    and the process exits;
  - `SerialRead`: covers both the select branch and the `in_waiting`
    drain.
- `send()` on the non-blocking socket ignores its return value and its
  errors. A byte therefore reaches the client or is lost.
- `Terminate` is SIGTERM from the portal.
- `got[c]` records the serial byte numbers client `c` received.

**Refinement.** `SessionSpec` is the abstraction. The attached set is the set
of connections in state `open` or `eof`. `got` and `rxCount` map to the
variables of the same names. `SessionRefinement == Abs!Spec` is checked as a
temporal property.

### `BleController`

- Each `with _lock:` block contains no `await`, so each is one atomic step.
- A call is split where it blocks in `_run_async`:
  - `ScanBegin`/`ScanEnd`;
  - `ConnectBegin`/`ConnectAwait`/`ConnectCommit`;
  - `DisconnectBegin`/`DisconnectAwait`/`DisconnectCommit`;
  - `WriteBegin`/`WriteEnd`.
- A `BleakClient` is a number. `link[c]` is the state of its radio link.
- `cbPending` holds the clients whose `disconnected_callback` is queued on
  the loop.
- `OnDisconnect` is `_on_disconnect`. `LinkLost` is the peripheral going
  away.
- `ScanTimeout` is `future.result(timeout=30)` giving up on a scan asked
  for more than 30 s. The caller's `finally` runs, while `discover` keeps
  the radio scanning; `strayScans` counts such discoveries, and
  `StrayScanEnds` is one of them ending.
- The event loops are numbered in the order `_ensure_loop` creates them.
  `loops[g]` is the state of loop `g`, and `loopGen` is the one the global
  `_loop` holds.
  - `Submit` is `_run_async` up to `run_coroutine_threadsafe`. It reuses
    `_loop` if it is running (`LoopIsRunning`, a stopping loop included);
    otherwise it creates a new loop in state `"starting"`. This is not
    under `_lock`.
  - `LoopRuns(g)` is the loop's thread reaching `run_forever`. `_run`
    reads the global `_loop`, so a loop replaced while `"starting"` may
    run or may be `"dead"`: its thread runs the newer loop instead.
  - `Shutdown` queues the stop of a running `_loop` and goes on into
    `disconnect()`. `LoopStops` is the stop callback running.
  - `Ran(t)` says a caller's coroutine is being run. `Lost(t)` says it
    never will be, and then `future.result(timeout=30)` raises in the
    caller. Each awaiting step has a `Ran` branch and a `Lost` branch.
  - `_on_disconnect` runs only while the client's own loop runs.
- `Status` is `status()`.

### `PortalConfig`

- `LoadSlots` is the loop over `config['slots']`, and `LoadConfig` is
  `_load_config`.
- An entry is a record. `Malformed` is an entry missing a key, which
  raises `KeyError`. `NoFile` is a missing or unparsable file.
- The first malformed entry ends the loop, and the handler only logs, so
  the slots loaded before it stay (spec §6). A later entry of a
  `slot_key` replaces an earlier one.
- `LoadConfigRef` says the same without recursion. `MCSlotSupervisor`
  checks, as an `ASSUME`, that the two agree on every file of up to three
  entries. TLC evaluates it before each of the module's runs.
- The MC modules take `Slots` and `TcpPort` from `LoadConfig` applied to
  a slots.json. The `shared_port` file is accepted as it stands.

### `Hotplug`

- `Hotplug` extends `SlotSupervisor` and replaces its anonymous
  `Plug`/`Unplug` with devices in slot ports:
  - `attached[s]` is the device node of the device in the port of slot `s`;
  - `PlugIn` and `PullOut` change the port and send an "add" or a
    "remove".
- The udev rules are outside `src/`, and spec §1 treats udev as a caller.
  Each event is a separate HTTP client, so `inflight` is a set and the
  single-threaded server may take its requests in any order.
- `Deliver` is `do_POST` on `/api/hotplug`: "add" is `StartRequest` and
  "remove" is `StopRequest`. Neither carries a generation.

## Runs

| Run | Expect | Shows |
|---|---|---|
| `slot_supervisor` | pass | see below |
| `health_refresh` | violation | a crashed proxy stays "running" (zombie passes `os.kill(pid,0)`) |
| `shared_port` | violation | with duplicate `tcp_port` the probe hits the other slot's proxy; a failed child is committed |
| `client_data_path` | pass | whole messages, any grouping per recv: serial data and final line settings are right |
| `codec_split` | violation | a recv ending inside a frame misparses it, with no partial-frame retention: a split `IAC IAC` writes 0xFF twice, and a split subnegotiation goes to the tty as data (255, 250, 44, 5, 9 for DtrOff) with its DTR change lost. Both traces have four states; which one TLC reports depends on exploration order |
| `codec_order` | violation | data before a DTR change in one recv reaches the tty after it |
| `stopbits_reply` | violation | 1.5 stop bits acknowledged as 1 (`int(1.5)`) |
| `proxy_session` | pass | the proxy refines `SessionSpec`; a hung-up client is always closed |
| `proxy_wedge` | violation | after one failing `accept()` during pre-emption, pending clients are never accepted (`select` raises on the closed socket forever) |
| `ble_controller` | pass | the `scanning` state is always released, and every API call returns, including one whose coroutine no loop runs |
| `ble_links` | violation | `status()` disagrees with the radio. In the trace TLC reports, `disconnect()` with no client sets `idle` under a running scan, and a second scan starts |
| `hotplug_order` | violation | a stale "remove" served after the "add" of the re-plugged device stops the slot's proxy; the slot stays stopped, with no error, while its device is present |

`slot_supervisor` checks four things:

- `NoOrphanProxy`: every live child is recorded or is being started.
- `OneProxyPerSlot`: no two live children hold one port.
- `StartCommitsListeningChild`: a start commits only a child that is
  serving.
- `StartCompletes`: every start request ends, with the slot running or an
  error recorded, whatever the children and devices do meanwhile.

`ble_links` checks `StatusMatchesRadio`:

- at most one discovery runs at a time;
- once no call is in flight, the links that are up are exactly the
  recorded connected client's.

TLC reports a shortest violation: a scan starts, and before its loop runs
it, `disconnect()` with no client sets `_state` to `idle` (line 156). A
second scan then passes the check, and two discoveries run. A scan
abandoned by the 30 s timeout (line 51) breaks the scan half the same
way, with the `finally` clause setting `idle`. The link half is broken
by:

- scan while connected;
- the connect race;
- the late callback;
- `shutdown()`, which submits its `disconnect` coroutine to the loop it
  has just told to stop. The coroutine never runs, the timeout is
  swallowed, and the globals are cleared while the link stays up. The
  unlocked `_ensure_loop` can lose a disconnect the same way.

`CallsReturn` in `ble_controller` is about the callers, not the radio. It
says no caller hangs on a coroutine that no loop runs, because the 30 s
timeout of `future.result` ends the wait. It holds whether or not a
disconnect was lost, so it does not catch the two hazards above. The
mutant without the timeout hangs.

`hotplug_order` checks `SlotFollowsDevice`: once every event has been
served, a slot whose port holds a device runs a proxy for it or records
why not. Udev sends add, remove and add for a device pulled and
re-plugged on the same node. The re-plug's "add" is served while a proxy
for the slot runs, and is answered "Already running". The stale "remove"
is served last and stops that proxy. Depending on the order TLC explores,
the proxy in the trace is one of two:

- the old proxy, still listening on the descriptor of the pulled device,
  when the first "add" was served before the pull;
- a proxy the first "add" started on the re-plugged device, when the pull
  came first.

Devices are named by their node, so `SlotFollowsDevice` cannot tell the
two apart. It does not catch the "Already running" test keeping a proxy
on a dead descriptor (portal_v2.py:230).

Three observations have no run:

- `get_devices` clears `running` and `pid` of a dead proxy but not
  `devnode`, against the Slot invariant of spec §3.
- `SerialRead` ignores the result and the errors of `send()`, so a byte
  can be lost while the session continues. Spec §4.3 says a failed send
  closes the session. `SessionSpec` allows the loss, so
  `SessionRefinement` checks the rest of the session.
- `SerialLogger.log` and `log_data` call `datetime.now()` twice. The
  first call, in `_rotate_log`, picks the file; the second makes the
  timestamp. A record stamped just after midnight goes into the previous
  day's file, against spec §4.4: "the logger never writes across a date
  boundary". The logger is not modelled (see below).

`client_data_path` checks its properties against `Rfc2217Spec`, at the
moments when everything the client wrote has been read.

Each property of a passing run has a mutant in `PROJECT.json`. A mutant is
a plausible bug in the code that TLC must catch:

- not stopping the old child;
- not killing on probe timeout;
- ignoring the probe;
- losing the Popen handle;
- an escape off by one;
- DTR codes swapped;
- no `% 256` in the baud reply;
- the previous client not closed on accept;
- a client at end of stream not closed;
- the wrong serial byte forwarded;
- the scan `finally` lost;
- client and address swapped on connect;
- `poll()` treating a child that has not bound yet as not running.

## Bounds

**`slot_supervisor`.** Two slots, two devices (symmetric), 4 pids,
`last_gen` ≤ 3. Two slots are enough for one slot's child to meet another's
port or zombie. Four pids allow:

- a restart whose old child is still a zombie;
- a failed start;
- a crash followed by a new spawn.

The run covers 481k distinct states.

**`client_data_path`.** 4 messages drawn from 13. This covers:

- data and escaped data;
- DO/WILL COM-PORT and a foreign option;
- baud 921600 and baud 0;
- DTR on/off and RTS off;
- parity, datasize;
- a mask with an escaped byte.

The run covers 180k states. The violation runs use smaller message sets: a
DTR/RTS reset sequence, and stop-size.

**`proxy_session`.** Three connections, 3 serial bytes, and 1 failing
`accept()`. Three connections are enough for pre-emption with one client
still pending, and for an accept failure while another client waits. The
run covers 5.7k states.

**`ble_controller`.** Two caller threads, two addresses, 2
`BleakClient`s and 2 event loops. With two callers:

- two connects can pass the check together;
- a scan or disconnect can interleave with a connect;
- the `_ensure_loop` race happens.

Two loops are enough for the race, and for a shutdown followed by a new
loop. Two clients are enough for a late callback of one to clear the
other. One stray discovery is enough for two to run at once. The run
covers 384k states in about 3 minutes.

**`hotplug_order`.** Two slots, two nodes, 3 pids and three events: add,
remove and add are the shortest sequence with a stale remove.

## Fairness

- **`ProxySession`.** `Accept` and `ClientEof` are weakly fair. While the
  process lives, the loop calls `select` every 100 ms, so a readable
  listening or client socket is eventually handled. `AcceptFails` is
  bounded, so it cannot starve `Accept`. Clients, the tty, write errors and
  SIGTERM owe nothing.
- **`BleController`.** The following are weakly fair:
  - `Submit`, and every step after a caller's `_run_async`;
  - `_on_disconnect`;
  - a started loop thread reaching `run_forever` (`LoopRuns`);
  - a queued stop running (`LoopStops`);
  - `shutdown()` going on into `disconnect()`.

  `discover` ends at its timeout, and `future.result` gives up after
  30 s, so an awaiting step is enabled once its coroutine is run or lost.
  Nothing obliges a caller to start a call.
- **`SlotSupervisor`.** The steps of the in-flight start (`RequestStep`)
  are weakly fair. HTTPServer's thread runs a request to its end, and
  every wait in it is bounded (spec §5: operations run to completion).
  The model deadlocks only when the bounds (pids, generations) are spent.
  Every path to that point is explored. The run uses symmetry over device
  nodes. `StartCompletes` does not name a node, so symmetry is sound for
  it.
- `Hotplug` runs without fairness and without deadlock checking, because
  its property is a safety property.
- `ClientDataPath` runs with `CHECK_DEADLOCK FALSE`, because the client's
  script is finite and the proxy then has nothing left to read.

## Not modelled

- **Start failures without a child.** A missing proxy executable
  (portal_v2.py:171-173) and `Popen` raising (212-213) are not modelled.
  Both fail the start before any child exists, which is what
  `SettleTimeout` already does. The executable's presence is a property
  of the installation.
- **Codec cases the passing run does not reach.** `client_data_path`
  delivers whole messages (`Segmented = FALSE`); splits are
  `codec_split`'s question. It sends no 1.5 stop-bit request, and no
  baud rate with a 0xFF byte. No rate esptool or pyserial uses has one,
  and the codec would misparse it (hazard at serial_proxy.py:210). Reply
  payloads are not escaped, and `subcmd + 100` above 255 makes `bytes()`
  raise (325). No run reaches either case.
- **Busy loop after unplug.** After the tty disappears, `select` reports
  it readable on every tick and each read raises. The loop spins without
  sleeping, but no state changes. Spec §7 wants the proxy to survive I/O
  errors, so staying alive is intended, and the cost is CPU time.
- **Serial write errors.** `ProxySession` models the process exiting. No
  run checks spec §7's promise that a `serial_io` error keeps the child
  alive, because the run budget is spent.
- **Portal restart.** Start_new_session orphans survive it and fool the
  port probe. Spec §1 makes persistence across restarts a non-goal. All 12
  runs are used, and in the runs that already fail, TLC would report
  another cause first.
- **BLE controller.** The following are not modelled:
  - a `connect` abandoned by the 30 s timeout, because bleak's own 10 s
    timeout ends it first;
  - a stray discovery on a stopped loop, which is assumed to end;
  - `available()`.
- **Device Logger.** `SerialLogger` appends to per-day files that nothing
  else reads. A logger model would need a run of its own for the
  midnight observation above, and all 12 runs are used.
- **Formatting.** Logging, JSON responses, host IP discovery and the web UI
  are formatting or I/O, and no property is about them.
- **Timing.** The 100 ms polls and 5 s timeouts appear only as the outcomes
  they allow (success or timeout), not as clock values.

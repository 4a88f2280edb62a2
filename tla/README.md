# Hades-Windows: TLA+ models of its drivers and their control

Hades-Windows is a host intrusion detection system for Windows. A kernel driver
(`sysmondrv`) observes processes, threads, images, registry, files and sessions;
a service (`HadSvc`) reads those events through a driver library
(`sysmondrvlib`), filters them with rules and sends them to a user interface
(`HadesContrl`), which talks to the remote server. A second driver (`netdrv`)
does the same for the network.

This directory models that program in TLA+: the event path from the driver to the
service, the commands that control it, the interception rules, and the two paths of
the network driver on which traffic waits for a verdict. TLC checks the models on
small instances, and TLAPS proves every safety property that a passing run checks, and the
refinement of the event path, for every value of the constants.

## 1. Inventory

Paths are relative to `src/`.

| part | files | state it keeps | operations | interacts with |
|---|---|---|---|---|
| event transport | `MonitorEvent/sysmondrv/devctrl.c` | `g_IoQueryHead` (event codes), `g_pendedIoRequests` (read IRPs), `g_inBuf`/`g_outBuf`, `g_ioThreadEvent` | `devctrl_pushinfo`, `devctrl_ioThread`, `devctrl_read`, cancel routine, IOCTLs, `devctrl_close`, `devctrl_ioThreadFree` | notify routines push; the library reads |
| notify routines | `process.c`, `thread.c`, `imagemod.c`, `register.c`, `sysfile.c`, `syssession.c` | a list of records and two flags (`g_*_monitor`, `g_*_ips`) each | the callback, `*_SetMonitor`, `*_SetIpsMonitor`, `*_Clean`, `*_Free` | the system calls them on any thread |
| driver load/unload | `driver.c`, `syswmi.c` | which pieces exist | `DriverEntry`, `DriverUnload` | everything in the driver |
| IPS rules | `rProcess.c`, `rThread.c`, `rRegister.c`, `rDirectory.c` | one pointer to the current list per kind | set rule, clean, lookup | looked up by notify routines |
| filter and port | `minifilter.c`, `kflt.c` | directory flags, client port | file callbacks; connect, disconnect, send and wait | the directory rules; the port never has a client |
| worker | `MonitorEvent/sysmondrvlib/ArkDrvlib.cpp` | device handle, thread handle, `g_exitthread`, `g_stopEvent` | `devctrl_startthread`, `devctrl_stopthread`, `nf_workThread` | the transport, by `ReadFile` |
| service control | `HadSvc/DataHandler.cpp` (tasks 403-410), `kmsginterface.cpp`, `main.cpp` | `kInitStatus`, `kerMonStatus`, `kBesnipingStatus` | `DriverInit`, `DriverFree`, `OnMonitor`, `OffMonitor`, interception, rule reload, exit | the task pool calls them; they call the driver library |
| service queues | `HadSvc/DataHandler.cpp`, `eventQueue.h` | event queues, worker and task pools | push, dispatch, `ThreadPool_Init/Free` | control and pipes |
| channels | `HadSvc/NamedPipe.cpp`, `AnonymousPipe.cpp`, `pipeManage.cpp`, `socketMsg.cpp`, `HlprMiniCom.cpp` | handles | connect, read, write | the interface, the filter port |
| network driver, datagrams | `MonitorEvent/netdrv/callouts.c`, `udpctx.c`, `devctrl.c` | contexts by id and by endpoint, with reference counts, byte counters and throttles; the packet queue | datagram and closure callouts, write requests, injection completions, `udp_clean` | the WFP stack; `netdrvlib` reads and writes |
| network driver, connections | `callouts.c`, `tcpctx.c`, `devctrl.c` | a context for each connection with its pended classification; the record queue | connect redirect callout, verdicts, `tcp_clean` | the same |
| network driver, other layers | `establishedctx.c`, `datalinkctx.c`, `driver.c` | queues of records | callouts, load, unload | the same |
| network library | `MonitorEvent/netdrvlib/*` | one worker, its batch, the rules | `ReadWorkThread`, rule matching, DNS | the service |
| user collectors | `MonitorEvent/sysmonuserlib/*` | an ETW session | queries, start/stop | the service |
| rule engine | `RuleEngineSvc/*` | none | configuration to rule records | the service |
| interface | `HadesContrl/*` | windows, server connection | | the service |
| ARK collectors, bundled code | see `PROJECT.json` | none of their own | | |

How an event travels. A notify routine tests its flag, allocates a record, puts
it on the list of its type under that list's lock, then calls `devctrl_pushinfo`,
which puts the *code* of the type on `g_IoQueryHead` under `g_IoQueryLock` and
sets `g_ioThreadEvent`. The I/O thread wakes, takes one pended read IRP, and for
each code removes one record of that type and copies it to the memory shared
with the service; when no code is left, or a record does not fit, it completes
the IRP with the number of bytes. `nf_workThread` parses the shared memory,
hands each record to the service and reads again.

How a verdict is made. In the event driver the routine itself looks the rule lists
up: `Process_NotifyProcessEx` refuses a start, `FsFilter1PreOperation` an access to a
directory. The service replaces a list with one IOCTL, which clears the flag, sleeps,
frees the old list under the lock of its readers, and puts the new one in place without
it. In the network driver the verdict is the service's. A datagram is taken out of the
stack, queued with a code as above, read by the worker, and written back, which
injects it again; a connection is pended (`FwpsPendClassify`), and the verdict written by
the worker completes it (`FwpsCompleteClassify`). What the service never answers is
completed or dropped when the device is closed.

What is hard. Two locks protect one logical queue, split in codes and records.
Three parties (I/O thread, monitor IOCTLs, cancel routine) take reads off one
list. Wakeups merge in an auto-reset event. A full buffer means undoing a pop in
two steps. A close frees everything after fixed pauses. Starting, stopping and
rule commands come from a task pool with no lock. Rule lists are exchanged without the
lock of their readers. Contexts of the network driver are found by callouts, write
requests and completions while a closure or a close releases them; a throttle must come
off again, and a pended classification must be completed once, by whoever is first.
`PROJECT.json` lists these hazards at the lines where they bite.

What makes each part correct: the transport loses and duplicates nothing while
it is read, completes every read once, wakes when there is work, and forgets a
session when it is closed; control leaves the worker running exactly when
monitoring is on; unload frees nothing in use and ends; a rule lookup reads a list that is
allocated, and a refusal comes from one rule set; a context is freed by the last of its
holders and after it by nobody, and its counts are exact; a packet or connection that waits
for the service is answered; the service's pools end before their memory does.

## 2. Modules

* **`EventTransport`** - the driver's event path and its reader. One action per
  critical section.
* **`EventDelivery`** - what the path promises: each record has a status
  (`none`, `queued`, `delivered`, `discarded`) and may go from queued to
  delivered once; it is discarded only by a worker that stops, or while nobody
  reads.
* **`MCEventTransport`** - the instance for TLC: process events (their pop tests
  for an empty list) and image events (theirs does not), with sizes 3 and 2 in a
  buffer of 5.
* **`MonitorControl`** - how the service turns the driver on and off: commands
  that run concurrently, the driver library they call, its workers, and the flags
  of the driver.
* **`MCMonitorControl`** - its instances for TLC, which differ in the commands that are
  given and in what may fail.
* **`UdpContexts`**, **`MCUdpContexts`** - the datagrams of the network driver: callouts,
  contexts, the queue, the worker and its write requests, injections, the close.
* **`TcpRedirect`**, **`MCTcpRedirect`** - its connections: pended classifications, their
  records, verdicts and contexts, the close.
* **`IpsRules`**, **`MCIpsRules`** - the interception of the event driver: rule lists and
  their readers, requests, close, load and unload.
* **`EventTransportProofs`**, **`EventDeliveryProofs`** (the refinement),
  **`MonitorControlProofs`**, **`UdpContextsProofs`** (types, packets, bytes, codes),
  **`UdpReferencesProofs`** (references of contexts), **`TcpRedirectProofs`** (types,
  completions), **`TcpLifetimeProofs`** (lifetime of contexts), **`IpsRulesProofs`** - the proofs.

Each of the last three models is one party's view of a device: `TcpRedirect` and
`UdpContexts` share the device, worker and close of the network driver, which each
restricts to its own kind of code, since the two meet only in the order of codes.

### How EventTransport corresponds to the code

| variable | code |
|---|---|
| `monitor` | the seven `g_*_monitor` flags; they are always written together under `g_IoQueryLock` |
| `open` | the device handle of the service, and whether `devctrl_openMem` mapped the buffers |
| `cb` | notify routines in progress: `insert` after the flag test, `push` after the list insertion, `signal` after the code insertion |
| `pending`, `codes` | the record lists and `g_IoQueryHead`; both are used with `InsertHeadList`, so a sequence's first element is the newest |
| `event` | `g_ioThreadEvent`; a satisfied wait resets it |
| `ioPc`, `ioCode`, `ioRec`, `ioIrp` | where `devctrl_ioThread` is, and its code, the record it is putting back, and its read |
| `buf`, `offset` | the records in `g_inBuf` and `*pOffset` |
| `rd` | where each worker is in `nf_workThread` and `devctrl_read`; `refused` is the branch where the IRP was already cancelled |
| `pended`, `routine`, `cancelReq`, `cancelling` | `g_pendedIoRequests`; IRPs with a cancel routine; `irp->Cancel`; IRPs whose cancel routine was called by `IoCancelIrp` and has not taken the lock |
| `completions`, `result`, `length` | `IoCompleteRequest` calls, the status, `pResult->length` |
| `stop` | `g_exitthread` and `g_stopEvent` as the worker sees them |
| `ctl`, `ctlIrp` | a monitor IOCTL or a close in progress, and the read `devctrl_cancelPendingReads` took |
| `delivered`, `discarded` | history, for `EventDelivery` |

The two cases of undefined behaviour are a transition to `ioPc = "undefined"`,
where the I/O thread stops: `RemoveHeadList` on an empty list
(`devctrl.c:1497` and the register, file and session pops) and a copy to an
unmapped buffer. `NoUndefined` says it is never reached.

Abstractions:

* `Synchronous` says how the device handle was opened. The code opens it with
  `FILE_ATTRIBUTE_NORMAL` alone (`ArkDrvlib.cpp:116-124`), so the I/O manager
  holds the file object's lock from the call to the end of each request:
  `FileLockFree` guards reads and IOCTLs, and a worker sees `g_stopEvent` only
  after its read is completed. `nf_workThread` itself is written for an
  overlapped handle (`ERROR_IO_PENDING`, `CancelIo`), and with `Synchronous =
  FALSE` the guards vanish: more interleavings, and the driver must be right for
  them too, since any handle may be opened that way.
* Records are names with a type and a size; their contents do not matter to the
  transport. `Unannounced` are the process exits, whose notify routine returns
  after the insertion (`process.c:98`). A record is raised once, so `Records`
  bounds the number of notifications of a behaviour.
* `g_pendedIoRequests` is a set: the code takes the first read whose cancel
  routine it can clear; the model takes any.
* The seven monitor flags are one, and IPS flags appear only by what
  `devctrl_setIpsMonitor` does to reads. A routine that is entered for IPS only
  returns before it allocates a record.
* The service holds one handle and sends control requests one at a time;
  concurrent commands belong to `MonitorControl`.
* IRP completion, `IoSetCancelRoutine` and `IoCancelIrp` follow the I/O manager;
  they are marked external in the map. The system sends `IRP_MJ_CLOSE` when no
  IRP of the handle is left, hence the guard of `Close`.
* `Sleep` during a close waits for notify routines to be idle. This is a timing
  assumption: `devctrl_close` pauses two seconds in all (`devctrl.c:1104`, `952`)
  and a notify routine needs microseconds from its flag test to its
  `KeSetEvent`. (The registry routine, which may wait three seconds for the
  filter port, tests the flag again afterwards, `register.c:259`.) Without the
  assumption `ClosedIsEmpty` is false; the mutant `SleepTooShort` shows it.
* Driver shutdown (`devctrl_ioThreadFree`) is in `IpsRules`.

### How MonitorControl corresponds to the code

`EventTransport` looks at one session from inside the driver. `MonitorControl` looks
at the sessions from the service, and keeps of the driver's inside only what a
command can notice.

| variable | code |
|---|---|
| `init`, `mon`, `ips` | `kInitStatus`, `kerMonStatus`, `kBesnipingStatus` (`kmsginterface.cpp`) |
| `dev`, `opened` | `g_hDevice` and `m_devhandler` (`ArkDrvlib.cpp`); `None` is `NULL` or `INVALID_HANDLE_VALUE` |
| `thread`, `exiting`, `stopEvent` | `m_threadobjhandler`, `g_exitthread`, `g_stopEvent` |
| `handle` | each device handle: unused, open, or in `CloseHandle`, when the number is already invalid |
| `kmon`, `kips`, `queued` | the driver's monitor flags; the kinds of rules whose interception flag is set; whether codes are queued |
| `rd`, `via` | where each worker is in `nf_workThread`, and the handle its read is pended on |
| `act` | each thread that runs a command: the command, where it is, `ioldStatus` or what `DriverFree` still has to do, and what it waits for |

A command is a sequence of steps, each one request, one wait or one access to the
flags, since no lock makes a command atomic. `monOn` to `ipsOff` are the tasks 403 to
406, `reload` stands for 407 to 410, `query` for 100 to 199, and `exit` is the end of
`main.cpp` after task 188; one thread runs it.

* The handle is synchronous. `LockFree` is the file object's lock, and a request,
  a read and a close wait for it. (`devctrl_cancelPendingReads` therefore finds only
  reads that came through another handle.)
* A request is one step: its effect in the driver, and its return. `g_cs`, held over
  one request, needs no variable of its own.
* `devctrl_sendioct` on an invalid handle, or on a request that the driver fails,
  never returns: `DeviceIoControl` leaves the OVERLAPPED in the state *pending*,
  and the code does not look at its result before it waits
  (`ArkDrvlib.cpp:283-294`). Such a thread is `hung`. Runs that can reach it, or the
  exit, switch the deadlock check off: all threads may have stopped for good.
* `JoinThread` is `WaitForSingleObject` with three seconds. It ends when the worker
  has ended or is blocked in `ReadFile`. This is a timing assumption: a worker that is
  not blocked ends in time.
* `DrvCheckStatus`, which installs and starts the driver, is taken to succeed; a
  device that cannot be opened is the failure `open`.
* A configuration names some kinds of rules or none: `InitRules` sends any set of
  them, `ReloadRules` one or none.
* `Handles` and `Workers` bound what exists at the same time; a step that needs one
  more waits.

### How UdpContexts corresponds to the code

| variable | code |
|---|---|
| `monitor`, `session`, `opens` | `g_monitorflag`; the stages of `devctrl_close` with `tcp_clean`'s sleep, `udp_clean` and `devctrl_clean` |
| `state`, `home`, `refs` | each `UDPCTX`: allocated or freed, `transportEndpointHandle`, `refCount` |
| `listed`, `byHandle` | `g_lUdpCtx` with `g_phtUdpCtxById`; `g_phtUdpCtxByHandle` |
| `pended`, `injected`, `busy` | `pendedSendBytes`/`pendedRecvBytes`; `injectedSendBytes`/`injectedRecvBytes`; `sendInProgress`/`recvInProgress` |
| `queue`, `codes`, `batch` | `g_udp_pendPacket`, `g_IoQueryHead`, what the shared buffer holds; both lists are filled and emptied at their head |
| `act` | each thread: callouts, the worker with the I/O thread that fills its buffer, and the completion of each injected packet; `owes` counts the references it holds and has yet to give back |

* All packets have one size, so bytes are counted in packets; `Limit` is `UDP_PEND_LIMIT`.
* A freed context is not allocated again: ids are never reused (`udpctx.c`), so this
  only bounds them. `HeldContextsLive` says who may still have a freed one.
* The I/O thread serves one read at a time, the worker's, and is part of its program
  counter (`reading`, `filling`, `pop`). The IRPs themselves are modelled in
  `EventTransport`, whose `devctrl.c` the network driver's copy resembles.
* A closure is indicated after the last classification of its endpoint: the guard of
  `Closure` is what the filtering platform promises.
* `PauseEnds` waits for callouts, requests and injections under way: `tcp_clean` sleeps
  a second (`tcpctx.c:396`) and nothing checks. Without it `HeldContextsLive` is false
  (mutant `PauseSkipped`).
* The closure of an endpoint tests no flag of the monitor (`callouts.c:1338-1362`), so one
  may begin at any moment, also behind the pause, and runs beside `udp_clean`. The
  context it has found may then be freed under it; what it does to the freed memory in
  `udp_freeCtx` is outside the model, which only shows that nobody else has it.

### How TcpRedirect corresponds to the code

| variable | code |
|---|---|
| `pc`, `classify`, `completed` | each connection's callout; what the platform knows; calls of `FwpsCompleteClassify` |
| `state`, `refs`, `hasHandle`, `hasClassify`, `isPended` | its `TCPCTX`: `refCount`, `transportEndpointHandle`, `redirectInfo.classifyHandle`, `redirectInfo.isPended` |
| `listed`, `byId` | `g_lTcpCtx`, `g_phtTcpCtxById`; `tcp_removeFromFlows` empties the first and leaves the second |
| `records`, `codes`, `batch` | `g_tcpctx_data`, its codes, the shared buffer |
| `act` | the worker, and the thread in `devctrl_close`; `left` is the number of releases it still makes |

* `Purge` is one step although `tcp_purgeRedirectInfo` takes no lock. Two purges of one
  context do not meet: the worker's verdict has a reference, and the other one comes
  with the last (`ListedCount`, `UsedContextsLive`). The callout writes `classifyHandle` and
  `isPended` once each, so that its write falls before the purge or after it.
* A verdict is a verdict: whether it permits, blocks or redirects does not change what
  happens to the context.
* `tcp_removeFromFlows` runs *before* the sleep (`tcpctx.c:395-396`), so a close may
  reach a context at every step of its callout, and `RemoveContext` has no guard on it.
  `RemoveEnds` and `PauseEnds` are the sleep: callouts under way end before
  `tcp_releaseFlows`.

### How IpsRules corresponds to the code

| variable | code |
|---|---|
| `list`, `heap`, `lock` | `g_proc_ipsList` and the two lists of `rDirectory.c`; what is allocated; `g_proc_ipslock` and the directory lock, as held by readers |
| `mode`, `ips`, `monitor` | `g_proc_ipsmod`; the `g_*_ips_monitor*` flags by kind; `g_proc_monitorprocess` |
| `ctl` | the IOCTL under way: `clean` frees the old list, `alloc` makes the new one, `take` reads `p1`, `install` exchanges |
| `note` | each thread in a routine: `lookup` before the lock, `read` with it, `decide` after it |
| `registered`, `lookaside`, `records`, `codes`, `io`, `wake` | what `DriverEntry` made: routines, lookaside lists, their entries, the I/O thread and its event |
| `session`, `drv` | the stages of `devctrl_close` and of `driverUnload` |

* `gen` tags a list and a mode with the rule set they were sent with; it is history, and
  no step of the program reads it.
* The service sends one request at a time, on a synchronous handle (`ArkDrvlib.cpp:116`),
  names before directories (`kmsginterface.cpp:798-862`). `install` takes no lock: this is
  what keeps it safe, see section 4. A second program with a handle could make the old
  list be freed under a reader.
* The sleeps of a request and of a close are constants of the model: `Overlap` names
  those that may end too early. `ReadersSafe` and `ListsAccounted` do not need them (proved).
* The lists of registry and thread rules (`rRegister.c`, `rThread.c`) repeat the scheme of
  process names, with a lock and list of their own; `White` fixes the colour of the directory
  rules, whose two colours are separate lists.

Definitions introduced by a comment starting with "Mutant" are not part of the
model. Each is a variant of the definition after it with one plausible bug, and
`PROJECT.json` names the property it breaks.

## 3. Properties and runs

`PROJECT.json` names the hazards each property answers to.

**`transport_safety`** (`Transport.cfg`; one notify routine, one worker, three
records: a creation, an exit, an image load). 708548 states.
`CodesBacked`: outside a close's cleaning, the codes of a type queued or held by
the I/O thread, plus the routines between their two insertions, never outnumber
its records. It is why the pops without an empty test are harmless
(`NoUndefined`), and it fails if a pop that does not fit loses its record or a
close keeps codes. `CompletedOnce` and `SingleOwner`: a read is completed at
most once, and until then is in exactly one place. `BufferSafe`: the buffer is
mapped while the I/O thread has a read, though a close does not ask it, and
`offset` stays below the length, so that the unsigned size test cannot wrap;
this rests on the one spare byte in that test. `ClosedIsEmpty`: sessions are
independent. `IInv` is the inductive invariant, checked here before it is proved.
`RequestsReturn`: a monitor command or a close returns, also when it meets a read whose
cancel routine is between its two locks (`devctrl.c:842`, `1022`).

This run has `Synchronous = FALSE`. The code's handle is synchronous (`ArkDrvlib.cpp:116-124`,
no `FILE_FLAG_OVERLAPPED`), which orders the requests of the handle one behind the
other; without the file lock every behaviour of the synchronous handle is still there, and more
besides: a control request that meets a read in progress. For an invariant, and for the
return of a request, this is the stronger check. Where it would be the weaker one, for what
must happen to a worker, the run is on the handle of the code:

**`transport_liveness`** (`TransportLive.cfg`; two notify routines, two records, the
synchronous handle of the code; 245620 states). `DeliveryHolds`: `EventTransport` implements
`EventDelivery`. The mapping computes a record's status from where the record is:
on a list, being put back or in the buffer is `queued`. In particular a batch cut
short by a full buffer neither loses nor repeats a record, and nothing is lost by
cancelled or failed reads: they never carry records. `NoLostWakeup`: a pended read
leaves the list when codes wait. `CodesDrain`: the code list empties or the worker is
gone. The two records, of sizes 3 and 2, do not fit one buffer together, so batches
are cut. `NoUndefined` and `CodesBacked` are checked here for two routines, one running
between the two insertions of the other.

That a worker told to stop ends is *not* a property of this code: with monitoring off no
event completes the worker's `ReadFile`, so it never reaches the wait for `g_stopEvent`, and
`devctrl_stopthread` gives up after three seconds. This, and what follows for the service, is
`off_blocked`.

Two workers. `devctrl_stopthread` waits three seconds and gives up, and
`devctrl_startthread` then starts a second worker. That the reads of both keep
`CompletedOnce` and `SingleOwner` is proved, for any number of workers (section 4).
`DeliveryHolds` and `NoLostWakeup` are *not* claimed for two: they parse one
shared buffer, and one wakeup serves one read.

**`exit_unreported`** (`TransportExit.cfg`, a violation): `README.md:66` of the
repository promises events for process creation and destruction. `process.c`
queues an exit without its code. The counterexample inserts an exit while a
worker waits, after which nothing moves. A later creation's code reads the exit
instead of the creation's own record, which then waits in turn.

**`control_sequences`** (`Control.cfg`; one thread, every command, the failures `open` and `share`, two
kinds, two handles, two workers): between commands the service and the driver agree.
`FlagsAgree`: `kerMonStatus` and `kBesnipingStatus` are what the driver does, although
reloads and closes clear flags behind the service's back. `SessionAgrees`: the
driver counts as initialised exactly while the handle is open, and no second
handle is left. `MonitorHasWorker`: monitoring on means a worker that nobody has told
to stop - an old `g_stopEvent` does not reach the next worker. Behaviours end
in the blocked close of `off_blocked`, or in the request that never returns when the device did not
open or share its memory, or come back to rest when the worker's read was
not pended at that moment; all are in the run.

**`control_concurrent`** (`ControlTwo.cfg`; two threads, every command, every failure;
about two million states): what remains true in any interleaving. `QuietWhenClosed`: when all
handles are closed, the driver neither monitors nor intercepts. The stronger
properties of the run above are false here, which is what the violations show.

Two violations, each with the line that says otherwise (`findings`):
**`off_blocked`** (`ControlOff.cfg`): turning monitoring off does not return, because the
worker cannot be stopped and the close waits for its read. **`reload_race`**
(`ControlReload.cfg`): a reload beside `ipsOn` leaves interception off while the
service counts it as on. (A failed open counts as initialised, `kmsginterface.cpp:885`
testing a status of -1 with `!status`; `MarkInit` takes the step.)

The failure `query` is in `control_concurrent` only: an answer shorter than was
asked for makes `devctrl_sendioct` close the device (`ArkDrvlib.cpp:300-304`), and
monitoring ends while `kerMonStatus` stays true. `FlagsAgree` is false with it.

**`udp_safety`** (`Udp.cfg`; two callouts of one endpoint, three packets in lists of up to
two buffers, a shared buffer for two, two contexts, one session; every failure but two; 1183198
states). `HeldContextsLive`: no context is freed while a classify, a write request or an
injection holds it, which the window in `udp_freeCtx` between two tables puts at
risk; and the one actor that may have a context freed under it is the closure of its endpoint,
alone, which `udp_clean` overtakes. `CountIsOwed`: the count of a listed context is what its holders will give back
plus the table's reference, also when two callouts allocate a context for one endpoint
and the table keeps the first only; the second then stays listed until the close.
`ThrottleIsExact`: a direction is throttled exactly while more than the limit is
injected, so that no throttle stays on with nothing left to take it off.
`PacketsHaveCodes`: no queued packet waits for another's event. `CloseLeavesNothing`: a closed
device has no packet, code or context, but one that a closure had taken out of the list before
`udp_clean` and is about to free.

Two failures are left out of it, since the code handles them wrongly: a header that cannot be built
(`header`, `devctrl.c:664`, `724`, `831`) loses bytes and reference (`CountIsOwed`), and a code
that cannot be allocated (`code`; the callout ignores the status) leaves a packet
without one (`PacketsHaveCodes`).

**`udp_liveness`** (`UdpLive.cfg`; one callout): `QueueDrains` and `ClosedIsFreed`, under weak fairness of
callouts, I/O thread, worker, completions and a begun close.

**`tcp_redirect`** (`Tcp.cfg`; two connections, a buffer for one, three sessions, failures of
allocation, pend and queueing; 28178 states). A close may meet a callout at every step.
`CompletedOnce`: no classification is completed twice. `UsedContextsLive`: worker and close
never work on a freed context, and a callout does only when the close takes its context before the
sleep. `ListedCount`: the count of a listed context, with the two releases that a close makes
of one with an endpoint handle. `CloseCompletes`, a liveness property: what a close finds
listed and pended it completes, also a connection whose record could not be queued and that was
permitted while pended (`callouts.c:887`). `AskedIsAnswered`, another: a record queued for a
listed connection leads to a completion, by verdict or close. A
lost code or a verdict that finds no memory (`code`, `answer`) is left out: the
connection then hangs until the close.

**`tcp_close_race`** (`TcpClose.cfg`, a violation): `devctrl.c:930` gives the protocol
of a connection as pend, apply, complete. A close that meets a callout between its
allocation and its pend leaves a connection that is pended and never completed: the callout has
not yet written its endpoint handle, so `tcp_removeFromFlows` makes one release where the
references are two, the context is in no list any more, and `tcp_releaseFlows` does not see it.
No failure is needed and no memory is used after its free; the context itself stays in the
table of ids.

**`ips_rules`** (`Ips.cfg`; one thread in the routines, one image, three rule sets of processes or
directories, one load and unload; memory for either kind of rules may fail, a session may have no
process rules, and the sleep of a request may be too short; 1235933 states). `ReadersSafe`,
`ListsAccounted`. `OneRuleSet`: a refusal that a list decides comes from a list and a
mode (or a list of directories and one of names) that were sent together, unless the
rules changed while the routine ran: the routine reads the mode twice, and the two
directory lists under two holds of the lock. `LookasidesSafe`: nothing is taken from or given to a deleted
lookaside list, although `Process_Free` and `devctrl_ioThreadFree` delete theirs before they
unhook the routine and stop the thread; it holds because `devctrl_free` turns the
monitor off, sleeps and cleans first. `UnloadEnds`, a liveness property.

Two kinds of refusal come with no list, and `OneRuleSet` says nothing of them. A session whose
configuration has no process rules (`kmsginterface.cpp:793`) after one in mode 1: `devctrl_close`
frees the list and keeps `g_proc_ipsmod`, so that every start is refused (`process.c:45`). And
directory rules of which the names found no memory: the service ignores that status and sends the
directories (`kmsginterface.cpp:839-843`), and a white list then refuses everyone there, because
the old names were freed before the new ones were allocated. (When it is the directories that
find no memory, nothing is protected: `rDirectory.c:174` has freed the old ones as well.) The model takes all
these steps; the repository does not say what should happen.

`LookasidesSafe` is false when the device cannot be made: `driver.c:191` returns success, and the
unload deletes lists that were never initialised. This failure (`device`) is left out.

Bounds. Two types cover the two kinds of pop. A buffer of 5 with sizes 3 and 2
makes one record of each fit by equality without the spare byte (the boundary of
`BufferSafe`) and cuts batches. Two notify routines (`transport_liveness`) are enough for one to run
between the two insertions of the other. `WordMod = 64` stands for 2^64; it only
has to exceed the buffer. Sessions, reads, cancellations and monitor commands
are not bounded: every behaviour goes on for ever, and no run of the transport
switches the deadlock check off. In `MonitorControl` commands are not bounded either. Two
kinds make a partial set of flags; two handles and two workers are one more
than a sound session has; two threads are what each race found needs.

In `UdpContexts` two callouts meet in every window of a context, three packets fill a buffer
of two and one more, and a limit of one packet is crossed by the second, both ways; in the
safety run a second session would add only what `CloseLeavesNothing` excludes. In
`TcpRedirect` two connections fill the buffer of one; three sessions are one more than there are
connections that an earlier close can have left in the table of ids. The invariants were also checked
with three connections and two sessions (971099 states). In `IpsRules` three rule sets are an
old one, a new one, and one more that begins while a routine still has what it read of
the first. One thread in the routines is enough for a liveness run: of another's steps a routine sees
only the lock and the queue, whose order is `EventTransport`'s matter (`MaxRecords` bounds it). With two threads and
two rule sets the invariants were checked apart (6610480 states), and they are proved for any number.
Packets, connections, rule sets and sessions are
bounded by constants, so these runs, which may stop for good, switch the deadlock check off.

Fairness. `FairSpec` of `EventTransport`: weak fairness of each started notify routine, of the I/O
thread, of each worker with its read, of each called cancel routine and of a
control request in progress, and strong fairness of
`ReadIssue`: other requests take and release the file lock again and again, and
the I/O manager queues the waiters. All are threads that the system schedules, and each
of these steps takes a spin lock for a bounded time. Nothing obliges the system to
raise an event, or anyone to start, stop or cancel. `ReadInvalid` and
`ServiceMapFails` are failures inside a fair disjunction: they may happen, and
need not. `RequestSpec` asks less, weak fairness of the notify routines, the cancel routines and the
request alone: `RequestsReturn` needs neither the I/O thread nor a worker.

In `MonitorControl`, strong fairness of each thread's step and of each worker: a thread that
waits for the file lock is queued by the I/O manager and gets it if it is free again and again.
Weak fairness of `Event`: while monitoring is on, an event comes; registry
monitoring alone makes this true of a running system. Nobody is obliged to give
a command.

In the other three modules weak fairness of what has begun: callouts and routines return, the
I/O thread and the worker are scheduled, the platform completes an injection, and a request,
a close or an unload goes on. Locks are held for bounded work and taken in turn, so no step
needs strong fairness. Nobody is obliged to send, connect, open or close. The worker is
taken to read again and answer: `QueueDrains` and `AskedIsAnswered` are about a service
that runs, or closes the device.

## 4. Proofs

Each safety property of a passing run is a theorem here, for every value of the constants that
the module's named assumption allows, and `EventTransport` is proved to implement `EventDelivery`.
Where a theorem has a hypothesis (a failure, a sleep of the close, one thread, one worker), TLC finds the
property violated when the hypothesis alone is dropped: none is there for the
proof's convenience, and each names something that the code does not guard against. The hypotheses
are also those of the runs. Each inductive invariant was checked by TLC on the runs' instances first.

| theorem | property | hypotheses |
|---|---|---|
| `TypeCorrect`, `AlwaysDefined`, `CodesAlwaysBacked`, `NeverCompletedTwice`, `AlwaysOwned`, `BufferAlwaysSafe`, `SessionsSeparate` | the seven safety properties of `transport_safety` | none |
| `DeliveryImplemented` | `DeliveryHolds` | one worker |
| `ControlTypeCorrect`, `AlwaysQuiet` | `TypeOK`, `QuietWhenClosed` | none |
| `FlagsAgreeAlone`, `SessionAgreesAlone`, `MonitorHasWorkerAlone` | `FlagsAgree`, `SessionAgrees`, `MonitorHasWorker` | one thread, no short answer (`query`) |
| `UdpTypeCorrect` | `TypeOK` | none |
| `ThrottleExact` | `ThrottleIsExact` | headers are built (`header`) |
| `EveryPacketHasACode` | `PacketsHaveCodes` | codes are allocated (`code`) |
| `HeldContexts`, `CloseLeavesNone` | `HeldContextsLive`, `CloseLeavesNothing` | none |
| `CountsAreOwed` | `CountIsOwed` | headers are built (`header`) |
| `TcpTypeCorrect`, `CompletesOnce` | `TypeOK`, `CompletedOnce` | none |
| `ReferencesCounted` | `ListedCount` | none |
| `ContextsInUseLive` | `UsedContextsLive` | none |
| `RulesTypeCorrect`, `NeverReadsFreed`, `NoListLost` | `TypeOK`, `ReadersSafe`, `ListsAccounted` | none |
| `LookasidesLive` | `LookasidesSafe` | the close's sleep suffices, the device is made |
| `OneSetDecides` | `OneRuleSet` | none |

`EventTransportProofs` proves, for every set of types, records, notify routines
(finite) and workers, any buffer that is larger than each single record, and both kinds of handle:

* `Invariance`: `Spec => []IInv`;
* from it `TypeCorrect`, `AlwaysDefined`, `CodesAlwaysBacked`,
  `NeverCompletedTwice`, `AlwaysOwned`, `BufferAlwaysSafe`, `SessionsSeparate`,
  the seven safety properties of `transport_safety`.

Assumptions: `TypesAssumption`, `SizesAssumption`, `HandleAssumption`, `FiniteAssumption`
(finitely many routines, so that those between their insertions can be counted).

The invariant and why it is needed. None of the properties is inductive. `IInv`
adds three shapes, proved in layers, each from the ones before it:

1. `TypeOK` and `IoShape` (`TypeNext`): the I/O thread has a read exactly outside
   `wait` and `service`, a code exactly while popping, a record exactly
   while putting one back; `offset < BufLen`.
2. `IrpShape` (`IrpNext`): an uncompleted read past `devctrl_read` is on the list or
   with the I/O thread or with a request, never two of them; on the list it has a
   cancel routine unless that routine has been called.
3. `SessionShape` (`SessionNext`): a closed or closing device has no worker. With
   layers 1 and 2 the I/O thread, which holds a read only if its worker is alive,
   holds none during a close - the reason why freeing the buffer is safe.
4. `CodesBacked` and `NoUndefined` (`BackedNext`): by layers 1 to 3 a pop happens
   outside a close's cleaning, where the held code counts as one of
   `QueuedCodes`, so a record is there. The lemmas `OccurrencesCons` and
   `OccurrencesTail` say what list insertion and removal do to the count of a
   code, `PushingStep` what a notify routine's step does to its set.

`EventDeliveryProofs` proves `DeliveryImplemented`: under the mapping of section 3, each initial
state of `EventTransport` is one of `EventDelivery`, and each step is a step of it or changes no
status. The invariant `DInv` adds to `IInv`:

* `Places`: a record is in one place only - with its notify routine, on its list, with the I/O thread, in the
  buffer (`Unread`) or gone - and no list holds it twice. The mapping computes a status from the place, so this
  is what makes a status a function of time that never goes back;
* `ResultShape`: only a read completed with success carries a length, so a cancelled or refused
  read leaves no record between the buffer and the worker.

The steps are sorted by what they do to records: the `Quiet` lemmas for those that move none,
the `Moves` lemmas for those that move one, from place to place; the `Refines` lemmas then read the abstract
step off. With two workers, one that parses its buffer or stops (`WorkerParse`, `WorkerGone`) would account
for the other's records, which is why `OneWorker` is a hypothesis; `SingleOwner` and the others do without it.

`MonitorControlProofs` proves, for any number of threads, handles, workers and kinds, any set
of commands and any failures, `ControlTypeCorrect` and `AlwaysQuiet`. The
invariant is `TypeOK /\ QuietWhenClosed`, which is inductive: a flag goes on only by a
request through an open handle (`SetMonitor`, `SetIpsMonitor`) or, for `queued`, with a flag on;
and a handle goes back to unused only in `DriverClose`, which clears everything.
The proof follows the code's division: `ServiceStep` for steps that touch the
service only, `DriverStep` for those that reach the driver or a worker, `OtherStep` for
commands, workers and events. It assumes `ControlAssumption`.

The three theorems on one thread need more, since they are about the states between commands and
a command has up to a dozen steps. `AloneInv` has two cases. `Regular` says of each step where the
command has the device (`Held`), which commands come there and what is off by then (`Turned`), how the driver's
flags differ from the service's between a request and its mark, and while a reload has cleared a kind
(`Flagged`), and that a worker waits for the one handle (`Served`). `Lost` is the other: the device was not
opened, or its memory not shared, and the command goes on as though it had been, to a request that
never returns; then the thread hangs and no state between commands comes again. The code's mistake
(`kmsginterface.cpp:885`) is part of the model, and the properties hold beside it. A short answer
(`query`) is not: it closes the device behind the flags. Nor are two threads: `reload_race`.

`UdpContextsProofs` proves, for any number of callouts, endpoints, contexts and packets,
`UdpTypeCorrect`, `ThrottleExact` and `EveryPacketHasACode`. The invariant `UInv` comes in layers:

1. `Base`: `Globals`, types with the byte counters as *integers*; `Locals`, what each actor has in hand
   at each of its steps and how many references it owes; `Stages`, what a begun close has waited for.
2. `Unique`: a packet is ahead of one callout, or queued, or in the batch, or with the worker, or being
   injected, and only one of these. So each injection has a completion of its own to give its bytes back.
3. `Bytes`: a counter of pended bytes is at least the packets that will be taken off it, one of
   injected bytes is exactly what its injections will give back (at least, when a header fails), and
   a direction is throttled exactly over the limit. Only this shows that the subtractions of the code,
   on unsigned numbers, never wrap; `TypeOK` follows from it and not the other way round.

`EveryPacketHasACode` adds an induction on the lengths of queue and code list: codes on the
list and in the hands of the callouts and the I/O thread are as many as packets.

`UdpReferencesProofs` proves the references: `HeldContexts`, `CountsAreOwed` and `CloseLeavesNone`.
`References` says that a listed context's count is what its holders owe and the table's reference, which a closure
takes over (`CountOf`); that a holder's context is listed (`HandOf`); and that a context between the two
tables of `udp_freeCtx` belongs to the one actor that took the last reference, its endpoint closed so that
no callout finds it (`unhash` in `HandOf`, `TableOf`). A closure may hold a context that udp_clean has
freed (`Gone`): it has no endpoint and is in no table (`GoneIs`), so what the closure still does
to it reaches no listed one (`GoneRefs`), and the counts stay right. The last layer, `Late`, says what
is true behind the pause: only closures hold anything (`CallerOf`), a freed context that is still held is held by
one closure alone (`GoneOf`), and what the cleaning has passed is empty (`Emptied`). The lemma `OwedMoves`
says how the sum of what is owed changes when one actor moves, and every step's lemma uses it. In the
model, as in the theorems, the memory of a freed context is not given out again.

`TcpRedirectProofs` proves `TcpTypeCorrect` and `CompletesOnce` (`CompletedOnce`) for any number of
connections and sessions: not even a close that meets
a callout makes a second completion. `TcpInv` says that a context counts as pended only from
its callout's `Mark` to its one completion; `PurgeKeepsCompletions` is the lemma of both
callers of `tcp_purgeRedirectInfo`. It assumes `TcpAssumption`.

`TcpLifetimeProofs` proves `ReferencesCounted` and `ContextsInUseLive`, also when the close meets a callout, in two
layers. `CountInv`: the worker and the close are not at work together (`Posts`), and a context that the close
has in hand has left the list, or is there with the one reference that it still releases; nobody has a context
before its callout allocates it (`Exact`). `LiveInv` adds that a context in the table of ids is live with a
reference, and another one for the worker (`Counted`); that what the close has in hand is in that table
with at least the references it still gives back (`InHand`); that a callout's context is listed until the close begins
(`Called`); and where the threads are at each stage of the session (`Stages`). A context is freed only by the
last release, which takes it out of the table, so worker and close never have it, and a callout only
between the start of the close and the end of its sleep. That every pended connection is completed is not a theorem:
`tcp_close_race` refutes it.

`IpsRulesProofs` proves, for any threads, images and bounds, every failure and every sleep
that is too short, `RulesTypeCorrect`, `NeverReadsFreed` (`ReadersSafe`) and `NoListLost`
(`ListsAccounted`). The exchange of the pointer and the free of the old list take no lock, so
`ReadersSafe` is not a matter of locks alone. `RulesInv` adds the reason:

* `ReadersLock`: a routine that reads a list has the lock of its kind, and the list is the one in use;
* `Exchange`: from the clean to the exchange no list of the request's kind is in use, so what
  `install` frees is nothing (`ctl.old = None`), and no reader can have it;
* `Serial`: requests, close and unload do not run beside each other - here the one
  handle of the service enters;
* `Tagged`: the three lists do not share memory.

The proof goes by party: `NoteKeepsRules` for the routines, `RequestKeepsRules`,
`OthersKeepRules` for close, load, unload and I/O thread, with `CleanKeeps` for the free under the lock,
which five steps use. It assumes `RulesAssumption`.

For `LookasidesLive`, `LookInv` adds `Quieted`, what the sleeps of a close leave behind - no routine under way, no record and
no code queued - and `Allocated`, up to which step of the unload each lookaside list is live. For
`OneSetDecides`, `SetInv` says what a request has done so far (`Requested`), that mode and list, and the two lists of directories,
are of one set outside it (`ModeIs`, `PairIs`), and, the core, what a routine that began after the last exchange knows at each
step (`Knows`): the mode is not zero, and a list that it has read is of the set it compares with. A list may
be freed before it decides (a close, a failed allocation); one that replaced it would have counted as an exchange.

Only model-checked: the liveness properties (`NoLostWakeup`, `CodesDrain`, `RequestsReturn`, `QueueDrains`,
`ClosedIsFreed`, `CloseCompletes`, `AskedIsAnswered`, `UnloadEnds`). Liveness under fairness is out of the prover's reach.

## 5. Plan

In this order:

1. `EventTransport`, `EventDelivery`: safety and refinement proved - done.
2. `MonitorControl`: all its invariants proved - done. Left: `DrvCheckStatus`.
3. `UdpContexts` and `TcpRedirect`: all their invariants proved - done.
4. `IpsRules`, with the unload of the driver: all its invariants proved - done.
5. `ServiceQueues`: event queues, worker pool and task pool of `HadSvc`, their end.
6. Rule matching (`netdrvlib/NetRule.cpp`, `RuleEngineSvc`) as functions against a
   reference definition.

Theorems to come: the safety halves of the liveness properties, as action properties (a pended read that is
served stays served until it is completed; a context goes from live to freed and never back), and
`CompletedOnce` of `TcpRedirect` as the refinement of a classification that is answered once.

## 6. Not modelled

The ARK collectors and user-mode collectors (queries of operating-system
structures, no state), the interface (windows), `kwsk.c` (unused), `kflt.c` (its port never has
a client, since `HlprMiniPortIpc` of the service is never instantiated), the channels'
byte formats, and bundled libraries (`DuiLib`, `HadesSdk`). `devctrl_write` and the ARK
IOCTLs of `sysmondrv` neither touch the event path nor keep state. The established and data link
layers of `netdrv` copy a record to a queue and permit; the cancellation of its reads repeats
`sysmondrv`'s. The rest is in the plan above.

Seen while modelling and outside the models: `rDirectory.c:114` and `:132` compare a
directory exactly, where the repository's `README.md:153` promises its subdirectories;
`netdrv/devctrl.c:1349` returns with a lock held; a packet written back carries the direction of
the code it was read with, not its own (`netdrv/devctrl.c:1746`); the bytes counted at
`callouts.c:984` are never taken back, so that an endpoint over `UDP_PEND_LIMIT` is permitted unseen from then
on (in the model, `PendRefused`), and the write request's answer 0 to a throttled direction is never met.

# Verification of the CC3200 host software

TLA+ models, TLC runs and TLAPS proofs for the CC3200 SDK in this repository.
The CC3200 is two processors on one chip: the *host* runs the application and
the SimpleLink host driver (`simplelink/source`), and the *network processor*
(NWP) runs the Wi-Fi and TCP/IP stack. They talk over an SPI link and one
interrupt line. Everything an application does on the network goes through the
host driver, several tasks use it at once, and it is the part whose mistakes
show up as a device that stops answering. It is therefore modelled first, and
after it the one part that lives across resets (boot loader, file commit and
over-the-air update) and two of the libraries around the driver: the TFTP client and
the software timers.

## 1. The parts of the system

Paths are relative to `src/`.

| part | state | operations | hard behaviour | what makes it correct | where |
|---|---|---|---|---|---|
| **Command and receive core** `simplelink/source/driver.c` | global lock, `CmdSyncObj`, `IsCmdRespWaited`, `RxIrqCnt`/`RxDoneCnt`, interrupt mask, relay flag, `FunctionParams` | `_SlDrvCmdOp`, `_SlDrvCmdSend`, `_SlDrvMsgRead…`, `_SlDrvRxIrqHandler` | a message is announced by an interrupt to whichever of two contexts should read it, while that changes; the queue to one of them drops entries | no read of an empty bus, no announced message forgotten, each call gets the response to its own command | `SlDriver`, `SlRpc` |
| **Pool of concurrent actions** `driver.c`, `socket.c`, `netapp.c` | array of objects on three lists that share one link, bitmap of active actions, a semaphore per object, `ActionIndex` | `_SlDrvWaitForPoolObj`, `_SlDrvReleasePoolObj`, `_SlFindAndSetActiveObj`, the `_sl_HandleAsync_…` handlers | calls that exclude each other park and are called up; answers arrive any time later and must find their object | lists stay lists, an answer reaches its call, a parked call is called up | `SlObjPool`, `SlActions` |
| **Flow control** `driver.c`, `flowcont.c` | `TxPoolCnt`, `TxLockObj`, `TxSyncObj`, two socket bitmaps | `_SlDrvDataReadOp`, `_SlDrvDataWriteOp`, the header part of `_SlDrvMsgRead` | the credit is looked at under one lock and changed under another | no message without a buffer, no lost signal, blocking sockets block | `SlFlowCont` |
| **FreeRTOS layer** `oslib/osi_freertos.c` | spawn queue of 3 entries, mutexes, binary semaphores | `osi_Spawn`, `vSimpleLinkSpawnTask`, `osi_LockObj…`, `osi_SyncObj…` | `osi_Spawn` drops what does not fit | what the core needs of it | in `SlDriver` |
| TI-RTOS layer `oslib/osi_tirtos.c` | mailbox | the same interface | as above | as above | no |
| Internal spawn task `simplelink/source/spawn.c` | list of entries | `_SlInternalSpawn` | – | – | no: `user.h:842` always defines `SL_PLATFORM_EXTERNAL_SPAWN`, so it is in no build |
| Driver without OS `simplelink/source/nonos.c` | polled variables, five spawn entries | `_SlNonOsSpawn`, `_SlNonOsMainLoopTask`, `_SlNonOsSemGet` | every wait runs the main loop, so entries run on top of the call that waits, and wait themselves | an announced message has a reader, no entry takes the response of the call below it, calls end | `SlNonOs` |
| Device start and stop `device.c` | `pInitCallback`, life of the control block | `sl_Start`, `sl_Stop`, `_sl_HandleAsync_InitComplete` | init-complete races the caller and a repeated message | objects released once, no use after stop | planned |
| Socket interface `socket.c` | none of its own | `sl_Accept`, `sl_Connect`, `sl_Select`, `sl_Send…`, `sl_Recv…`, … | blocking calls on one socket | those of the pool and the flow control | in `SlObjPool`, `SlFlowCont` |
| Network applications `netapp.c` | ping callback, HTTP server callback | DNS by name and by service, ping, mDNS, token handlers | a command sent from inside an event handler; one ping callback for all tasks | as the core, and a report reaches whoever asked for it | in `SlDriver`, `SlObjPool`, partly |
| Wlan, file system, netcfg `wlan.c`, `fs.c`, `netcfg.c` | relay flag in `sl_FsClose` | one command each | the flag is raised without the lock | the flag belongs to its command | in `SlDriver` |
| Host port `simplelink/cc_pal.c` | registers | SPI transfer, interrupt enable, power handshake | timing | – | no |
| File commit and boot information `simplelink_extlib/flc`, the boot loader's `main.c` | image status NOTEST / TESTREADY / TESTING, two images | `sl_extlib_FlcCommit`, `…FlcTest`, `ImageLoader` | resets between writes | a bad image is given up, a committed one is never lost | `OtaBoot`, `ImageUpdate` |
| Over-the-air update `simplelink_extlib/ota` | state machine, server and CDN connection | `sl_extLib_OtaRun` | retries, failing steps | a file is committed only when complete | in `OtaBoot` |
| Software timers `middleware/framework/timer`, `middleware/driver/hal/rtc_hal.c` | used and free list, marks on timers, one alarm of the clock | create, start, stop, delete; the interrupt | times are rounded on their way to the clock and back; callbacks change the list the interrupt walks | each timer expires once, in order, not early; none is forgotten | `CcTimer`, `TimerQueue` |
| Power management `middleware/framework/pm` | client list | notify, rollback | one client refuses after others agreed | clients are told symmetrically | planned |
| Peripheral drivers `middleware/driver` | ring buffers, DMA state | UART, SPI, DMA, HIB | task against interrupt | no byte lost or duplicated | planned, late |
| HTTP and WebSocket server `netapps/http` | per-connection parser | `HttpCore`, `WebSockHandler` | driven by readiness of many sockets | one response per request | planned, late |
| TFTP client `netapps/tftp/client/tftp.c` | block number, retries, the peer's port, one packet buffer for both directions | `sl_TftpRecv`, `sl_TftpSend`, `tftpReSync` | loss, duplication, delay, strangers, two sessions for one request | what arrives is the file, success means all of it, a transfer ends | `Tftp`, `FileCopy` |
| SMTP and XMPP clients `netapps/smtp`, `netapps/xmpp` | position in a dialogue | connect, send, close | – | – | no |
| `driverlib`, `inc`, `example`, `third_party`, `ti_rtos`, `tools` | | | | vendored, generated or demonstration code | no |

How they interact: an application task calls an interface function. A function
with an immediate response calls `_SlDrvCmdOp`, which takes the global lock,
writes a message and reads messages *in the task's own context* until the
response arrives; asynchronous messages it meets on the way are handled there. A
function with a late answer first takes a pool object, issues its command, and
waits on the object's semaphore. Data functions first take a credit. The
interrupt handler counts a message and either signals the waiting command or puts
an entry in the spawn queue, whose task reads the message otherwise. Handlers
deliver answers to pool objects, call the application, and may write messages of
their own (the HTTP token answer). The TFTP client is an ordinary user of sockets. The
timers have no part in this: they live between application tasks and the interrupt of
the real-time clock.

## 2. Modules

| module | what it is |
|---|---|
| `SlRpc` | abstract: the promise made to a task that issues a command |
| `SlDriver` | command and receive core, with the spawn queue, the interrupt and the NWP; refines `SlRpc` |
| `SlDriverProofs` | its theorems, with the proof that it refines `SlRpc` when no token is requested |
| `SlNonOs` | the core without an operating system: one stack of calls, and the interrupt |
| `SlNonOsProofs` | its theorems |
| `SlActions` | abstract: the discipline of concurrent actions |
| `SlActionsProofs` | its theorems |
| `SlObjPool` | the pool of concurrent actions; refines `SlActions` |
| `SlObjPoolProofs` | its theorems, the refinement included |
| `SlFlowCont` | flow control of the data path |
| `SlFlowContProofs` | its theorems |
| `ImageUpdate` | abstract: which image a device runs, tests and commits to |
| `OtaBoot` | boot loader, file commit library and update state machine; refines `ImageUpdate` |
| `OtaBootProofs` | its theorems, the refinement included |
| `FileCopy` | abstract: what a file transfer promises |
| `Tftp` | the TFTP client, a network that loses, doubles and delays, and a server; refines `FileCopy` |
| `TftpProofs` | its theorems, the refinement included |
| `TimerQueue` | abstract: what a timer promises to its client |
| `CcTimer` | the software timers on the real-time clock; refines `TimerQueue` |
| `CcTimerProofs` | its theorems, the refinement included |
| `MCSlDriver`, `MCSlNonOs`, `MCSlObjPool`, `MCSlFlowCont`, `MCOtaBoot`, `MCTftp`, `MCCcTimer` | constants and symmetry for TLC |

The first three detailed modules cut the driver along its locks. `SlDriver` is what
happens under (and just outside) the global lock; it establishes that messages
are read one at a time and that a command is answered. `SlObjPool` uses both
facts: a command is one step and one variable holds the message being handled.
`SlFlowCont` uses the first: one receive context, which owns the global lock.

### SlDriver

A step is what one context does between two accesses another context or the
interrupt can observe. `pc[t]` is the position of a task in `_SlDrvCmdOp` and
`_SlDrvMsgReadCmdCtx`, `spc` that of the spawn task in `_SlDrvMsgReadSpawnCtx`.

| actions | code |
|---|---|
| `CmdOpEnter` | the call; for a task in `RelayThreads`, `sl_FsClose` raises the relay flag first |
| `CmdOpLock`, `CmdOpParams`, `CmdOpWrite` | `_SlDrvCmdOp` up to and including `_SlDrvMsgWrite` |
| `CmdCtxLeave/Read/GoWait/Wake` | one turn of the loop of `_SlDrvMsgReadCmdCtx` |
| `CmdCtxDone` | `RxDoneCnt++`, after `_SlDrvMsgRead` has unmasked the interrupt |
| `CmdCtxResponse`, `CmdCtxClear`, `CmdCtxEvent` | the three classes of message; the response clears the flag and then the semaphore, two steps |
| `CmdCtxUnlock`, `CmdCtxReturn` | the unlock, and the check for pending messages after it |
| `SpawnReceive … SpawnUnlock` | one entry of the spawn queue |
| `RxIrqHandler` | the interrupt handler: mask, count, signal or spawn |
| `NwpExecute`, `NwpEvent` | external: the NWP executes requests in order and sends messages of its own |

`MsgRead`, `MsgWrite`, `HandleEvent` and `Spawn` are the shared helpers.
`HandleEvent` of a `TOKEN` is the HTTP server callback that calls `_SlDrvCmdSend`
in the context, and under the lock, of whoever read the request.

Left out: the search for the sync pattern and payload alignment (data), bus
errors (`NWP_IF_WRITE_CHECK` and its relatives return from the middle of a
function when the bus fails; the models assume it does not), the polling mode,
the content of events. `CntMod` stands for 256.

### SlNonOs

The same core compiled without an operating system. A wait is a loop around the main
loop, and the main loop calls entries, so what was a set of contexts is one stack of
calls. `stack` holds where each call is, the running one first; the application's call is
at the bottom. The control block and the two kinds of message are as in `SlDriver`, without
HTTP tokens and relay mode, which that module covers.

| actions | code |
|---|---|
| `AppMainLoop`, `AppCall` | the application between its calls, as the examples do it |
| `CmdOpLock`, `CmdOpWrite`, `CmdCtx…` | `_SlDrvCmdOp` and `_SlDrvMsgReadCmdCtx` |
| `AnswerWait`, `AnswerTaken` | the wait of a call with a late answer on its pool object |
| `WaitOn` (in `AppMainLoop`, `CmdCtxWait`, `AnswerWait`, `EntryLockWait`) | one turn of `_SlNonOsSemGet`: the value is not there, so the main loop is called |
| `CmdCtxClear`, `CmdCtxClearLoop` | `sl_SyncObjClear`, which is a wait with `NONOS_NO_WAIT` and may run the main loop under the lock |
| `SlotEmpty`, `SlotIdle`, `SlotRun`, `SlotFree` | one slot of `_SlNonOsMainLoopTask` |
| `EntryLock`, `EntryLockWait`, `EntryRead`, `EntryDone` | `_SlDrvMsgReadSpawnCtx` on top of whatever waits |
| `RxIrqHandler` | the interrupt, between any two of these |

`SL_POLLING_MODE_USED` would replace `EntryLockWait`; nothing in the repository defines it.
An entry's early return for "no pending message" is not an action, because it is never
taken: `ReadHasMessage`, checked and proved, says that the message the main loop saw
is still there when the entry has the lock.

### SlObjPool

A step is one critical section of `ProtectionLockObj`, or a wait on an object's
semaphore. Objects keep `ActionID`, `AdditionalData` (socket and IPv6 bit as two
fields), `NextIndex` and whose buffer `pRespArgs` is; the three list heads, the
bitmap (a set of keys) and `ActionIndex` are the code's.

| actions | code |
|---|---|
| `WaitForPoolObj` | `_SlDrvWaitForPoolObj` up to its first wait; guards: a free object |
| `PendWake`, `PendRetry` | its loop |
| `SetArgs` | the caller's section that sets `pRespArgs` (and the IPv6 bit, and for a ping resets the callback) |
| `SetFamily` | DNS by service sets the family of its object after the lock was released |
| `CmdAccepted`, `CmdRefused` | the command and its status |
| `AnswerWait` | the wait for the answer |
| `ReleasePoolObj` | `_SlDrvReleasePoolObj`, with both removals from lists |
| `MsgReadRecv` | the section of `_SlDrvMsgRead` that finds the object of received data, copies and signals; with no object it returns with the lock held |
| `MsgReadAsync`, `HandleAsync` | lookup, and the handler that uses `ActionIndex` after the lock was released |
| `HandleService`, `HandlePing` | the two handlers that differ: no lock, no signal for IPv6; a callback first, and no object needed |
| `PingStartCallback`, `PingCommand` | `sl_NetAppPingStart` with a callback, which takes no object |

`_SlActionLookupTable` has no entry for a receive, and the search reads one entry
past its end for it (`driver.c:1508`). What lies there is decided at build time;
the constant `OobOpcodes` holds the values it may have, and the run gives it the
opcode of an answer in use. `PingHabits` says how pings are used: the run has pings with
and without a callback, one at a time. With `"overlap"` (a ping starts while another
waits) or `"each"` (a ping that waits asks for a report of every echo)
`AnswerFindsItsCall` fails, as the hazards at `netapp.c:1028` and `netapp.c:968` say; with
an IPv6 name of a service (`Service(TRUE)`) `PendingIsServed` fails (`netapp.c:777`). These
are known defects of the code that the run leaves out.

### SlFlowCont

`pc[t]` is the position of a task in a data operation (both operations share the
steps they have in common), `rxpc` that of the receive context in the part of
`_SlDrvMsgRead` that copies flow-control fields. The two bitmaps are sets.
`CheckMode` keeps the shift that is not masked: `SocketNonBlocking >> sd` is tested as a
whole (`driver.c:404`), so `sl_Send` on a blocking socket returns `SL_EAGAIN` when a
socket of a higher number is non-blocking. That is a known defect too; no property is
stated about it. `GlobalLock … TakeCredit … Send`
follow the code's order: the global lock is taken while `TxLockObj` is held and
`TxLockObj` is released first. The deinitialisation is not an action: it runs
when no task is in the driver.

The assumption about the processor is on the *header contract*: the count in a
header lies between the host's own count and what is really free. The code copies
the value without a check, so a processor that announced more could not be noticed;
one that announced less would only slow the host. `NoOvercommit` and `CreditHeld`
are relative to this contract.

### OtaBoot

Three programs share the file `/sys/mcubootinfo.bin`: which of three slots is active,
and whether the image in the other one is NOTEST, TESTREADY or TESTING. The boot
loader, `FlcTest`, `FlcCommit` and the download each have their own rule for the
slot of "the other image"; the model keeps the rules apart (`TestSlot`, `CommitSlot`,
`McuImageGetNewIndex`). `image` and `bootInfo` are flash, everything else is RAM and
is lost in `Reset`, which may come before and after every step. The files have a
mirror (`_FS_FILE_OPEN_FLAG_COMMIT`), so a write takes effect at its close; a step
holds at most one close.

| actions | code |
|---|---|
| `BootRead`, `ImageLoader`, `LoadAndExecute` | the boot loader's `main`, with `CreateDefaultBootInfo`; `stuck` is its endless loop |
| `FlcIsPendingCommit`, `FlcCommit`, `FlcNotCommitted` | what an application does at its start, as `example/ota_update` does |
| `OtaConnectServer … OtaDownload` | one call of `sl_extLib_OtaRun` in each of its states |
| `FlcTest` | `sl_extLib_OtaSet` with `IMAGE_TEST` after the last download |
| `Reset` | external: wanted or not |

The network is external, so each step of the update may also fail and goes where the
code goes then. `sBootInfo` is the copy in RAM from which the slot of a download is
computed. `FailingWrites` names the writes of the boot information that may fail;
the code looks at the result of none of them. Left out: boot information that exists
and cannot be read (`_ReadBootInfo` keeps the old copy), an image that cannot be read
to its end, the reset of the network processor. What the connection to the server of the
files does is in "the step may also fail": a connection is kept between files
(`CdnClient.c:63`), and what is left on it of a file that failed makes the next file
fail at its headers.

### Tftp

The network keeps every packet that was ever sent: to lose a packet is never to deliver
it, to double it is to deliver it again, and order means nothing. A byte of the file is
its position, so a block is where it starts and how long it is, and a copy that is not
exact shows. `PacketBuffer` serves both directions; of its content only the opcode is read
again (`tftpReSync` chooses by it what to send), so that is what the model keeps.

| actions | code |
|---|---|
| `GetFile`, `SendFile` | the request, at the start of `tftpGetFile` and `tftpSendFile` |
| `ReadPacket`: `ReadData`, `ReadAck`, `ReadWrongBlock`, `ReadError` | `tftpReadPacket` and what the loops do with each packet |
| `DropPacket` | a packet of another host or port |
| `Timeout`, `ReSync` | `recvfrom` returned nothing; `tftpReSync`, with `tftpFlushPackets` |
| `SocketError` | `recvfrom` or `sendto` failed |
| `ServerOpen`, `ServerAck`, `ServerData`, `ServerError` | external: a server that opens a session on a new port for each copy of a request |

The server follows the protocol and never repeats itself; a repetition of its packets is
a duplicate of the network. `Strays` are packets of other hosts. Below 32 megabytes the
block number does not wrap, and the model assumes that (`TftpAssumption`): beyond it, a
duplicate that is 65536 blocks late would be taken, by this and any TFTP client.

### CcTimer

The lists are what the code has: two heads and one link per timer. Calls run with
interrupts masked, so a call is one step, but the clock moves on between its reading
and the setting of the alarm (`Sched`). The clock counts in cycles (1024 to the
second), the framework in milliseconds, and both conversions round down as the code does.

| actions | code |
|---|---|
| `cc_timer_create`, `cc_timer_start`, `cc_timer_stop`, `cc_timer_delete` | the calls, by tasks or callbacks |
| `Sched` | the end of `setup_timer_exec`: `sched_timer_if_new` |
| `Insert` (`InsertFirst`, `InsertBefore`), `Remove` | `insert_ordered_expiry`, `remove_elem` |
| `Tick` | external: the counter, and its interrupt at the match value |
| `cc_rtc_isr` | the interrupt up to `timer_isr` |
| `HandleExpired`, `CallbackReturns`, `ExpiryDone` | `process_timer_expiry`, one turn in two steps with the callback between them, and its end |

`Habits` says what clients do. In plain use a timer is started when it is not running and
its link is clear, and a periodic timer has the clock for itself, as in the
repository's examples. `"restart"` starts timers again whatever their link is, `"queued"`
starts or deletes a timer that waits in the list. `Prompt` lets the calls take no time.
The 32-bit hardware timer that could stand below the same interface (`hw_timer32.c`), and
setting the clock, are not modelled.

## 3. Properties and runs

### driver (267 thousand states, about 35 s)

Two tasks, both in relay mode; events that arise at any time; a spawn queue of **one**
entry (the code has three), so entries are dropped. Counters wrap at 3, the smallest range
for which the protocol is right. At most three requests and messages are in flight when a
new event arises (`MaxEvent`) and four when a call starts (`MaxCall`), enough for a
response, an event before it and an event after it, which is what the races need.

- `Handshake`: mask, counters, and the message being read determine each other
  although the interrupt returns between the unmask and `RxDoneCnt++`.
- `ReadHasMessage`: no context reads an empty bus.
- `AnnouncedHasReader`: while a message is announced, a queue entry, the spawn task
  or a command is bound to read it. This is what makes dropped entries harmless:
  the interrupt is masked until the message is read, so an entry is dropped only
  when another is in the queue, and any entry reads whatever is pending.
- `AnnouncedIsRead`: what the interrupt announced is eventually read.
- `NoResponseInSpawnCtx`: the code's own assertion never fires.
- `ImplementsRpc`: refinement of `SlRpc` with fairness. One command is in service
  at a time, a call returns only after the response to *its own* command, and
  every command that is taken up returns.

The run has no HTTP tokens. With them the first three still hold, as section 4 proves; the
others do not (`token`).

### token, relay: two disagreements of the core with what the code says of itself

- `token` violates `NoResponseInSpawnCtx`. `_SlDrvCmdSend` clears
  `IsCmdRespWaited` (`driver.c:276`). Called from the token handler inside the wait
  of another command, it ends that command's wait without its response; the
  response then arrives in the spawn context, whose assertion says that cannot be.
  The spawn task stops with the global lock held.
- `relay` violates `RelayForItsCommand`. `sl_FsClose` raises
  `RelayFlagsViaRxPayload` before it owns the global lock (`fs.c:186`); the command
  of another task consumes the flag.

Both use the model of the run `driver` with other constants (a `TOKEN` among the events,
one task of two in relay mode).

### nonos (16 thousand states, 3 s)

Two slots, so that the table fills up; at most two messages wait when another event
arises, enough for one before and one after the response; counters modulo 4; six nested
calls (`MaxDepth`): application, main loop, an entry that waits, the main loop again, a
second entry, and one more. The real bound is the C stack. A thread that has locked itself
out fills the stack and stops, so deadlock is not an error here.

- `AnnouncedHasReader`: while the interrupt is masked the announced message has a reader,
  although entries are dropped without a word when the slots are full, and a slot is cleared
  only after its entry's own read has let the interrupt in again. With two and with three
  slots it holds, and from two on it is proved; with **one** it does not, since then the only slot may be the one
  that is about to be cleared. The code has five.
- `NoResponseInMainLoop`: the assertion on a command response in the entry never fires.
- `CallsEnd`, `AnnouncedIsRead`: a call returns, and an announced message is read, unless
  the thread locks itself out (`SelfLocked`).
- `ReadHasMessage`: nobody reads an empty bus. A main loop that calls an entry without the
  look at the counters breaks it.

### nonos_lock

Violates `EntryGetsLock` with the code's five slots and 8-bit counters. An entry is left in
its slot because the command reads the event itself. While the command waits for its
response with the global lock held, the response is announced after `CmdSyncObj` was
looked at and before the main loop comes to the slot. The entry is then called for a
pending message and waits for the lock of the call it runs on top of.

### pool (387 thousand states, about 170 s)

Three interchangeable tasks, three objects, two sockets, three calls in all
(`MaxCalls`): receives on one socket, accepts on the other, IPv6 name requests, services
and pings on none. Three tasks are the smallest number with a third that comes between a
call-up and the task called up, and one task may make two calls, so objects are used
again. When all calls are made the system stops, so deadlock is not an error.

- `ListsPartition`: the three lists that share one link field partition the objects
  according to the calls that own them.
- `AnswerFindsItsCall`: an answer finds the object of its own call, whatever lies
  behind the table and whatever IPv6 requests come first in the list; the index
  is still that call's when it is used after the unlock; and a ping's report goes where
  it was asked for.
- `NoLostWakeup`, `ImplementsActions`: the pool implements `SlActions`.
- `PendingIsServed`: a parked call gets its turn and ends. The list is last in, first
  out, so an endless stream of calls would starve it; the property is for the bounded
  number of calls the run makes.

### pool_mixed

Violates `NoLostWakeup` with a connect that waits for a receive on the same socket:
any call on a socket makes another wait (`driver.c:1338`), but the release only
calls up a call of the same kind (`driver.c:1380`).

### flow (60 thousand states, about 26 s)

Two tasks on a socket that may become non-blocking, four buffers and a reserve of
one: room for a writer, a reader, and the reserve.

- `NoOvercommit`: the host never believes in more buffers than are free, the one it
  is about to fill counted, under the header contract.
- `CreditHeld`: the assertions on the credit behind the global lock hold, although
  the credit was looked at before the lock, and a reader does not look again.
- `DataMovesOn`: a task that waits for a buffer with `TxLockObj` held ends its
  operation, or some data moves.

### update (10 thousand states, 2 s)

Three images, three slots filled in any way that leaves one image to boot, updates of
one and two files with and without a request for a reset, and a failing write of
`FlcTest`. No bound: the state space is finite.

- `DownloadIsAlternate`: the slot that is written is not the one the boot loader falls
  back to, although it is computed from a copy in RAM.
- `NeverStuck`: the image the boot loader decides to load is there.
- `ImplementsUpdate`: refinement of `ImageUpdate`. The commitment changes only to the
  image that is running, a test is done once, and no download, failure or reset
  changes what the device is committed to.
- `ReturnsToCommitted`: an image under test that does not commit is given up.

The write of `FlcCommit` is assumed to succeed. With `"commit"` in `FailingWrites`
`DownloadIsAlternate` is violated, a known defect: the copy in RAM is changed first and the
result of the write is ignored (`flc.c:44-50`), so the next download goes to the slot that
the file still calls active.

### tftp (168 thousand states, about 20 s)

Both directions; two sessions of the server; files of nothing, of a block and a half and of
two blocks, buffers of these sizes and of one block, in every combination, so that a file
may fit, not fit, be cut within a block, or end with an empty block; what is sent is the
buffer, with and without a partial last block; four tries, of which the fourth ends the
call; a stranger that sends a block and an acknowledgement. Blocks of two bytes show
every split of a block. Nothing else is bounded.

- `CopyIsExact`: the caller's buffer, and what a session of the server has stored, is
  always the beginning of the file without a gap or a repetition.
- `NoBlockSkipped`: no acknowledgement is sent before its block was read, although
  `tftpReSync` counts the block down, sends, and counts up again.
- `ImplementsCopy`: refinement of `FileCopy`. Success is only reported when all of the file
  is at the other side. On a send that needs an argument: the code does not wait for the
  last acknowledgement, but what it sends last is an extra empty packet, so the
  data before it has been acknowledged. Success says nothing of the server's session: for a
  file of full blocks the empty packet is what closes it, and when that packet is lost the
  server waits for a block that will not come.
- `Ends`: a transfer ends, although every wrong packet may be answered by another.

### timers (99 thousand states, about 20 s)

Three interchangeable timers in plain use, from tasks and from callbacks, up to six
cycles of a clock with four to the second and three milliseconds in one: like 1024 and
1000, one does not divide the other, so both conversions lose something, and a second ends
inside the run. The clock may move during a call.

- `ListOrdered`: the list ends, is in the order of expiry, and holds only allocated timers.
- `ScheduledIsHead`: only the head is marked as having the alarm. A mark on another timer
  would leave it without an alarm when it becomes the head.
- `ImplementsQueue`: refinement of `TimerQueue`. A timer expires once, never before its
  time, and never before another that is due earlier.

With `"restart"` in `Habits` `ListOrdered` is violated, a known defect that the run leaves
out: a timer that left the list from its front is started again behind the others, and its
stale link closes the list into a cycle (`cc_timer.c:436`), in which the next walk, with
interrupts masked, never ends. With `"queued"` it is violated as well: a one-shot timer that
waits behind the head has no flag that says so (`cc_timer.c:623`).

### timers_lost

Violates `AlarmAfterInterrupt`, with a single timer and a clock that does
not move during calls. The alarm comes at a cycle that, read back in milliseconds,
is one short of the expiry. The interrupt finds that the timer is not due, and
does not set the alarm again because the head is still marked as having it. With 1024
cycles to the second this happens for every expiry whose milliseconds are not a multiple
of 125.

### Fairness

The schedulers' part only: a ready task runs, the interrupt is taken, the spawn task
takes its entries, the NWP executes what it is sent and answers what it accepted. No
task has to call anything and no event has to happen.

In `SlNonOs` there is one thread, and it runs (`WF_vars(Thread)`): whatever the running call
is, it takes its next step.

In `SlFlowCont` locks are mutexes of FreeRTOS, which serves waiting tasks in turn
(strong fairness on `TxLock`, `GlobalLock`, `RxLock`); the processor frees buffers and,
when messages are read again and again, one of them counts all that are free (strong
fairness of `RxCount(free)`). Without the last a reader's wait could rightly last for
ever, since it is only a message that carries the count. That messages keep coming is
external to the host, and is part of the assumption.

In `SlObjPool` one weak fairness covers all steps of calls and answers: some step is
taken while one can be, and since the calls are bounded that serves everybody.

In `OtaBoot` the boot loader runs, resets do not come at the same point of every boot
(strong fairness of its steps, which a reset disables), and the test of an image that
does not commit ends in a reset, by a watchdog or by hand: neither is in this
repository.

In `Tftp` only the client is scheduled: a `recvfrom` returns, with a packet or, because
the socket has a time limit (`SO_RCVTIMEO`), without one. Neither the network nor the
server has to do anything, but packets of strangers must not come for ever: the check
against them is compiled out (`tftp.c:292-299`), and each starts the time limit anew. `CcTimer` has no fairness and no liveness property: that
every timer expires is what `timers_lost` refutes.

## 4. Proofs

For every value of the constants under the named assumptions: `DriverAssumption`
(distinct task names, `CntMod > 2`, a spawn queue with at least one entry),
`FlowAssumption` (more buffers than the reserve), `UpdateAssumption` (offers are not
empty, absence is not an image), `TftpAssumption` (blocks are not empty, block numbers do
not wrap, strangers are not the server), `TimerAssumption` (finitely many timers; absence is
no timer and no time),
`NonOsAssumption` (at least one slot and one call), `PoolAssumption` (at least one object and
one kind of call).

**SlDriver.** `TypeCorrect`, `GlobalLock`, `InterruptHandshake`, `NoBlindRead`,
`WaitedByCommand`, `NoStrandedMessage`. The inductive invariant is

    TypeOK /\ MutualExclusion /\ Handshake /\ FlagHasCommand /\ AnnouncedHasReader

and is proved in layers. Mutual exclusion depends on nothing else. `Handshake` needs
it: only one context is between a read and its count, otherwise the counters could be
more than two apart. It also needs `CntMod > 2`, or two increments would look
like none. `ReadHasMessage` follows from it. `FlagHasCommand` ties
`IsCmdRespWaited` to a command inside the loop, so that the interrupt's signal always
has an addressee; `AnnouncedHasReader` needs it for the interrupt's step, and needs
`Handshake` to know that the last look at the counters sees the message.
The theorems cover tokens and relay mode: these properties survive both defects.

**SlRpc.** `OneResponseOwed`, `ResponsesStayHome` and the refinement
`DriverImplementsRpc`, under `NoTokens` (no `TOKEN` among the events), which the run `token`
shows to be needed. `RpcInv` says where the one response of a waiting command is: in the
request queue, among the messages to the host, or just read, and in exactly one of these;
and that with no command waiting there is neither request nor response. From it the
spawn context can only meet events, and what a command reads as a response is its own.

**SlNonOs.** `TypeCorrect`, `ResponseKept` (`NoResponseInMainLoop`), `NoBlindRead`
(`ReadHasMessage`) and `NoStrandedMessage` (`AnnouncedHasReader`), for any number of slots
and any depth of nested calls. The inductive invariant is

    TypeOK /\ LockInv /\ ResponseInv /\ ReaderInv

`LockInv` says that a command which holds the global lock has no entry inside the lock above
it, and that an entry inside the lock is the running call: it never waits there.
`ResponseInv` says where the response of a call is (owed by the processor, sent, or just read
by the command), that it is in one of these places only, and that the command is then in
its loop, where it holds the lock. So an entry that gets the lock reads events. The proof
rests on lemmas about the stack: a call that goes on, calls, or returns leaves the calls
below it as they are. That entries get the lock at all is not true (`nonos_lock`).

`ReaderInv` has the mask and the counters (`Handshake`, as in `SlDriver`), who may be
signalled (`FlagHasCommand`), how calls nest (`NestInv`), that an entry which has not read
yet was called for a message that is still announced (`CalledForMessage`), and that the slot
of an entry under way is taken (`SlotKept`). `NoBlindRead` follows from it. For
`NoStrandedMessage` the heart is `OneFree`: unless the thread has locked itself out, at most
one entry is under way, since an entry that waits for the lock below the running call
does so only on top of the command that holds it. So of two slots that are both taken one
holds an entry still to be called, and the entry that found no slot is not missed. The
theorem assumes two slots (`NONOS_MAX_SPAWN_ENTRIES > 1`); with one, TLC finds the
only entry cleared away.

**SlActions.** `ActionsType`, `OneAtATime` (calls that exclude each other never run
together) and `WakeupsReachTheirCalls`: `NoLostWakeup` holds under `OneKindPerKey`,
the assumption that calls which exclude each other are of one kind. This is precisely
what `pool_mixed` violates, so the run shows the assumption is needed.

**SlObjPool.** `PoolTypes`, `ListsArePartition`, `AnswersFindTheirCalls`, the refinement
`PoolImplementsActions`, and what follows from it and the theorems of `SlActions`:
`PoolExcludes` and `PoolLosesNoWakeup`; for any number of tasks, objects, sockets and calls,
and whatever lies behind the lookup table. The inductive invariant is

    PoolInv == TypeOK /\ Owners /\ Contents /\ Keys /\ Signals /\ Pings /\ Lists

`Owners` gives every call in progress an object of its own, `Contents` says what the object
knows of the call at each point, `Keys` that the bitmap has the keys of the running calls and
of nothing else, `Signals` that a semaphore is set only while its call waits and that an
answer which is still to come belongs to a call that waits for it, `Pings` who has the
callback. `Lists` says which calls' objects are on each of the three lists.

A list is a walk along links, defined by recursion (`Chain`), and induction over it is out
of the prover's reach. So `Lists` says that *there is* a sequence that starts at the head,
visits no object twice and follows the links (`Linked`); a step that pushes or removes an
object exhibits the new sequence, and the walk is that sequence because two walks that
differ would differ first somewhere (`ChainIs`, from the least-number principle). That is how
one link field, written by releases that remove from the middle of two lists, is shown
never to mix them. `First` (the first object of the active list that fits) is handled the
same way.

The theorems assume of the calls what the code's callers do (`CallKinds`): a receive is made
on a socket; only receives and DNS requests know an IPv6 bit; and a call of one kind is
always on a socket or never. And they assume plain pings (`PlainPings`), one at a time and
with one report: without that TLC refutes `AnswerFindsItsCall`, see section 2.
`PoolLosesNoWakeup` also needs `OneKindPerKey`, which `pool_mixed` shows.

**SlFlowCont.** `TypeCorrect`, `LocksNest`, `EveryMessageFits`, `CreditIsKept`. The
inductive invariant is `TypeOK /\ FlowInv` with

    FlowInv == LocksHeld /\ NoOvercommit /\ CreditHeld /\ SignalMeansCredit

`SignalMeansCredit` is the heart of it: a reader does not look at the credit after its
wait, so the signal alone must mean that there is some. It does because the reader
cleared the semaphore with `TxLockObj` held, and only a task with `TxLockObj` can
lower the count afterwards.

**OtaBoot.** `TypeCorrect`, `DownloadsGoElsewhere`, `AlwaysBoots` and the refinement
`UpdateRefines`, all under `WritesDone`: of the four writes only that of `FlcTest` may
fail. The assumption is needed: with a failing commit TLC refutes
`DownloadIsAlternate`, and if the mark or the rollback of the boot loader could fail, the refinement would not hold
either. The inductive invariant `UpdateInv` says that the RAM copy agrees with the file
while the application may download (`RamIsFile`), that what is loaded or runs is what
the status says (`StatusFits`), and that there is an image wherever one may be loaded
from (`ImagesExist`): the last ties `isMCUAppUpdate` to a complete image, which is why
a test never finds an empty slot. Each step of the three programs is then a step of
`ImageUpdate` or leaves its variables alone.

**Tftp.** `TypeCorrect`, `CopyExact`, `ServerNotAhead` and the refinement
`TransferIsCopy`. The inductive invariant of the first three is

    TypeOK /\ Fresh /\ TriesLeft /\ Reading /\ ReadNet /\ NoBlockSkipped
           /\ Writing /\ WriteNet /\ CopyIsExact

`Reading` and `Writing` say how much of the file the client has at block `NextBlock`;
`ReadNet` and `WriteNet` say of *every* packet in the network that it is the block of the
file its number says, and of every acknowledgement that its block was read or stored. The
network only grows, so that is what late and doubled packets come to. For the
refinement of a send, `CopyInv` adds that a session has stored as many blocks as it has
acknowledged, and that nothing but the request is sent before the first acknowledgement:
so the peer's session is the one that has the file when the call returns.

**CcTimer.** `OnlyHeadScheduled` holds for any clients, those that close the list
into a cycle included: the mark does not depend on the list being one. Its invariant is
the property with the types of the lists.

`TypeCorrect`, `ListStaysOrdered` and the refinement `TimersImplementQueue` hold for
`PlainUse` (`Habits` is empty), any number of timers, any times, and any ratio of
milliseconds and cycles. The assumption is needed: with either habit `ListOrdered` is violated,
see `timers`. The inductive invariant is

    TimersInv == TypeOK /\ FreeList /\ \E s : RunningList(s)

`RunningList(s)` says that the sequence `s` starts at `used_list`, has every running timer
once and in order of expiry, that each link leads to the next one and the last to none. As in
`SlObjPool` the walk `Node` is recursive and induction is out of reach, so the sequence is
a witness: a start inserts one timer into it and the others keep their places; a stop or an
expiry takes one out; and the walk is that sequence by the least-number principle
(`WalkIs`). A timer that is put at the end keeps its own link, and this is where plain use
comes in: that link must be clear already. A stopped or expired timer may
lead to another one, and the invariant must allow that.

`FreeList` shares the links. Here no sequence is needed: every free timer is linked to free
timers only, no two to the same one and none to the head. So the head can leave the free list,
or a timer can join it, without a link of a running timer into it. A periodic timer is alone
(`Alone`), on the list or off it while its client is called; otherwise it would be
put back among timers with its old link.

The bound in `TypeOK` (no timer is set further ahead than a time that some client asked for)
is kept because the clock, read in rounded milliseconds, never goes back (`ClockAdvances`,
from lemmas on division). Each step is then a step of `TimerQueue` or leaves its
variables alone: what is first in an ordered list is what is due first.

**Model-checked only.** Liveness (`AnnouncedIsRead`, `CallsEnd`, `PendingIsServed`, `DataMovesOn`,
`ReturnsToCommitted`, `Ends`, and the fairness part of `ImplementsRpc`), which the prover
cannot handle. Every other property of a passing run has a theorem. Of the violated ones,
`NoResponseInSpawnCtx` and `NoLostWakeup` have a theorem under the assumption whose lack the
run shows.

## 5. Plan

Done: the core and its refinement of `SlRpc`, the pool with DNS and ping, the flow control,
the update across resets, the TFTP client, the software timers, and the driver without an
operating system. Each safety
property and each refinement that a passing run checks is proved. Next, in order:

1. `CcPm`: notification of clients and rollback when one refuses.
2. Start and stop (`device.c`), with the life of the control block. The index
   taken from the last message (`device.c:141`) and the callback that is never cleared
   (`device.c:161`) matter only when messages come before the start is complete.
3. `hw_timer32.c` below `CcTimer`: the rollover of a 32-bit counter.
4. HTTP and WebSocket, peripheral drivers.

Further hazards seen and not on the list of `PROJECT.json`: `VERIFY_RET_OK` leaves a pool
object behind when a command fails (`socket.c:519`); an accept that is answered with the
IPv6 opcode never matches (`driver.c:588`); `sl_Send` raises the relay flag and may then
return early (`socket.c:594`); an alarm that has passed when it is set is refused, and the
timers are told that it was set (`rtc_hal.c:132`), which loses the timer as `timers_lost` does;
a command waits for its response without a time limit (`driver.c:1031`); a client that leaves
the power manager is never uncounted (`cc_pm.c`).

A new component needs a run of its own; the runs are kept few, so that checking all of
them, with a defective variant of the code for each property, stays a matter of minutes.

## 6. Not modelled

The map covers under one percent of the lines of the repository, because most of
the repository is not its program: configuration that TI-RTOS generates (four files of
twenty thousand lines alone), register headers, `driverlib`, FreeRTOS and FatFs, and
more than fifty example applications. Of the code that is its own and has state over time, what
is not modelled is in the plan above.

Not planned: register-level code (`cc_pal.c`, `driverlib`), the TI-RTOS layer (the
same interface as FreeRTOS), SMTP and XMPP (straight-line dialogues), and vendored or
demonstration code.

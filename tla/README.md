# A formal model of qdl

`qdl` talks to Qualcomm devices in emergency-download (EDL) or crash mode.  It
uploads a *programmer* with the **Sahara** protocol, then drives the programmer
with **Firehose**, XML commands answered by XML messages with raw data in
between, to flash, erase, patch, read and provision storage.  With **VIP**
(validated image programming) every packet of a run must match a table of SHA-256
digests that an earlier dry run of the same command generated.

Everything here is read from the code under `src/` of the repository (paths
below, as in the comments of the modules, are from its root: `src/vip.c`), with
its tests and docs.  What is not in the repository, the programmer on the device
above all, is modelled from how the code uses it and is marked *external* in
`PROJECT.json`.

## 1. The system

### Components

| component | code | state it keeps | operations | module |
|---|---|---|---|---|
| command line, run set-up | `qdl.c`, `cli.c`, `input_type.c` | the list of operations, the `qdl_device` | `qdl_flash()`: read verbs, files and builds, complete the list (configure in front, setbootable and reset behind), `sahara_run()`, `firehose_run()` | `OpList` |
| image descriptions | `program.c`, `sparse.c`, `patch.c`, `read.c` | the list under construction | load tags, expand sparse images | `Images` |
| builds | `contents.c`, `flashmap.c`, `json.c` | none | select files by storage, flavor and layout; find images and the programmer | `Builds` |
| Firehose executor | `firehose.c` | `max_payload_size`, `sector_size`, VIP state, skip-block mode, the operation in progress | detect and configure, program, erase, read, patch, digest, setbootable, power | `Firehose`, `Gpt` |
| GPT | `gpt.c` | the partitions read so far | read tables, resolve operations that name a partition | `Gpt` |
| UFS provisioning | `ufs.c`, `firehose.c` | descriptors of the XML file | read and check the file; a validation pass, then the pass that commits | `Ufs` |
| nbd plugin | `nbdkit-qdl-plugin.c`, `firehose.c` | one device, set up once | `firehose_open()`, `pread`, `pwrite`, storage size | `RawIo` |
| VIP generator | `vip.c` | running hash, `DIGEST_TABLE.bin` | record digests; at the end cut the list into a signed and chained tables and chain them | `VipTables` |
| VIP transfer | `vip.c` | `state`, `chained_cur`, `frames_sent`, `frames_left`, `fh_parse_status` | before each packet send the table that is due, count the packet | `Vip` |
| simulated device | `sim.c` | queue of canned answers, digests loaded, next digest | answer commands, check tables and packets | `Vip` (the checker) |
| Sahara | `sahara.c` | none but the position in the protocol | answer HELLO, READ_DATA, END_OF_IMAGE, DONE_RESP; dump memory regions | `Sahara` |
| Sahara commands | `sahara.c` | resets sent, what has been read | `sahara_device_reset()`, `sahara_chipinfo()` | `SaharaCommands` |
| transports | `io.c`, `usb.c`, `qud.c` | push-back buffer, endpoint sizes, `expect_zlp` | read, write, push back; timeouts, zero-length packets | `Transport` |
| finding a device | `usb.c`, `qud.c`, `auto.c` | handles, libusb sessions, the backend chosen | enumerate, match, claim, list, close | `Opening` |
| programmer images | `programmer.c`, `sahara_config.c` | none | decode archives and configurations | - |
| files and archives | `file*.c`, `zipper.c` | read position | read from disk or zip; create archives | - |
| helpers | `util.c`, `ux.c`, `sha2.c`, `oscompat.c`, `pathbuf.c`, `list.h` | progress line | formatting, hashing | - |

### How they interact

One host thread calls down: `qdl_flash()` -> Sahara -> Firehose -> VIP -> transport.
There are no threads and no callbacks with state of their own; the concurrency is
between the host and the device, which talk through two queues, and between several
qdl processes that look for their devices on one bus.  Each side acts on what it
believes the other has done: the host counts packets to know when the device needs a
table; it takes the next response to be the answer to its last command; it takes
100 ms of silence to mean that a message exchange is over; it takes a device that left
the bus to have been reset.

### What is hard, and what correctness means

* **VIP**: the split of the digests, the padding byte and the chain at every
  boundary; host and device must agree *which packet is next* without ever talking
  about it; failures in the middle leave counted packets unsent.  Correct: no
  packet of the run the tables were made from is ever rejected, tables arrive
  exactly when they are needed, a table set that is truncated is noticed.
* **Firehose**: responses carry no identification, so that a late one is taken for
  the answer to the next command; logs surround responses; raw mode suspends the
  XML protocol; configure is sent speculatively to a programmer that may still be
  starting; VIP adds a table that can be sent only once.  Correct: answers belong
  to their commands, operations take effect in order, a run that failed anywhere
  does not report success, and every run ends.
* **Sahara**: the first HELLO may be lost to the driver; the device decides what is
  transferred; an acknowledged reset is not a reset.  Correct: success means that
  the device has its images or is already running a programmer, that it was reset, or
  that what is shown is what it answered.
* **Lists and names**: what a command line asks for, in its order, on the storage and
  the flavor selected; nothing is touched before all names are known to be good, and a
  named operation touches the partition of that name.
* **UFS provisioning** cannot be undone: only what is in the file, and what the device
  has found good, is applied; success means that it was.
* **Block access**: what is read is what is on the device, what is reported as written
  is on it, whatever the requests before it met.
* **Transports**: a byte stream must not lose or duplicate bytes when a read is cut
  by push-back, short packets or zero-length packets; a process gets its device, one
  the user asked for, for itself, and leaves nothing behind.

`PROJECT.json` lists the hazards at their lines, each with the properties that
would catch it.

## 2. The modules

| module | what it is |
|---|---|
| `VipTables` | the generator: `vip_gen_*`, `create_chained_tables()` |
| `Vip` | extends it with the transfer (`vip_transfer_*`, as `firehose_write()` and `firehose_stream_out()` call it) and the device's digest checker (`sim.c`) |
| `VipInv`, `VipProof` | the inductive invariant of `Vip` and the TLAPS proofs |
| `FlashRun` | abstract: what `firehose_run()` promises |
| `Firehose` | the executor, the message channel and the programmer |
| `Sahara` | `sahara_run()`: upload, detection of a running programmer, ramdump; with the device |
| `SaharaCommands` | sequences of `qdl reset` and `qdl chipinfo`, with the device |
| `Images` | operators: the operations that a file of tags stands for |
| `Builds` | operators, extending it: what a selection makes of a contents.xml or a flashmap |
| `OpList` | extends it with the command line: arguments, completion of the list |
| `Gpt` | extends it with the execution of the list: probing, tables, names, storages |
| `Ufs` | the description and the two passes, with the device |
| `RawIo` | the nbd plugin on the block access functions, with the device |
| `ByteStream` | abstract: what `qdl_read()` promises |
| `Transport` | `qdl_read()`, `qdl_write()` and push-back over libusb and QUD |
| `Opening` | the libusb pass, COM ports, the automatic backend, `qdl list`, closing; several processes |
| `FirehoseProof`, `SaharaProof`, `SaharaCommandsProof`, `GptProof`, `UfsProof`, `RawIoProof`, `TransportProof` | the inductive invariants of these modules and the proofs; those about `Opening` are in `TransportProof` |
| `MC...` | their instances for TLC |

`Firehose`, `Ufs` and `RawIo` model the exchanges of different parts of `firehose.c`
with the same kind of channel; `Gpt` takes an exchange for one step.  Where a
module takes the outcome of another one as given, its comment says so.

### VipTables and Vip

Packet *k* of a run is the number *k*, and so is its digest; the hash of a file is
its content (SHA-256 is taken to be collision free).  A table file is a record: it
holds digests `first .. first+count-1`, then a padding byte (`pad`) or a chain
hash (`chain`).  Files of an older generation are present and `fresh = FALSE`.
`StorePacket` is `vip_gen_chunk_store()`, `WriteToSign`, `WriteChained` and
`LinkTable` are the three steps of `create_chained_tables()`, one action per loop
iteration, and `TableError` is a failure in any of them.

The flashing run then sends the same packets.  For each, `hpc` goes through
`tables` (`vip_transfer_handle_tables()`: `NoTableDue`, `SendSigned`,
`SendChained`), `status` (the answer to a table, `TableAccepted`) and `write`
(`WritePacket`).  The device side of these actions is what `sim_write()` does with
the bytes: `RecvSigned`, `RecvChained`, `CheckChunk`.  `errors` collects what the
simulated device would complain about.  `MissingTable`, `TableWriteFails` and
`StatusOrWriteFails` are the failures; `GiveUp` is what the executor makes of them,
including the one result it ignores (`firehose_set_bootable()`).

### Firehose and FlashRun

`ops` is the list `firehose_execute_ops()` walks.  Each operation is a few
*exchanges* (`step`): `hpc` goes `write`, `read`, `after`, and for program and read
`stream` or `recv`, `final` and `done` as well; `drain` is the read inside
`firehose_write()`.  `ReadMessage`, `ReadTimesOut` and `ReadFails` are the loop of
`firehose_read()`; the `After...`, `...Setup` and `...Done` actions are what each
operation does with what it returned.  With VIP, `Verify` compares each packet with the
next one of the dry run: `dnext` is a position in its packets, `PacketAt` the packet there
and `After` the position behind it.  Commands and messages carry the exchange
they belong to (`re`), which the real ones do not: the host never looks at it, only
the properties do.  A digest is `same` or `diff` as it compares with the local one.

The programmer (`DevStart`, `DevCommand`, `DevData`, `DevGone`) takes commands in
order; it emits up to `MaxLogs` logs on either side of a response, may refuse
`MaxFail` commands, supports a payload size of its own, may insist on VIP, and may
drop off the bus.

Time is abstract: `StopsWaiting` lets a read end when nothing more is coming, and,
at most `run.late` times, although an answer or data still are (`Awaits`).  Logs may
always come after a read that waited for nothing else.  A member of `Runs` gives the list,
the modes, the programmer's payload and the bounds of one run; what those of a kind
show is one run of TLC.

Patches for a file (`filename` other than `DISK`) and programs without a file do
nothing in `firehose_execute_ops()` (`PassBy` of `Gpt`) and are left out of the
lists here, as are programs of an empty file (`RunOK`).

`FlashRun` is the abstract specification: a list of effect sets, taking effect in
order.  `Firehose!ImplementsFlashRun` maps the operation index, the contents of
the flash and the return value to it.

### Sahara and SaharaCommands

`Sahara` is the loop of `sahara_run()` with one action per packet it may read
(`HandleHello`, `HandleRead`, `HandleEndOfImage`, `HandleDoneResp`,
`HandleResetResp`, `HandleDebug`, `HandleXml`; `HandleEmpty` is the length check
failing on left-over data) and one per way a read ends without a packet
(`RunTimesOut`, `RunFails`).  `result` tells `ok` from `assumed`, which both are a
return value of 0: no Sahara was found and a programmer is taken to be running.  A
handler reads one packet and writes at most one, so a handler is one step;
`sahara_debug64()` reads and writes many times, so the dump is one step per call:
`ReadTable`, `RequestBlock`, `ReadPiece`, `Settle` (the 10 ms read behind a block).

Lengths are counted in blocks.  A block of memory comes in two reads; `dumped` counts
the reads written to each file.  The range check of `sahara_read()` compares with the
length of the image; the packet length checks of the handlers are left out, since
the device sends well-formed packets, except where left-over data is read as one.
A filter of the ramdump only removes regions from the table and is not modelled.

The device starts in EDL, crashed, with a programmer running, or dead.  In EDL it asks
for the images of a request, may reject one, and may report PENDING
behind the last one (`coy`).  Over `qud` the driver may eat its HELLO.  It may hang
or drop off the bus (`MaxGone`).

`SaharaCommands` runs the two subcommands one after the other on a device that keeps
its state and what it has sent, so that what a command leaves behind meets the next
one.  Its steps are the reads that may block (`hpc`): the wait for a HELLO or the
answer to a prod, the acknowledgment of a reset, its verification, the answers of the
command mode, where `item` walks the client commands.  A device has a version, may
lack the command mode, may take a reset only where it is valid (`strict`), and may
acknowledge one without going through with it (`tears`).

### Images, Builds, OpList and Gpt

A file is a sequence of parsed tags; `LoadFile` gives the operations of it, or a
refusal.  `LoadChunk` is a chunk of `program_load_sparse()`, and `ChunkStart` the place
that the chunks before it leave for it.  In `Builds` a contents.xml is a sequence of entries (files with the
storage and the flavor they are for, images, programmers), a flashmap a sequence of
layouts; `Selectors`, `Included`, `ResolveImage` and `Filtered` are the choices made
among them.  These modules are operators: loading changes no state but the list.

`OpList` has the argument loop of `qdl_flash()` (`Argument`), which keeps files and
verbs apart (`saw`), `Provision` for a run with a provisioning file, and `Complete`,
which puts the configure in front, finds the bootable partition (`NoBootable`: there is
none to set if the first boot loader's physical partition is not known yet) and appends the
reset.  `Gpt` executes that list on `disk`: `Configure`, `Probe` (the sector size),
`LoadHeader` and `LoadEntries` (`gpt_load_table_from_partition()`), `Lookup`
(`gpt_find_by_name()` for each deferred operation), `PassBy`, `Execute` and `Reset`.
The first partition of a name fixes the physical partition of the operation, so that only
those on it are compared (`Candidates`).  The partitions loaded are a set; the order of the
code's list is that of `lun` and `entry`.
A read fails where the code would see it fail, and `MaxBad` times for no reason.
`accesses` is the history of what was done where.

### Ufs and RawIo

`Ufs` reads files of elements (`LoadTag`, one action for each element or mistake),
then walks the exchanges of `firehose_provision()`: the configure command, repeated
each time it is not answered, so that answers may lag behind by whole commands; the
description for validation; the description for good, after which the device may
answer, leave the bus, or wait to be reset.  The device keeps the description it has
been given (`received`), those it has found good (`validated`) and the one it has
applied.

`InStep` says that no more answers are late than there are exchanges in the first pass:
only then can the answers of one pass be taken for those of the next.

`RawIo` has connections, which set the device up once and keep it, reads and writes in
any order (of at least one sector: nbdkit lets no empty request through), and the
unloading of the plugin.  Data are messages among the XML messages:
whether a message is taken for data depends on what the reader expects.  `late` are
silences of over 100 ms in the middle of an answer, `timeouts` answers beyond the time
the code allows for; after either, what is left is read by the next request.  `InTime` is
the hypothesis of the properties: no timeout and at most one silence.

### Transport and ByteStream

Bytes are numbered.  Over libusb the wire holds packets, and a transfer ends with a
short one, with a full buffer, or with the timeout (`cut`); a packet that does not fit
into what is left of the buffer fails the read (an overflow, in libusb).  Over QUD it
holds bytes, in one run.
`hpc` is the call in progress: `Open`, `UsbPacket`, `UsbTimeout`, `QudRead`,
`QudTimeout`, `Give` (what the caller gets, and what an XML reader pushes back), and
`UsbWrite`, `UsbWriteEnd`, `QudWrite`.  `Swallows` and `NeedsZlp` are the two decisions
about zero-length packets.  `race` is a read that completes while it is cancelled
(`qud.c:450`); its bytes are lost, and `ReadsStream` maps them to `Lose` of
`ByteStream`: what is delivered is in order and complete but for these.

### Opening

Processes (`Hosts`), each with a backend and a serial number, a COM port or neither,
look for devices at `Ports`.  A pass over the bus is one action per call that another
process or the user may run between: enumerate, open and read strings (with the
retries of `USB_STRING_ATTEMPTS`), match, claim, give up, the next backend, the sleep
between passes.  What a pass finds is a set: which port is looked at next is left open
where the system leaves it open.  `World` exchanges, plugs in and unplugs devices.  A reference to a
device is a port and how many devices have been behind it, so that an exchange is
noticed by the properties, and by the code only where the system tells it.

## 3. The runs

| run | instance | shows |
|---|---|---|
| `vip` | signed table of 2 digests, chained of 2, 2 of them, up to 7 packets, up to 3 stale tables | every session verifies; the inductive invariant holds; sessions end |
| `vip_capacity` | the same | *finding*: a complete set of tables does not serve its session when it has more than `MAX_CHAINED_FILES` chained tables |
| `firehose` | lists with all kinds of operations, programmer payload 1..3 against the host's 2, one refusal, one disconnect, prompt answers; two storages with and without tables, programmers that insist on VIP or not, sessions with a late answer and with an operation whose outcome is ignored; chunks that are on the flash already, with and without a late answer | answers match, no desynchronisation, the signed table goes first and only to a programmer that asked for it, and the packets behind it are those of the dry run, matching chunks are kept and the rest is written, success means that everything is on the device, runs end, `FlashRun` is implemented |
| `sahara` | two images, or one, provided; devices that want one, both, or one that is not there; dumps of two regions of 2 and 1 blocks; USB and QUD; one late packet, one rejected image or unwritable file, one device that hangs or goes | Firehose is entered only with a programmer running; nothing is sent to a device that does not wait for it; uploads succeed, PENDING or not, HELLO or not; dumps are complete or stop at the failure; the run returns, except that over QUD a device that is silent from the start is prodded for ever |
| `commands` | one or two commands on every kind of device, USB and QUD, two late packets, one bad answer, one device that hangs or goes | a reset that returns 0 has happened, the power command goes to programmers only, what is shown is what was answered, undisturbed commands succeed |
| `gpt` | command lines of verbs, files and builds on UFS disks of one to three physical partitions and NAND, two failures | the list holds what was asked for, names are resolved before anything is touched, and to the right place; a list without mistakes is executed |
| `oplist_reset` | the same | *finding*: the reset comes before the command that makes a partition bootable |
| `ufs` | files that are good, refused by the device or by the tool, two files; six late answers, two passing refusals, an unplugged device | what is applied is the file and has been found good; success means applied; a good file is applied |
| `rawio` | four requests on three sectors with a payload of two, two refusals, two silences, one timeout, an unplugged device | reads deliver the device's data, accepted writes reach it, requests leave no response behind |
| `rawio_nak` | three requests, one refusal | *finding*: a refused write is reported as done |
| `transport` | packets of 2 bytes, messages of 1, 2 and 4, writes of up to 6, chunks of 2, 3 and 4; two cut transfers and one cancelled read | `ByteStream` is implemented; no empty read is due to the end of a message; writes are framed |
| `opening` | two processes, two ports, a spare device, two transient failures, one of libusb, two exchanges | a process gets a device it wants and for itself, leaves nothing behind, and gets it in the end |

**Bounds.**  `SignedMax = ChainedMax = 2`, `MaxChained = 2` and `MaxPackets = 7`
put a session on, just below and just above every boundary: empty, a signed table
that is not full, exactly full, one chained table partly and exactly full, two,
and one packet too many; `MaxStale = 3` is one more stale table than any of these
sessions needs.  The theorems remove these bounds.  In `Firehose`, three sectors
with a payload of 2 and chunks of 2 give a whole and a partial packet and chunk;
one log on each side of a response is enough for "something is left to read"; one
refusal and one disconnect each reach every operation; the number of tries only has
to let a retry happen.  One late answer is the
fewest that hides a failure (section 5).  In `Sahara`, images of one and
two blocks and regions of one and two blocks have a first, a middle and a last
request each; one rejected image or unwritable file, one device that hangs or goes,
and one late packet meet every state of the protocol.  In `SaharaCommands` two late
packets are needed for a late answer to meet the next command and its retry.  In
`Gpt` two GPT entries per sector and tables of up to three entries need a second
sector, three physical partitions have one in the middle without a table, and the
tables have the same name twice on one and on two of them, a partition too large, and
unused entries; boot loaders are written to a physical partition, to a name, and to both in
either order; a build has two flavors for one storage and none for the other.  In
`Ufs` six late answers let the two configure commands and every command of the first
pass of a description with two bodies lag into the second, which is the fewest that
commit a refused description (`InStep`).  In `RawIo` four requests are one that goes wrong, two that
read what it left and one that finds the channel clean; two silences are the fewest that put
a response into the place of that of a later command (`InTime`).  In `Transport` buffers, messages and
writes are at, below and above a packet, a chunk size is not a multiple of it, and neither
is the buffer of XML messages (5; it is 4095 bytes in `firehose.c:314`), so that a packet
may not fit.
In `Opening` two processes and two ports have the wrong device before the right one,
the right one in use, and an exchange between match and claim.

**Faults and properties.**  Many properties say for which faults they hold
(`late = 0`, `gone = 0`, `bad = 0`, `timeouts = 0`).  The fault is in the run all the
same, and other properties hold with it; where the condition is needed the model shows
why, and section 5 says so.  These conditions are about faults and never about what the host did.

**Fairness.**  The tool is one thread that never blocks for good: each library
call it makes returns, with a timeout if need be, hence weak fairness of the host's
actions taken together.  In `Firehose`, `Sahara`, `SaharaCommands`, `Ufs` and `RawIo` a
device that is still on the bus does its work; nothing forces it to refuse, to be late or to
leave.  In `Vip` the dry run need not end (`StorePacket` is not fair), and a write
that failed leaves no obligation; the device has no step of its own there.  In
`Transport` and `Opening` calls return and passes are made, and no fault is ever forced
(`UNCHANGED` of the fault counters inside `WF`); a process that has a device may keep
it for ever.  `Gpt` states none and has no liveness property: its loops are over
sequences, and `GoodListsRun` is about how they end.

**Deadlock.**  `Done` and `Finished` are the only stuttering steps: a state from which
nothing else is possible is reported as a deadlock.  `MCTransport.cfg` and
`MCOpening.cfg` say `CHECK_DEADLOCK FALSE`: a session of transfers may stop when its
messages and writes are used up, a process when it has failed or closed its device.

## 4. The proofs

The theorems hold for **every** value of the constants that satisfies the assumption of
the module: any number of processes and ports, any list of commands, any file, any
length of messages and writes, and any number of faults of each kind.  TLC has checked
each inductive invariant on the instance of the module's run (with the types made
finite) before it was proved.  Every proof has a lemma for each action, and in it a step
for each conjunct that the action can disturb; the last step of a theorem combines
`Init => Inv`, `Inv /\ [Next]_vars => Inv'` and `Inv => P`.

### VipProof

Assumption `SizesAssumption`: the sizes are natural numbers, the tables hold at least one
digest.

| theorem | statement |
|---|---|
| `Invariance` | `Spec => []IInv` |
| `TypeCorrect` | `Spec => []TypeOK` |
| `NoFalseRejectionHolds` | the device never rejects a packet or table of a complete session |
| `DigestReadyHolds` | before each packet the device's next digest is that packet's |
| `DigestsConsumedHolds` | a finished session used exactly its own digests |
| `MissingOnlyBeyondCapacityHolds` | tables run out only after `SignedMax + MaxChained * ChainedMax` packets |
| `TablesOnDemandHolds` | no step loads a table while digests are unused |
| `TruncationIsDetected` | a session over tables that lost digests ends with an error |

None of these properties is inductive.  `IInv` adds three parts.  `GenInv` says what
the files look like half-way: table *i* begins at digest `First(i)`, the tables not
yet linked hold the bare payload, those from `link` on also hold the content of
their successor; with `NumFits`, the number of tables is just enough.  `SyncInv`
ties the two counts together: with `chained_cur` tables sent, the device holds the
digests `0 .. Covered(chained_cur)-1`; the packet number is the start of the current
table (`Start`) plus the packets counted on it; and as long as packets remain
beyond `Covered`, the pending chain hash is the content of the table that is sent
next.  A table is due exactly when the count reaches the table's size, which is
when the device's digests run out, and then the file that is sent is the one
announced, fresh, and starts with the packet about to go out.  The arithmetic of the
split (`ChainedNum`, `First`) is in lemmas of its own.  `ShortInv` is about the other
sessions, those over tables with fewer digests than packets, as long as they have met no
error: every table the device took was the one announced, stale files included, so it has the
digests of the tables sent and no more, and the packet behind the last of them finds none.

### FirehoseProof

Assumption `PayloadAssumption`: payload and chunk sizes are positive; of every list (`RunOK`),
that it begins with a configure, as `qdl_ensure_configured()` arranges (`qdl.c:432`), that an
erase and a patch have one effect, and that a program and a read have sectors.

| theorem | statement |
|---|---|
| `TypeCorrect` | `Spec => []TypeOK` |
| `Invariance` | `Spec => []Inv` |
| `ResponsesMatch` | with prompt answers a response that is acted on is that of the exchange in progress |
| `NeverDesync` | with prompt answers no command is taken for data and no data for a command |
| `FlashRunImplemented` | with prompt answers a run implements `FlashRun` |
| `SuccessIsComplete` | with prompt answers a run that reports success has left everything on the device |
| `SessionMatches` | a VIP session is the one that was prepared (`SessionAsPrepared`) |

"Prompt" is `late = 0`: no read has given up on an answer or data that were still to come;
logs may be late.  That holds until the first time that one does, so `ResponsesMatch`,
`NeverDesync` and `SuccessIsComplete` cover every run up to that point, and the refinement those that allow none (`run.late = 0`).  Any number
of logs and refusals, and a programmer that drops off the bus at any point, are included.

Messages do not say what they answer, so everything rests on what can be under way.
`StepInv` is about the host alone: which exchanges belong to which operation, and in which
states of it.  `Flow` gives, for each state of the host, the contents of both directions:
nothing but logs (`Idle`); a command that has been sent, or what the programmer has made of
it (`Waiting`: `Answered`, `Ready` for data, or the data `Announced`); data that the
programmer still expects, counted over its window and what is in flight (`Taking`); data
that the host still reads, with one response behind them (`Receiving`); and that last
response, there or already read (`Settled`).  Each has a lemma for what reading a message,
and for what the programmer's next message, makes of it.  `Replies` and `Response` say what a
response means: it is of the exchange in progress, and an ACK of a program, erase or patch
says that the region is on the device (`Covered`), of a configure that the sizes agree
(`Agreed`).  `SizeInv` has the two sides agree on the size of a packet, without which data
would be left over; `DigestInv` is the same for the digest by which a region is skipped, and
`Before` is about the regions of a program that the host has left behind.  The refinement
then has one case that is not a stutter, the end of an operation (`Advances`), and
`Finished`, that what is behind it is on the device, is kept by the same cases.

`SessionMatches` needs no promptness but for the last packets of a programmer that has gone.
`SessionInv` has the states of a session by that of the transfer: the table has not been sent
(`Prepared`); is not sent, since nobody asked for it (`Without`); has been sent with nothing
behind it, and an ACK on its way or read says that it was taken (`Offered`); or has been
accepted (`Underway`).  Then the packets on their way are the next ones of the tables
(`InOrder`), and the place of the tables behind them (`Ahead`) is the one at which the host
is (`HostPlace`), a function of its operation, its state and the sectors still to be
streamed.  Most steps of the host leave that place alone (`Settles`); a packet that is sent
moves both (`OrderGrows`), one that is compared neither (`Compared`).  When the programmer
goes, what was on its way is lost: either there was nothing, or the host waits for an answer
that does not come and gets no further (`Stuck`), except by a setbootablestoragedrive.  `Proposals`
says that no second configure is sent where the two agree on the payload of the dry run.

### SaharaProof

Assumption `SaharaAssumption`: images and regions have a length, and of the devices
(`RequestsOK`), that one asks for something, and for the programmer once.  The latter is what
the code relies on: `sahara_has_done_pending_quirk()` (`sahara.c:926`) takes the first PENDING
of a session with a single image for its end.  TLC shows that `UploadSucceeds` is false of a
device that asks for that image twice.

| theorem | statement |
|---|---|
| `TypeCorrect` | `Spec => []TypeOK` |
| `Invariance` | `Spec => []Inv` |
| `NothingIsStray` | while nothing is late, the device is sent nothing it is not waiting for |
| `UploadsSucceed` | an undisturbed upload of images that are all given succeeds |
| `DumpsAreSound` | a dump that is a success has reset the device and has no gap; an undisturbed one is complete |
| `HandsOver` | sahara_run() hands over only to a running programmer |

`Basic` holds whatever happens.  In it, `LinkInv` says that packets tell the truth however
late they are: a DONE_RESP that says complete, or the error message of a programmer, means
that one is running, and a PENDING to a host with only the programmer to give that nothing
else can be asked for of it (`Tells`); `WantInv` has the images still to be loaded, and
`KindInv` the states that a device of each kind gets to.  That, and `DumpInv`, which ties the
files to the region and block in progress, is all that the first half of `DumpSound` and most of
`HandsOverToProgrammer` need: they hold for any loss, delay or hang.

`Prompt` is the conversation as long as the host has not stopped waiting for a packet that
was still to come.  `Talking` lists, for each state of the device, what is in the two
queues: one packet at most, except that the answer to the last DONE, to which the host has
nothing to say, may still be there when the device has said the next thing (`Reply`).
`Dumping` does this for the states of the host in a dump, with the zero-length packet
that may follow a block.  `HeardTalking` turns it into what the host can have heard, and from
whom, and each handler then has a short lemma.  The only device that says nothing for long is one
whose HELLO was eaten (`SilentHello`); a prod is the answer it waits for.  `UpInv` and
`DownInv` are about sessions that nothing disturbs (`Calm`): a host that is done has been
told so by a device that boots, unless something cannot be served; and a dumped device is
reset only when the last region was read.

### SaharaCommandsProof

Assumption `SaharaCommandsAssumption`: runs are lists of the two subcommands, and there
are at least two retries, since one packet of a crashed device may cross a reset.

| theorem | statement |
|---|---|
| `TypeCorrect` | `Spec => []TypeOK` |
| `PowersOnlyProgrammers` | the XML power command goes only to a device on which a programmer runs |
| `ResetsAreReal` | a reset that returns 0 has reset the device, or it has left the bus |
| `IdentitiesMatch` | what chipinfo shows is what the device answered to that command, if nothing is late |
| `CommandsDoSucceed` | undisturbed commands succeed, whatever commands came before them |

The first two action properties need only types and `ProgInv` (which packets only a
programmer sends).  For `IdentitiesMatch`, a reply names no command, so the invariant must
account for everything that is under way: `Calm` lists for each state of the host the
packets that may be in the two queues (at most one while a client command is executed, and
that one of this command) and holds as long as nothing was late; `LinkInv` ties the
replies read so far to `item`.  `CommandsDoSucceed` is the longest: without a fault host,
device and queues are in one of the states that `EdlStates`, `CrashedStates` and
`ProgrammerStates` enumerate, and every command that has ended has returned what is
expected of it (`AllRight`).

### GptProof

Assumptions: `GptAssumption`, a sector has at least one entry, the sector sizes that are tried
are positive, and every disk is a sequence of tables for each storage;
`CommandLineAssumption` (in `OpList`), the arguments, the files they name and the entries and
tags of these are sequences.

| theorem | statement |
|---|---|
| `ListsAreReady` | `Spec => [](Inv /\ ListReady)`: the list that is executed is one of whole operations, in front of the first configure none that addresses something, and a name in it has the physical partition that was given |
| `Invariance` | `Spec => [](Inv /\ TablesInv)` |
| `NamesResolvedFirst` | nothing reaches the device before each name in the list has been resolved to a partition of that name |
| `NamesMeanPlaces` | a named operation is executed where the tables have its partition, the only one on the first physical partition that has one |
| `GoodListsAreRun` | a list that is good for the disk as it is (`ListGood`) is executed to its end and reports success, if no read or command fails for no good reason |

The theorems hold for every command line, every disk and any number of failed reads.
`ListsAreReady` is about what the list is made of: `BuildInv` says that it is one of
operations as they are read (`IsOps`) while arguments are looked at, and one lemma for each
operator of `Images` and `Builds` says so of its result.  All of them come down to `JoinAll`,
a fold.  The library's induction theorems cannot be used, but a least counterexample can be
named: `SetsByMax` is the induction over the sets that the fold goes through, as a statement
about a set of sets, which `JoinExists` (the fold is defined) and `JoinAllIsList` (what it
keeps) then use.

An operation that was resolved keeps its name and has a physical partition, so that every
later configure resolves it again, among fewer partitions; `ResolveInv` needs to know that
it then finds the same one, which holds because the first time it took the first physical
partition that has the name (`Only`, lemma `FoundIsOnly`).  While tables are loaded no
operation has been resolved (`FirstName`), and nothing that is loaded is ever dropped.
`TablesInv` relates what is loaded to the disk.  Without failures for no reason a read of a
header fails only behind the last physical partition, provided that the sector size is that of
the storage; this is why the invariant has to say which configure selected the storage that
partitions were loaded from (`SelectionInv`).  All of it holds while one storage was selected
and no table was written (`OneStorage`, `Unwritten`), and so does `NamedPlace`
(`SameTables`).

`GoodInv` is about where a list ends.  `GoodListsRun` looks at the list and the disk when all is
over, so the invariant says what of them stays as it was (`Shape`: the disk changes, but not
how much it holds; sizes and names are kept), and the proof excludes each way to fail in turn.
A configure fails if its storage is not there.  The first one probes the sector size by
a read of LUN 0, which is refused for every size but its own (`SizeKnown`, under `SizeFound`:
the storage is no NAND, has a LUN and one of the `Sizes`, which are 512 and 4096 in the
code).  A name fails if it is not found, is found
twice or does not fit, which the invariants behind the other theorems exclude for a name that
means one partition (`FoundIsOnly`, `TablesInv`).  An address fails if it is beyond the
storage that was selected last (`Selected`) or has no sector size.

### UfsProof

Assumption `UfsAssumption`: there is at least one file.

| theorem | statement |
|---|---|
| `TypeCorrect` | `Spec => []TypeOK` |
| `AppliedIsTheFile` | the device applies the description in the files, all of it and in order |
| `CommittedIsValidated` | what is committed has been found good in the validation pass, if the answers are in step (`InStep`) |
| `SuccessIsApplied` | provisioning that reports success has been applied, if the cable was not pulled |
| `GoodFilesAreProvisioned` | a good file is applied and success reported, and the device is reset unless told not to, if nothing goes wrong on the way (`ProvisionSucceeds`) |

`FileInv` relates the lists of the reader to the elements before `node`, by counting
those of each kind (`Before`).  `RunInv` numbers all commands of an execution, from the
configures (0 and less) to the commit: commands are under way in order, without gaps
(`Sent`), and the device has made of them the prefix of the description that belongs to
the last one it took (`Received`).  Answers carry no number.  `HostAt` is the argument that
replaces it: with `late` answers outstanding the host is at most that many commands ahead;
to carry this through the whole first pass costs one late answer for each exchange, and
under `InStep` the second pass begins with nothing under way (`Close`).  The part about
the end of the first pass (`Second`) is what `CommittedIsValidated` rests on.

`SmoothInv` is about a good file (`FileGood`), elements that the device has nothing
against (`FileSound`), and a run without late answers, refusals for no good reason and
unplugging.  `Kept` says that what the reader has passed is in the description, so that the only
element of a kind is never taken for a second one and nothing is missing at the end.  Then
host and device take turns: a command is on its way (`Sending`), was acknowledged
(`Answered`), or took the device off the bus (`Left`), which only the commit and the reset
do; what the device was given by then is sound (`SoundBefore`).

### TransportProof

Assumption `TransportAssumption`: packet size, default chunk size and buffer are positive,
the default is a multiple of the packet size.

| theorem | statement |
|---|---|
| `TypeCorrect` | `Spec => []TypeOK` |
| `WritesAreFramed` | the device takes each successful write as one message |
| `NoPhantomReads` | no read returns nothing because of the packet that ends a message already returned |
| `ReadsAreStream` | `qdl_read()` over either backend, with push back, implements `ByteStream` |

`FrameInv`: between writes the device has as many messages as there were writes, in a
write only full packets.  `ZlpInv`: an empty packet follows a full one, and when it is at
the head of the wire `expect_zlp` knows.  The refinement needs `StreamInv`: bytes are
numbered, so what has been delivered, what is held in a buffer, pushed back and on the
wire must each be a run of numbers that continues the one before (`Run`, and `Chain` for
the packets, with the function that gives where each begins); `Delivered` leaves out what
a cancelled read lost.  `BufInv` is needed because push-back overwrites: it happens only
after an XML read, which has taken all that was pending.

### TransportProof: Opening

The theorems about `Opening` are at the end of `TransportProof`, which extends both modules.
Assumption `OpeningAssumption`: there are ports, and every set-up assigns devices to ports
and wishes to processes.

| theorem | statement |
|---|---|
| `HostsTypeCorrect` | `OpenSpec => []HostsTypeOK` |
| `NothingIsLeft` | a candidate given up, or a pass that failed, leaves no handle, claim or session |
| `DeviceIsRight` | a process that succeeds holds a device the user asked for, and no other process holds it |

`HoldInv` says for each process what it holds in each state of a pass; it must count
libusb sessions, since each return of the pass is to close exactly those it opened.
`KnowInv` says what a process has seen of its candidate: the reference is to the device
whose strings were read, as long as its port has seen no exchange, and a claim excludes
all others through `owner`.

### RawIoProof

Assumption `RawIoAssumption`: LUN and payload have at least one sector, and requests are
not empty.

| theorem | statement |
|---|---|
| `TypeCorrect` | `Spec => []TypeOK`; in particular no request leaves the LUN |
| `ReadsAreFaithful` | a read that succeeds returns the sectors of the device |
| `AcceptedWritesAreFaithful` | a write that succeeds is on the device, if no command was refused |
| `ResponsesAreConsumed` | a request leaves no response behind |

Nothing tells data from messages but their place, so the invariant is about everything
that is on its way to the host, read or not yet said (`Coming`): a step of the device that
says something does not change it.  `Flow` gives it for each state of the host.  At rest
there is nothing, or after a silence messages without data (`Stale`).  A command that was
sent is waiting (`Asked`), answered without data (`Told`), refused, or accepted, with the
acceptance behind the stale messages, and behind it exactly the sectors asked for and one
response (`Reading`), or nothing (`Writing`).  In the data phase the sectors read are those
of the device and the others follow in order (`Sectored`); of a write, what is taken, on
its way and left add up to what was asked for (`Taking`), or all of it is dropped, which
takes a refusal (`Dropping`).  This needs `InTime`: a second silence lets an acceptance
be left behind, and the next request takes it for its own.

### Only model-checked

* Liveness (`SessionEnds`, `RunEnds`, `RunReturns`, `Served`): what happens under fairness is
  out of the prover's reach.
* `ListAsAsked` beyond `ListReady`: which operations, in which order and number, are made of
  the arguments.  It counts and compares selections from sequences (`SelectSeq`), whose
  definition the provers do not see.

## 5. Where the code and its comments part

Findings, each with a run that shows it:

* **`vip_capacity`**.  `create_chained_tables()` writes any number of chained
  tables; `vip_transfer_init()` opens 32.  The documentation of the generated files
  (`docs/vip.md:39-40`) knows no such limit, and the generator does not warn.
* **`rawio_nak`**.  `firehose_pwrite()` tests its responses with `ret < 0`, while a
  refusal is `FIREHOSE_NAK` (1): a refused write is reported to the client as done.
* **`oplist_reset`**.  `flash <build> reset`, for a build with a boot loader, and a write of
  one to a physical partition, such as `write 0/1 xbl reset`, append the reset when the verb
  is read (`qdl.c:801`); the setbootablestoragedrive comes behind it, to a device that has
  been reset.  `qdl.c:880` says that reset is the last operation.

The models also follow the code in the following, which no run singles out.  They are
behaviour as it is, some of it on purpose; the properties of section 3 are stated so as
to hold with them.  Where that takes a condition (`late = 0`, `InTime`, `InStep`,
`ListGood`), the case it leaves out is one in which the code does go wrong: such a property
says what holds in all other cases, and does not cover the hazard as a whole.  The hazards
in `PROJECT.json` that this concerns have a note.

*Firehose.*
One late answer (`firehose.c:317`) shifts all later answers by an exchange.  If it is that
to the read that probes the second sector size, whose failure is ignored, the answer to a
program operation is read for the setbootablestoragedrive behind it, whose outcome is
ignored too (`firehose.c:1948`): a program that was refused is then reported as good; hence
`late = 0` in `FlashComplete`.  A setbootablestoragedrive that cannot be written at all is
passed over as well, so a VIP session with a programmer that has gone may end well without
its packet; hence the last condition of `SessionAsPrepared`.
The dry run and the flashing run do not always send the same packets.  A programmer that
does not take the payload of 1 MiB, which the simulated device takes, gets a second
configure (`firehose.c:583`) that is in no table; hence `dmax = HostPayload` in
`SessionAsPrepared`.  With `--skipblock=sha256` the dry run that creates the tables
records `<getsha256digest>` commands, since its own state is `VIP_DISABLED`
(`firehose.c:731`); the comment at `firehose.c:721` says they are never in tables, and
the flashing run does not send them.  And an operation without a sector size of its own
is recorded with the 4096 of the simulated device (`sim.c:656`), while in the flashing
run no size is probed (`firehose.c:608`) and the operation fails.
The sector size is probed at the first configure and kept when another storage is
selected (`firehose.c:609`): files without a size of their own are then programmed with
the wrong one, if the sizes differ; `ListGood`, hence `GoodListsRun`, leaves such lists out.
A NAK for an element of a description is not kept if an ACK follows in the same read
(`firehose.c:387`), which is why answers that lag may stand for others: with one late answer
for each exchange of the first pass, a description that is being refused is committed
because of the answers to the commands before; hence `InStep` in `CommittedValidated` and
`SuccessMeansApplied`.
At the commit `-ENODEV` is taken for success (`firehose.c:1670`), so pulling the cable is too.
`firehose_getstorageinfo_parser()` returns 0 for a `<log>` (`firehose.c:2098`), which
`firehose_read()` takes for a response: it may stop at 100 ms of silence with the real one
to come; hence `late = 0` in `ResponseConsumed`.
Data of a read that timed out are read by the next read of the nbd plugin, which keeps
its device (`nbdkit-qdl-plugin.c:176`), and after two silences the response to one command
may be taken for that of a later one; hence `InTime` in `ReadFaithful` and `WriteFaithful`.

*Sahara.*
Only the mode of the HELLO tells `sahara_device_reset()` whether the device is in memory
debug; any other is put into command mode (`sahara.c:1321`), although the comment at
1260 says that no state transition is forced.  After a prod nothing is sent to leave the
image transfer, and a device that takes a reset only in command mode refuses it.
Over QUD a late HELLO and a prod may cross, so that the device gets two HELLO responses;
hence `late = 0` in `NothingStray`.
A late reply to a client command is taken for the reply to the next one
(`sahara.c:1063`); hence `late = 0` in `IdentityMatches`.

*Lists.*
The boot loader that comes first in the order xbl, xbl_a, sbl1 decides which drive is made
bootable, and its address is looked at before names are resolved: behind `write xbl xbl`
there is no setbootablestoragedrive (`qdl.c:626`), even if a later boot loader has a
physical partition; `ListAsAsked` is stated accordingly (`NoBootable`).
A read of a GPT header that fails for any reason is taken for the end of the physical
partitions (`gpt.c:165`): a name may then be found on a later physical partition, or be
unique where it is not; hence `bad = 0` in the second half of `NamedPlace`.
The first partition of a name fixes the physical partition (`gpt.c:282` sets what
`gpt.c:271` compares), so that "duplicate candidates" (`gpt.c:278`) are found on one physical
partition only: a name that several have stands for the one on the first of them, although
`docs/raw-io.md:27` and `util.c:163` speak of a match across all of them.
Partition tables are read once, for the first storage (`gpt.c:241`): names behind a build
with two storages are resolved on the first, and those behind a table that is rewritten in
the table as it was; hence `SameTables` in `NamedPlace`.
The guard of the `secdata` partition looks at the first program of that label only, and
only at those of program files (`program.c:458-470`).
A sparse image whose start counts from the end of the disk continues at sector 0
(`program.c:165`); `ListAsAsked` leaves it out.
With a provisioning file the operations of other files are dropped silently
(`qdl.c:898`).
The programmer of a contents.xml is chosen before, and whatever, the storage and the
flavor (`contents.c:912`), unlike in `contents_load_programmers()` (`contents.c:1003`).
If the images of a build have flavors and the program files have none, the flavor cannot
be selected and the first image is taken; hence `Flavored` in `BuildAsSelected`.
A memory of a flashmap that is not known is accepted (`flashmap.c:265`): its configure
fails when the storages before it have been flashed; and with a filter it goes with the
storage before it (`flashmap.c:531`).

*Transports.*
After a transfer that was cut short by the timeout on a packet boundary, a zero-length
packet that follows is returned as an empty message (`usb.c:583`); hence `cut = 0` in `NoPhantom`.
A read of the QUD driver that completes while it is cancelled loses its bytes
(`qud.c:450`); `ByteStream` has `Lose` for it.
The automatic backend passes the chunk size on when the device is open (`auto.c:38`), past
the correction in `usb_open()` (`usb.c:343`): a chunk size that is no multiple of the packet
size ends transfers in the middle of a message; hence the condition of `ChunksFramed`.
`visible` counts a device twice that both backends see (`auto.c:86`); it is only shown.
Without `--serial`, `qud_open()` opens the first port only, and it looks at the first 16
at most; `Reachable` says so.  A device exchanged between the selection of its COM port
and the opening is taken for the one selected; hence `link.ref = com` in `RightDevice`.
A device whose COM port has no `_SN:` in its name gets the tail of its instance id as its
serial number (`qud.c:281`), which may be made up by Windows; the model has `NoSerial` for
it (`SerialOf`).  No property depends on more than that it does not match the number asked
for.
`qdl_close()` is called for a device whose opening failed (`qdl.c:912`).

## 6. Not modelled

* **Programmer images** (`programmer.c`, `sahara_config.c`): the decoding of archives and
  configurations into images, a conversion without state.  `Builds` has which
  programmer is chosen, `Sahara` what is done with its images.
* **Files and archives** (`file*.c`, `zipper.c`), **helpers** (`util.c`, `ux.c`, `sha2.c`,
  `oscompat.c`, `pathbuf.c`, `list.h`, the parser of `json.c`): sequential input and output, formatting and
  hashing; the protocols take their results as given.
* **Parsing** of XML, JSON, addresses, options, and of UTF-16 names: the models start from tags,
  entries and arguments.
* **Subcommands that only hand over**: `list` is in `Opening`, `ramdump` in `Sahara`;
  `ks` and `create-zip` serve or write files.
* **The simulated device's canned answers** (`sim.c`): a queue of strings for tests.  Its digest
  checker is in `Vip`.
* **The ramdump filter and the minidump ELF** of `sahara.c`: the first removes regions from the table, the second
  writes a header from it.
* **Progress, statistics and summaries** of `firehose.c` and `ux.c`.

## 7. Plan

Everything planned is modelled, and each safety property that a passing run checks is proved
but for the part of `ListAsAsked` that is out of the prover's reach (section 4).

# TLA+ models of the MEGA65 expansion board firmware

This directory holds the verification project of the firmware of the MEGA65
expansion board with integrated JTAG (`src/`): TLA+ modules translated from the C
sources, TLC configurations that check them on small instances, and theorems that
TLAPS proves for every value of the constants.

## 1. The system

The board carries an RP2040/RP2350 with WiFi, an SD card and a JTAG port to the
MEGA65's FPGA. The firmware is **single threaded**: `main` (`src/src/main.c:2588`)
calls a handful of `..._poll` functions in a loop, and lwIP runs its callbacks only
from `cyw43_arch_poll`. The difficulty is not preemption but *re-entry and
resumption*: `file_sha256_hex` pumps the network in the middle of the mirror's poll,
a transfer is spread over hundreds of callbacks, and timeouts, cancellations, DNS
answers, web requests and AT commands come between any two of them. Everything that
lasts is on the SD card or in flash, and power can be cut at any moment.

| Component | State it keeps | Operations | Hard behaviour | What makes it correct |
|---|---|---|---|---|
| Mirror update (`remote_http.c`, autofetch) | `autofetch_state`, retry state, counters, one fetch context, the receiver in it | start, cancel, poll; callbacks of its connection | late DNS answers, early closes, cancel during a hash, retries, one context for many files | only signed content is committed, a run ends, the status is true, nothing is leaked |
| Download queue (`remote_http.c`) | table of jobs, active job, next number | enqueue, poll, completion | a number that wraps, a grant that expires, a full table | one job runs, no two own a file, the queue drains |
| Firmware update (`ota_apply.c`) | slot 1, sector buffer, `scratch[2]` | stage the package, arm, reboot | read errors, a package that changed, power loss | only a whole image is started |
| Boot loader (`bootloader/main.c`) | slot 0, `scratch[2]` | copy, check vectors, launch, BOOTSEL | power loss in the copy | what is started is one whole image |
| HTTP server (`remote_http.c`) | one connection, its upload or JTAG stream | accept, receive, send, error, close | errors of a closed control block, close that runs out of memory | uploads are whole and verified, the connection is given back |
| Signed receiver (`signed_file.c`) | running hash, trailing block, open temporary | begin, write, finish, abort, verify a stored file | two responses in one receiver | accepts exactly what a trusted key signed |
| JTAG port (`jtag_gpio.c`) | pins, hijack switch, the writer of a stream | claim, release, read, begin, write, finish, abort | a console command between two pieces of a web stream | the FPGA is configured with one whole payload or nothing, the switch is given back |
| Core files (`core_file.c`) | offset and length of a payload | open, read | a wrapper anywhere in the file, cut files | the payload is found and loaded whole |
| Core list (`main.c`, `storage_fatfs.c`) | list state, buffered entry, count, the static `DIR` | list, detail, more, limit, load by number | many commands, one cursor shared with every other listing | a list that ends is complete, a number names its row |
| File and settings commands (`main.c`, `write_gate.c`) | `.partial`, settings, the grant | FILEWRITE, AT&W, AT+MACHINE | power cuts, calls that fail, a grant that expires while a chunk is awaited | the old or the new file survives, settings come back |
| Theme install (`remote_http.c`) | `WWW/` | verify, dry run, empty, extract | failure after the old pages are gone | no mixture of themes, success means all pages |
| WiFi probe and join (`remote_http.c`) | probe flags, attempts in scratch registers, timers | probe, boot check, join, recover | a hang ended by the watchdog, DHCP against join timeout, late cards | retries are bounded, the server comes up |
| Line reader (`uart_cmd.c`) | one line buffer, a position per port | read a line, read data | two ports in one buffer, overflow, data behind a command | a command is a line somebody sent, data is its host's |
| Storage (`storage_fatfs.c`) | pool of file slots, mount flag, one directory cursor | open, close, unmount, list | unmount under open files, nested listings | a handle names the file it was opened for |
| SD transport, remote authentication, core filter, machine identity, button, clock, USB descriptors, `storage_stub.c`, host tools, web pages | - | pure parsing, hardware access, PC programs | - | see section 8 |

Interactions. The mirror, the queue, the HTTP server and FILEWRITE each own a signed
receiver or a `.partial` and share the card and the file pool; a starting mirror run
deletes the `.partial` files of all of them. The HTTP server starts and cancels mirror
runs from its callbacks. Uploads, queued downloads, FILEWRITE, settings and themes need
the write grant, mirror runs do not. The firmware update, the boot loader and the WiFi
probe share `watchdog_hw->scratch[2]`. All directory listings share one cursor. The web
stream and the console share the JTAG port. Both command ports share one line.

## 2. Modules

| Module | Models | Role |
|---|---|---|
| `AutoFetch` | mirror update, its fetch client, receiver, hash with network, pool as a count | specification |
| `OtaBoot` | firmware update and boot loader composed over flash and the scratch register | specification |
| `DownloadQueue` | job table of URL downloads | specification |
| `HttpServer` | the web server's connection with its uploads, JTAG streams and downloads | specification |
| `CoreFile` | how the payload of a core file is found | operators, used by `JtagPort` |
| `CoreFormat` | what the payload of a core file is | reference definition for `CoreFile` |
| `JtagPort` | the JTAG port tick by tick, composed with the FPGA, the web stream and the console | specification |
| `Programming` | what the board promises about the FPGA | abstract specification of `JtagPort` |
| `Wifi` | probe under the watchdog, join, recovery, and their callers | specification |
| `CoreList` | the pages of the core list over the one `DIR` | specification |
| `CardWrites` | FILEWRITE, settings and theme install call by call, the write grant, power cuts | specification |
| `LineReader` | two command ports, one line buffer, data behind a command | specification |
| `MCAutoFetch`, `MCOtaBoot`, `MCDownloadQueue`, `MCHttpServer`, `MCJtagPort`, `MCWifi`, `MCCoreList`, `MCCardWrites`, `MCLineReader` | finite instances | TLC |
| `AutoFetchProofs` | all safety properties of the mirror update | TLAPS |
| `OtaBootProofs` | types, disarmed register, whole image | TLAPS |
| `HttpServerProofs` | all properties of the web server, all safety of the download queue | TLAPS |
| `JtagPortProofs` | all properties of the JTAG port: it implements `Programming`; the parser of core files | TLAPS |
| `CardWritesProofs` | all properties of the console's writes | TLAPS |
| `WifiProofs` | all safety properties of probe and join | TLAPS |
| `CoreListProofs` | all properties of the core list | TLAPS |
| `LineReaderProofs` | all properties of the line reader | TLAPS |

### AutoFetch

`afState`, `running`, `retryState`, `retries`, `checked`, `needed`, `updated` and
`pending` are the `autofetch_*` statics of the same meaning; `pos` is
`autofetch_manifest_offset` counted in lines. `fc` is `autofetch_fc` with the
receiver folded in: `fc.rx` says whether its temporary is open, `fc.from` and
`fc.mixed` are history: which connection fed it, and whether bytes of two responses
met in it. `conn` is lwIP's view of each control block whose argument is the context;
the code knows only `fc.pcb`, and the difference between the two is where late DNS
answers and forgotten connections live. A content is one of five classes
(`Contents`), told apart by what the hash and the signature check can tell apart.

`cpu` says where the processor is. `Poll` is split where the code can be re-entered:
`ScanFile` and `CoreDone` begin a hash, callbacks run in `"hash scan"` and
`"hash verify"`, and `ScanUnchanged`, `ScanDiffers`, `VerifyAgrees` and
`VerifyDiffers` are the rest of the poll, which goes on *without looking at the state
again*, as the code does. `ManifestDone` and `VerifyAgrees` continue in the same poll
with a scan (`cpu = "scan"`), where no callback runs. Callbacks are `Connected`,
`ConnectionError`, `PeerClose`, `Headers`, `BodyPiece`, `BodyEnd` and `DnsAnswer`;
operators with the name of an idea (`Closed`, `RxAborted`, `AttemptLeft`) are the
functions they call.

### OtaBoot

`slot0` and `slot1` hold the origin of each flash page, `SectorOf` the erase
geometry. `BeginUpdate`, `StageBlock`, `SkipBlock`, `EndStaging` are the loop of
`remote_http_firmware_update` over UF2 blocks with its one sector buffer
(`sector`, `buffer`); `BootArmed`, `EraseSector`, `CopyPage`, `Launch` are `main` and
`do_ota_update` of the loader, one flash operation a step so that a power cut falls
between any two. `VectorsMayBe` is `slot_vectors_look_valid`, which reads one page.
`sound` is history: no block was skipped or cut off in staging and the power stayed on
in the copy, since the board was last recovered.

### DownloadQueue

`job`, `number`, `active` and `next` are `download_jobs[].state`, `.slot`,
`download_active_job` and `download_next_slot`. `fetch` abstracts `download_fc`,
which runs the same client as `AutoFetch`. The order the code uses is kept: a request
that finds nothing active starts at once, ahead of the queue, and the next job is the
first waiting entry of the table. The names say `Queue` because one module of proofs
extends this one and `HttpServer`.

### HttpServer

`c` is `http_conn` with its signed receiver: `c.state`, `c.op`, `c.inUse`, `c.spool`
and `c.active` are the fields of the same meaning (`put_op`, `jtag_spool`,
`jtag_active`), `c.done` is `body_done` in pieces, `c.rx` says whether the receiver's
temporary is open; `c.from` and `c.mixed` are history as in `AutoFetch`. `pcb` is
lwIP's view of each control block whose argument is `http_conn`: `"open"` may send,
`"muted"` is being closed again, `"closed"` was closed and lingers with its error
callback. `Close` is `http_close` with the three results of `tcp_close`; a handler that
ends in it is one action with it. `jtag` is the state of the TAP, which has no owner in
the code, `fpga` what it was configured with.

`AnswerOnly` stands for every request that changes neither the card nor the FPGA;
`SendFile`, `DeleteFile`, `ProgramFile`, `BeginPutFile` and `BeginPutJtag` are the
others. The requests that start or stop a mirror run belong to `AutoFetch` (`Cancel`,
`StartManifest`), theme installation to `CardWrites`. `grant` is what
`check_write_grant` answers. `require` is `http_cfg.require_signatures`, which changes only
when the configuration is loaded again from the card; that is not modelled. `disturbed`
remembers that the error callback of an old connection cleared the state of a new one, or
that the console used the TAP during a stream: the code promises nothing about that
request after it, except that nothing unsigned comes through.

### CoreFile and JtagPort

`CoreFile` is `core_open` and `core_read_payload` on small files: a byte stands for a
16- or 32-bit length, `Signature` for the first bytes of a `.bit` preamble. The refusals of
the code are there as constants: the read of the magic that every file must allow
(`MagicSize`), the header of a container (`CorSize`), the longest preamble (`MaxPreamble`),
the number of records (`MaxRecords`). `FindWrapper` keeps the chunks of the search and
their overlap (the chunks that have a signature, and in the first of these the first), and
ends at `SearchLimit`, one megabyte in the code. `Record` is the loop over the records,
counted down from `MaxRecords`. `CoreOpen` is the outcome when every read succeeds;
`Misread` has those of a read that fails: the file is refused, but a container whose usual
place could not be read is searched all the same, and what is wrapped at its first
signature is loaded. `CoreFormat` says what a core file is without reading it in any
order: a chain of records is a sequence of positions each of which is where the one before
it ends, and a container's wrapper is behind its header or else at the first signature up
to the limit. The files of an instance carry the payload that this format gives them
(`FilesAssumption`), never the one the reader finds.

In `JtagPort` every function of `jtag_gpio.c` is what it does to the pins: a helper
(`ShiftIr`, `ShiftDrRead`, `LeaveShiftDr`, `WriterWrite`) is a sequence of steps of the pins, a
function (`WriterBegin`, `CloseOut`, `ProgramStream`) a sequence of helpers. `Step` does one
step, `Call` one helper, and `After` a whole function at the port. The FPGA sees nothing
but the ticks (`Clocked`): a 1149.1 controller, an instruction register and configuration
logic that takes the bits shifted through CFG_IN and starts with them after JSTART. TMS is
a pin with a memory, as in the code, where a payload bit leaves it alone (`PayloadTick`).
Payload bits are told apart, so that a design is the very sequence of bits that was
shifted. `wr` is `http_conn.jtag`, `held`, `alone`, `told` and `loaded` are history. A
console command is one action, since it does not return before it is done; the web stream
is one action a byte, and every command may come between two of them.

`Programming` says what a user sees: a stream that begins clears the FPGA, its end
configures it with the whole payload and is told to the client, and a console command
does what it likes between whole designs and disturbs a stream. `Switch` is the operator
who takes the port with `AT+HIJACK=1` or gives it back, in the middle of a stream too, since
`cmd_hijack` does not ask; a stream that ends while he holds the port is the one of which
nothing is promised. `Implements` maps `design` to what the FPGA is configured with and
`stream` to the payload of the writer.

### Wifi

`w` holds the `wifi_...` statics (`after` is `remote_init_after_probe_pending`,
`retry` is `wifi_probe_retry_scheduled`), `scratch` the watchdog registers, `main` the
two flags of the main loop. A timer is set by the code and becomes due later (`Fires`).
A handler is a function from a record `r` to the set of its outcomes, and one that hangs
is followed by the reset and `BootCheck` in the same step: nothing else runs between.
`Unread` is a `remote_auth_load` that fails although the card is mounted.
`RemoteInit` is called from the probe, the recovery, the first initialisation, the card
that is put in and `AT+MOUNT`, as in the code. `tries`, `hangs` and `skipped` are
history; `skipped` says that the last `remote_http_init` left the network alone, because
the chip had been given up or the configuration could not be read.

### CoreList

`dir` is a row of slots, so that a file written meanwhile takes a free slot before or
behind the cursor. `handle` is the static `DIR`, `pager` is `list_state`, the number and
the buffer, `max` is `max_list_bytes`. `ListRow` and `DetailRow` are the two callbacks,
`ListOn` the loop of `storage_list_filtered`, `MorePage` the switch of
`cmd_continue_list`. `OtherListing` is every other use of the cursor; it closes it.
`seen` and `steady` are history: what was reported since the listing began, and whether
the directory and the limit are the same since.

### CardWrites

`job` is the command in progress with its next call; each call works, or fails
(`Fault`, or `Fails` when the reaction to a fault may fail too), or is the last before the
power goes (`PowerCut`). `boot` is `remote_init_done` and `sd_config_loaded`: `main` loads
the settings two seconds after the start (`FirstInit`) or when a card is put in
(`HotPlug`, `Mount`) and runs commands with the defaults until then. `Loads` is
`at_settings_load`, which keeps what it has when the file cannot be opened or read, is not
called again, and in a success sets `cfg.fresh`, which is history. `file.written` counts the
chunks of the `.partial`, `file.safe` those that are synced. `cfg` has the settings in
memory and on the card: `interval` stands for the settings with a default, `name` for
the machine name, which is kept elsewhere. `www` is a set of files with the package they
came from. `Begins` is `require_write_authority`, `Granted` is `write_gate_active` with
its look at the pin. `CleanUp` is the part of the mirror update that deletes `.partial`
files.

### LineReader

`fifo` is what a port has received, `port` its position and `last_was_cr`, `buf` the
one `line` of `main`, `source` is `last_cmd_source`. `Feed` is `feed_line_char`. The UART
is read character by character; the USB port gives what it has in chunks of at most
`ChunkMax`, 128 in the code, and what stands in a chunk behind the end of a line is lost
(`FeedChunk`). `Dispatched` runs the line; `Bulk` is a
command that answers READY and reads `Payload` bytes, as FILEWRITE, JTAGSTREAM and
TESTSINK do. The hosts are external: they type, wait for READY like
`tools/m65j.py`, or type ahead.

## 3. Runs

| Run | Checks | Instance | Shows |
|---|---|---|---|
| `AutoFetchClosing` | `IdleIsClean`, `OneConnection`, `CountersAgree`, `SuccessIsCurrent` | 3 files, 2 connections, early closes | an idle mirror gave back connections and temporaries, one connection at a time, counters agree, success is not claimed over a stale file that is not counted |
| `AutoFetchHostileEnds` | `TypeOK`, `OnlySigned`, `RunEnds`, `UpdatedIsCurrent` | 1 file, 1 connection, early closes, late DNS, web requests in a hash, fairness | every run ends; nothing unsigned reaches a final path; a counted file is current, unless a run begun during its hash has brought a new manifest |
| `AutoFetchCommit` | `CommitsOnlyVerified` (violated) | calm server | finding 1 |
| `OtaBootFaults` | `RunsDisarmed`, `WholeUnlessCut`, `BootEnds` | every fault | the copy never stays armed, what runs is whole unless a block or the power was lost, the loader always ends |
| `OtaBootPowerLoss` | `RunsWholeImage` (violated) | power loss | finding 2 |
| `DownloadQueue` | `QueueTypeOK`, `OneRunning`, `NumbersDistinct`, `QueueDrains` | 3 entries, 4 numbers, 6 requests | one job, one file a job, the queue drains |
| `HttpServer` | `OneServed`, `NothingLeft`, `OnlySigned`, `SuccessIsTrue` | 3 control blocks (symmetric), bodies of 2 pieces, every error at every point | one connection is served, a request that is over leaves nothing, nothing unsigned where signatures are required, success is told only of what the client sent |
| `JtagPort` | `SwitchGivenBack`, `LoadsThePayload`, `Implements` | 2 streams, 14 core files, failed reads, every console command and `AT+HIJACK` between any two bytes | the switch is given back, a file is loaded as it was built, and the port implements `Programming` |
| `Wifi` | `OneProbeState`, `CountSurvives`, `ResetsBounded`, `RetryIsSilent`, `ComesUp` | 2 attempts, 3 faults, a flap, 2 commands, fairness | tries are counted across resets and bounded, no probe is lost or doubled, the server comes up |
| `CoreList` | `DetailIsComplete`, `ListIsComplete`, `NumberMeansRow`, `MoreAdvances` | 3 names of 1, 2 and 5 bytes in 3 slots, limits 0, 2, 3, a change, a read error | what ends well is complete, numbers name their rows, pages advance |
| `CardWrites` | `NeverTorn`, `OneCopy`, `OneChunkOverdue`, `SettingsReturn`, `OneTheme`, `InstallIsWhole` | 2 chunks, 4 packages, 2 faults, a power cut, late cards | no torn file, a copy survives, one chunk overdue at most, settings return once they could be read, themes are not mixed |
| `LineReader` | `LineIsOwn`, `DataIsOwn`, `DataIsNotRun` | lines of 2, 2 bytes of data, 5 characters typed | the line that is run is its host's, data is its host's, and under which conditions not |

Every run but `LineReader` checks for deadlock; there the hosts may stop typing.
`TypeOK` of the other modules is proved for every value of the constants (section 5), and no
run is spent on it.

### Bounds and why they are enough

* `AutoFetch`: `NFiles` 3 (1 in the hostile run). Files are handled one after the other
  and meet only in the counters, the retry counter and the fetch context; with one file
  the context is still shared between the manifest and the file and between two runs, and
  with three a skip, a success and an unchanged file fall into one run. `BodyChunks` 2: a
  body has a first and a last piece. `FileRetries` 2 (30 in the code): one retry and the
  last attempt. `FileSlots` 2 (4 in the code): a slot for a transfer and one for a hash;
  with a leak the pool is exhausted, which is the boundary. `MaxLookups` 1; lwIP keeps
  four. Two connections at once occur in `AutoFetchClosing`; that bytes of two connections
  never get past the signature is proved for any number (`CommitsOnlySigned`).
* `OtaBoot`: five pages in sectors of two, an image of four with its vectors in the
  second: a sector shared with the end of the image, one behind it, a vector page that
  is not the first.
* `DownloadQueue`: `Depth` 3 and `Numbers` 4 (4 and 256 in the code): the number wraps
  onto numbers in use. `MaxRequests` bounds what an operator asks for, so that
  `QueueDrains` speaks of a queue the operator leaves alone.
* `HttpServer`: three control blocks are one that is served, one that was closed and
  lingers, and one that arrives meanwhile; a body of two pieces has a first and a last.
* `JtagPort`: bytes of three bits, payloads of one or two bytes: a first and a last.
  `IdleTicks` 2 (64 to 100000 in the code): one that starts the FPGA and one more.
  `MagicSize` 3, `CorSize` and `HeaderSize` 10, `SearchLimit` 16, `ChunkSize` 3,
  `MaxPreamble` 3, `MaxRecords` 4: there is a file on either side of each of these limits,
  and containers with their wrapper in the usual place, behind it, across two chunks, and
  across the limit of the search. A signature of two bytes leaves a chunk one more.
* `Wifi`: `FastAttempts` 2 (4 in the code) is a retry and the last try; three faults are
  one more than the tries, so that a fault also falls behind a success.
* `CoreList`: lines shorter than a page, as long as one, and longer than two stand for
  lines of tens of bytes and limits of 64 to 256.
* `CardWrites`: two chunks are a first and a last; the packages are a good, a forged, a
  malformed and a short one; one file in `WWW` and one in a subdirectory; two faults, so
  that the reaction to a fault can fail too, or both the first load and a save.
* `LineReader`: a line overflows with the third character, and five characters overflow
  it, end the rest, and leave one for the other port. `FifoMax` 3 and `ChunkMax` 2: what
  waits is more than a chunk.

### Fairness

* `AutoFetch`: `WF_vars(Poll)`. `main` calls `remote_http_autofetch_poll` on every
  iteration, deadlines are read from a clock that runs, and the poll does not return
  early while the network is up. Nothing is assumed of the server, the network, the
  resolver or the operator: a response need never arrive.
* `OtaBoot`: `WF_vars(BootStep)`; the loader is a straight program with interrupts
  off. With repeated power loss the property asks only that the loader ends when it is
  allowed to run.
* `DownloadQueue`: `WF_queueVars(Poll)`, and `WF_queueVars(FetchEnds)` because `fetch_poll` ends a
  fetch by one of its three deadlines.
* `Wifi`: weak fairness of `Poll`, `FirstInit` and `HotPlug`, which `main` calls on every
  iteration, of each timer, and of `LinkProgress`: the access point is there. A network
  that answers too late spends a flap, of which there is a finite number.
* The others state safety only. An idle web connection is served for ever, as in the code.

### Assumptions about code outside `src/`

lwIP passes `ERR_OK` to the connected and receive callbacks, and calls the error
callback after it freed the control block. After `tcp_close` a control block lingers with
the callbacks that were not cleared, or is freed at once; `tcp_write` on a NULL control
block fails. FatFs unlinks a file although a handle is open on it, as it does without
`FF_FS_LOCK`; opening with FA_CREATE_ALWAYS empties the file at once; deleting and
renaming are done when they return; what was not synced is lost with the power; reading
a closed `DIR` fails. The resolver answers each lookup once. A
signature check accepts only what a trusted key signed, and a SHA-256 names one content.
The mirror may publish a new manifest at any time (`Superseded`). A 7-series FPGA
ignores a start without a configuration and keeps what runs until JPROGRAM. The
registers of the watchdog survive its resets and not a power cut.

## 4. Findings

1. **Committed before it is verified** (`remote_http.c:3569`). The status line says
   "Verifying the downloaded file before committing it" (`remote_http.c:1784`), but the
   old file is deleted and the download renamed over it before its hash is compared with
   the manifest. On a mismatch both are gone.
2. **A half-copied slot is started** (`bootloader/main.c:232`). The request is cleared
   before the copy, and the check reads the first vectors only; after a power cut in
   `do_ota_update` the loader reports "slot-valid" and starts a slot that is part new,
   part blank.

Seen while modelling; the properties allow exactly these:

* Mirror. A server that closes early leaves the receiver open (`remote_http.c:3668`), the
  next `fetch_start` forgets it, and with it a slot of the file pool; after four the card
  cannot be read until it is mounted again. `GET /fetch/stop` during the hash of a scan
  is overwritten when the hash returns (`remote_http.c:4690`). A DNS answer that comes
  after a cancellation connects all the same, and the file is committed
  (`remote_http.c:3724`). `GET /fetch/stop` and `GET /fetch/now` during the hash that
  verifies a file may bring a new manifest before the hash returns; the file is then
  counted as updated against the old one (`remote_http.c:4796`).
* Firmware. A read error while the package is staged ends the loop like its end and arms
  the copy (`ota_apply.c:53`). The package is not verified again before it is flashed
  (`ota_apply.c:33`), where `src/README.md:547-548` speaks of a verified package. The hook
  that `src/README.md:544-549` calls not installed is `ota_apply.c`.
* HTTP. `http_close` leaves the error callback on a closed control block
  (`remote_http.c:2294`): a reset that comes late clears `http_conn` under the connection
  served by then.
* JTAG. A console command that uses the port during a web stream ends the shift without
  the stream's knowledge; the rest is clocked into nothing and answered `OK JTAG DONE`
  (`jtag_gpio.c:410`). The FPGA is then what the command left, never a part of the stream,
  with one exception: `AT+HIJACK=1` leaves TMS high (`jtag_gpio.c:132`), the payload bits
  walk the TAP to its reset, and the end of the stream then issues JSTART with the part that
  was shifted before. `AT+HIJACK=0` only loses the bits that follow. A container of
  which a read failed at the usual place may be loaded from a signature elsewhere in it
  (`core_file.c:231`).
* WiFi. While the server is active the link is never looked at again, so a lost network
  is never noticed. A configuration that now says `http=0` leaves the old listener open. Link
  changes between joining and waiting for an address extend the deadline each time. A
  chip that was given up when the server was to be started, and that `AT+WIFIPROBE` then
  finds, is left idle, and so is one whose configuration could not be read from a card
  that works (`remote_http.c:5461`): association stays off, nothing tries again, and the
  server is down until a command or a restart (both are `skipped` in `ComesUp`).
* Core list. Another listing (a web page, `AT+THEMESTATUS`, the clean-up of the mirror) or
  `AT+MOUNT` closes the cursor of a listing in progress: `AT+COREMORE` then
  fails for ever, and `AT+CORELIST` is refused as in progress until the board is reset. An
  entry exactly as long as the limit is left out (`main.c:224`). A limit that changes
  within a plain listing loses the buffered entry; a limit of 0 with a detail in
  the buffer never advances; a plain page may carry the buffered entry on top of its limit.
* Files. A power cut between the delete and the rename of FILEWRITE leaves the `.partial`
  only, which the next FILEWRITE or the mirror's clean-up deletes; a rename that fails after
  the delete loses both; when the sync and the delete fail, the `.partial` stays. An interval of
  0 comes back as 3. Settings are loaded once, and a load that fails, or a file of more than
  1024 bytes, counts as loaded (`main.c:583`, `main.c:646`): the board then runs with the
  defaults until it is started or mounted again. Commands are served before the first load
  (`main.c:2581`): AT&W or AT+MACHINE then writes the defaults over what was saved.
* Themes. A `WWW` with a subdirectory cannot be replaced in one go: the nested listing
  closes the outer cursor, the install stops, and each further try removes a directory
  more. A package that ends early passes the dry run and is found out when `WWW` is
  already empty.
* Lines. The comment "Overflow: drop the partial line. The eventual newline returns
  blank." (`uart_cmd.c:149`) is not what happens: the tail of an overlong line is run as a
  line. A host that ends its lines with CR LF ("CR or LF" in `src/README.md:153`) has its
  LF read as the first byte of data behind a command. USB characters in the chunk behind the
  end of a line are lost. Running a line spoils what the other port has typed.

## 5. Proofs

TLAPS proves, for every value of the constants under the stated assumptions:

* `AutoFetchProofs`, unconditionally: `TypeCorrect`, `PoolIsBounded`, `CommitsOnlySigned`
  and `CountsOnlyCurrent`. The
  inductive invariant `IInv` is `TypeOK`, `OnlySigned`, `PoolBound` and a bound on the
  attempts (`AttemptsLeft`: fewer than `FileRetries` while a fetch may still fail),
  without which the range of `retries` is not inductive. `CommitsOnlySigned` needs no fact
  about which connection feeds the receiver, which is the point: the hash of what was
  received decides, not the bookkeeping of connections.
  For `CountsOnlyCurrent` (`UpdatedIsCurrent`) a file is counted when the bytes that were
  hashed had the right hash; that the *stored* file still has them at the count needs an
  invariant about what can change the path during the hash (`VInv`). A run that `/fetch/now`
  began meanwhile may have brought a manifest that outdates them; then, and only then, the
  fetch context belongs to that manifest.
* `AutoFetchProofs`, under hypotheses about what the environment does. `WebIsQuiet` says
  that no web request comes while a file is hashed, `DnsIsPrompt` that no DNS answer comes
  after its fetch was given up; both are switches of the constant `Env`, which the runs set.
  `CountersAlwaysAgree` (`CountersAgree`) and `SuccessMeansCurrent` (`SuccessIsCurrent`)
  need the first only, `AtMostOneConnection` (`OneConnection`) and `IdleOwnsNothing`
  (`IdleIsClean`) both. The hypotheses are necessary: with a web request in a hash TLC
  violates each of the four properties, with a late answer the last two. These are the
  weaknesses of section 4, and the theorems say that there are no others: the environment
  may still close early, fail, time out, supersede the manifest and cancel. `RunInv`
  follows a run: in which phase which counter may lag (`Counted`, `Phases`), what the file
  that is being hashed is to become (`Bound`), and that the files still owed, those which
  the scan has passed and which are not current, are at most `needed - updated`
  (`Budget`). `QuietInv` says whose the connections, the receiver and the temporaries are.
* `OtaBootProofs`: `TypeCorrect` and `AlwaysDisarmed`, and `WholeImageRuns`
  (`WholeUnlessCut`), all under every fault and for every geometry of flash and image. The
  invariant follows the sector buffer while the package is staged, the erased prefix and
  the copied prefix, as long as `sound` holds.
* `HttpServerProofs`, of the download queue: `QueueTypeCorrect`, `OneJobRuns`,
  `FilesAreDistinct`, for every depth and every number of files not below it.
* `HttpServerProofs`, of the web server: types and every property of the run
  (`TypeCorrect`, `OneAtATime`, `RequestsCleanUp`, `SignaturesKept`, and the action property `SuccessesAreTrue`), for
  every number of control blocks and every length of body. `IInv` has a part that holds
  whatever happens (`Sane`: a stream goes straight into the FPGA only where no signature
  is required, whoever takes bytes has not had them all) and a part that holds until a
  disturbance (`Linked`: `http_conn` names every connection that can send; `Tidy`: the
  temporary and the TAP belong to the body that is coming in). `CloseStep` carries the
  handlers, nearly all of which end in `http_close`.
* `CardWritesProofs`: types and every property of the run (`TypesHold`, `FinalIsNeverTorn`,
  `OneCopyIsKept`, `GrantOverdueByOne`, `SettingsComeBack`, `ThemesAreNotMixed`,
  `InstallsWholeThemes`), for every number of chunks, set of packages and files. The
  invariant adds what each step of a command knows of what the steps before it did: from
  the sync on the whole `.partial` is safe, while WWW is being filled it has pages of one
  package only, and of those all but the last are whole. `SettingsComeBack` says that
  settings which could be read, and were not changed since, are those of the last AT&W if
  it succeeded; a load that failed leaves them unread, and the next that succeeds brings
  them back.
* `WifiProofs`: `TypeCorrect` and every safety property of the run (`ProbeIsInOneState`,
  `TriesAreCounted`, `ResetsAreBounded`, `WaitingIsSilent`), for every number of tries,
  faults, flaps and commands. A handler is a set of outcomes, so the invariant has two
  forms: `Sound` between two handlers, with the facts that make the bound inductive (a
  chip that is ready was probed once more than it hung; a try is left unless it is ready or
  given up), and `Outcome` for a handler that went on or hung and left its mark.
* `CoreListProofs`: types and every property of the run (`TypeCorrect`,
  `DetailsAreComplete`, `ListsAreComplete`, `NumbersMeanRows`, `PagesAdvance`), for every number of slots, set of names, size of
  entry, limit, change and fault. `ListInvariance` is the invariant behind them: the cursor
  and the pager are in order (`Orderly`), what was sent of each entry so far is what stands
  before the cursor less what is in the buffer (`ListingIsRight`), and a number once shown
  stays with its row (`NumbersStay`). A page is the recursive function `ListOn`; that it
  keeps the invariant is proved slot by slot.
* `LineReaderProofs`: types and every property of the run (`TypeCorrect`, `LinesAreOwn`,
  `DataIsTheHosts`, `DataIsNeverRun`), for every length of line, buffer, chunk and payload.
  The invariant says of each port that the unfinished line in the shared buffer is what its characters
  mean unless something spoiled it (`ReaderRight`), that what waits behind the command of
  a host that did not type ahead is exactly the data it still owes (`Flow`), and that what
  a command has got so far is data (`Gotten`).
* `JtagPortProofs`: types and every property of the run (`TypeCorrect`, `SwitchIsGivenBack`,
  `FilesAreLoaded`, `PortImplements`), for every width of a byte, payload, core file and
  number of idle clocks. Three layers. First the parser: the search finds the first
  signature that ends before the limit, wherever the chunks begin (`WrapperIsFound`), and for
  every sequence of bytes and whatever the sizes of headers and limits the reader finds
  exactly the payload of the format, or none when the file is malformed or too short
  (`CoreIsFound`). Then the pins: what each tick, each helper and each function does to the
  1149.1 controller, the instruction register and the configuration logic (`ShiftsIr`,
  `ByteTicks`, `Programs`, `Looks`), from a controller in any of the states in which a
  command may find it halfway through a stream (`Ready`): in rest, in Shift-DR, or on the
  way from there to its reset, along which a high TMS takes it. Last the interleavings:
  `PortInv` says that a stream nobody disturbed has the port in Shift-DR with exactly the
  bits of the bytes it has given so far (`Undisturbed`), that one that was disturbed has the
  switch only if the operator took it (`Disturbed`), and that TMS is high while he holds it
  (`Taken`), so that the bits that follow are shifted nowhere. Each action then maps to a
  step or a stutter of `Programming` (`StepShown`).

`CoreList`, `LineReader`, `CoreFile` and `JtagPort` compute by recursion over data. The
library's induction theorems take an operator as a parameter and cannot be instantiated with the provers at hand; the
proofs use induction over a *set* of numbers instead: a set that has the first number and
with each the next one, below the last, has them all (`Induction`, from the well-founded
order of the naturals). That the recursive functions exist, and read as they are written
(`ReadsToExists`, `MeantReads`, `ChunkToExists`, `RunToExists`, `RecordedExists`), is proved in the same way.

The assumptions are those the modules name: sizes that are at least one, payloads no
longer than the bound, a chunk of the search that holds a signature, a read of the magic
that reaches the bytes that are looked at, and core files that carry the payload their
format gives them.
TLC evaluates each of them on the instance of its run.

Only model-checked: liveness (`RunEnds`, `BootEnds`, `QueueDrains`, `ComesUp`), which is
out of the prover's reach. The two violations of section 4 are TLC's too.

## 6. Mutants

Each property that a run passes is broken by an operator of the modules marked `Mutant`:
an abort that forgets the handle, a connection dropped instead of closed, counters kept
from the last run, a last line not read, an attempt not counted, a sector not flushed, a
register not cleared, a number not wrapped, a second connection accepted, a failed rename
reported as success; a switch kept after a refusal, chunks that do not overlap, a TAP left
in Shift-DR; a mark without its count, one try too many, a listener kept open, an
initialisation forgotten; an entry dropped between pages, numbers that start again, a
buffer sent twice; a delete before the sync, a grant looked at once, a theme that goes on
over an error; data read from the wrong port.

## 7. Order of the work, and what could follow

The modules were written in the order of their importance: the mirror update and the
boot path, the queue and the web server, then the JTAG port with its abstract
specification, the card's writes, the listings, the network and the lines. What could
follow: a store that maps each path
to a whole upload or nothing as the abstract specification of `HttpServer`; the mirror,
the queue and the server composed over one card, with their temporaries.

## 8. Not modelled

`sd_transport.c` tries buses and clock rates in a row within one call; what makes it right
is the card's timing. `remote_auth.c` parses a configuration file and answers queries on
it; `core_filter.c`, names, headers and manifests are pure parsing; `machine_identity.c`
appears as a setting. What a file handle does after `storage_unmount`, and after its file
was deleted under it, is up to FatFs. The BASIC mode and the commands that only report
reach the same functions as those that are modelled. Formatting of status lines and
pages, GPIO, clock, button and USB tables, `storage_stub.c`, in which every call fails, the
host tools and the web pages are left out. Cryptography is modelled by what it decides.

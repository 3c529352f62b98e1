# Harmony Nixie Tracker: a verification project

TLA+ models of the firmware in `src/firmware/src` (a device that polls
a web page over HTTPS, finds a number in it and shows it on four nixie tubes),
model-checked with TLC and partly proved with TLAPS.

Paths below are relative to `src/firmware/src` unless they start with `src/`.

## 1. The system

The firmware is one cooperative loop (`main.c:31-47`, `app.c:50-89`): every
pass polls each component once, always in the order network, USB, RTC, flash,
HTTPS client, shift register, nixie subsystem, command task. Nothing preempts
the loop except interrupts: those of the drivers, and the events of the USB
device layer, which write the very state the USB poll works on. So the
interleavings that matter are those of *state machines*: each poll does one
step, a job takes hundreds of passes, and between two polls of one component all
the others, the network stack, the buses, the clock and the user at the console
have moved; in the SPI driver and in the USB device they move between two
statements.

| component | state it keeps | operations | talks to |
|---|---|---|---|
| Shift register driver `app_shift_register.c` | position in a transfer (byte, bit, counter), payload | `SendData`, `SetEnabled`, `IsBusy`, `Tasks` | pins of six chained registers; called by nixie subsystem and console |
| HTTPS client `app_https_client.c` | 13-state machine, one request, callbacks, socket, address family | `Request`, `IsBusy`, `Tasks` | DNS, sockets and TLS of the stack; calls back nixie subsystem and fetch command |
| Nixie subsystem `app_nixie.c` | 10-state machine, periodic schedule, cyclic buffer, display value, pointers into a command's storage | `Display`, `Fetch`, `PeriodicTasksSetEnabled`, `IsBusy`, `Tasks`, three callbacks | HTTPS client, shift register, network |
| Command task `app_command_task.c` | the one command in progress | `Schedule`, `Tasks` | every component a command needs |
| Display commands `app_command_{nixie,fetch,shift_register}.c` | a shared union of arguments and results | console handlers, invoke and update callbacks | the above |
| RTC driver `rtc_mcp7940n.c`, command `app_command_rtc.c` | state, follow-up task, two unions | eleven requests, `Tasks` | I2C bus, MCP7940N chip |
| Flash disk `app_flash.c` | 6-state machine | `Tasks`, `IsBusy` | file system, flash command |
| Network bring-up `app_network.c` | 5-state machine, reconnect counter, which interfaces were up | `Tasks`, PHY control, `hasUsableInterface` | TCP/IP stack, WiFi |
| USB HID `app_usb_hid*.c` | state, configured flag, transfer handles | `Tasks`, device events | USB device layer |
| TLS provider `net_pres_enc_glue.c` | context, initialised flag, a count of users | open, connect, read, write, close of a session | presentation layer above, wolfSSL and the transport below |
| SPI driver `framework/driver/spi/dynamic` | a queue, the job in hand, what is left to send and to receive, the rate set last | add a job, the handler (polled or interrupt) | serial flash, WiFi module, the FIFOs of the peripheral |
| Start-up `main.c`, `system_init.c`, clock, device control and ports services | a pin, a divisor, wait states, which modules are initialised | `SYS_Initialize` | everything |
| Power, PHY, NTP, WiFi, debug commands | none, or a pin | console handlers | a pin or a library |
| URL parser, string helpers `util_*.c`, `gcc/memmem.c` | none | pure functions | HTTPS client, nixie parser |

What makes each of them hard, and what it has to get right:

- **Shift register.** A transfer is hundreds of polls long; every edge must
  happen exactly once, byte boundaries and pauses included, and the tubes must
  stay dark until the whole image has been latched. `SendData` does not look
  whether a transfer is running, so correctness also rests on all callers.
- **HTTPS client.** Asynchronous stack, seven kinds of failure, a server that
  goes away at any time, callbacks that are stored for longer than a request
  lasts. Every accepted request has to be answered exactly once, to the right
  user, after its last byte; sockets have to come back; https must not go out in
  clear text.
- **Nixie subsystem.** Shares the client with a command and the registers with
  another; schedules a retry depending on a flag that has to survive many
  passes; writes results through pointers into a command's memory. Its parser
  has to find a token that TCP may cut anywhere, with a bounded buffer.
- **Command task.** Keeps all other commands out until the one it holds has
  ended, so each resource has to become free again.
- **RTC.** Chains of two transfers with a follow-up task in between, an error
  after any number of bytes, read-modify-write of registers the chip itself
  changes, and unions whose bytes mean different things to different requests.
- **Flash disk.** Formats a blank medium by itself, and must never take one for
  blank that only failed to answer; has to settle whatever fails.
- **USB device.** A read request that is lost is never renewed: the device would
  be there and never hear anything again.
- **Network bring-up.** State falls through to the next state in one poll, a
  WiFi module is reset under it, interfaces come and go, and DHCP and DNS have to
  run on all that are up.
- **TLS provider.** Set-up in several steps that may fail, counted users of one
  library, bytes the library has decrypted and the transport knows nothing of.
- **SPI driver.** The hardware receives a byte for every byte sent whether or not
  there is room, its interrupts come with levels of a FIFO, and clients of
  different rates take turns.
- **URL parser.** Lengths that are counted with an offset, buffers shorter than
  what may come, arrays that still hold the request before.
- **Start-up.** A score of modules in an order written by hand, interrupts that
  must not come before their drivers, and a pin that switches high voltage.

## 2. The modules

| module | models | kind |
|---|---|---|
| `DisplayLatch` | what the shift register component promises: a job appears whole, behind dark outputs | abstract specification |
| `ShiftRegister` | the driver at the level of pin edges, with the chain of registers it drives; implements `DisplayLatch` | detailed |
| `HttpsClient` | the client with its stack and server, for any set of users | detailed |
| `NixieTracker` | the loop: nixie subsystem, command task and display commands, composed with `HttpsClient` (INSTANCE, two users) and `DisplayLatch` (in place of `ShiftRegister`) | composition |
| `TlsGlue` | the TLS provider between presentation layer and wolfSSL | component |
| `NixieParser` | fragments of a page to a display value, byte by byte | component |
| `NixieDisplay` | display value to glowing cathodes, with the real wiring | component |
| `UrlParser` | the text of a request to the parts of its URL, in the memory the client keeps them in | component |
| `WifiSecurity` | the `iwsecurity` command | component |
| `TextPaths` | the four above side by side, for one run | composition |
| `RealTimeClock` | driver, chip, bus and `rtc` command | component |
| `NetworkSetup` | the bring-up and the following of the interfaces, with a WiFi module that fails | component |
| `SpiDriver` | queue, handler and hardware of an SPI instance | component |
| `StartUp` | reset to main loop, with the pins and the interrupts | component |
| `FlashDisk` | the flash as a disk, with failures and cuts of the power | component |
| `UsbHid` | the USB poll, split where an event may come between | component |
| `Platform` | `StartUp`, then `FlashDisk`, `UsbHid`, the command task and the commands of flash, power, PHY, NTP and debug | composition |
| `ShiftRegisterProofs`, `HttpsClientProofs`, `NixieTrackerProofs`, `SpiDriverProofs`, `RealTimeClockProofs`, `PlatformProofs`, `TextPathsProofs` | theorems about the module of that name | proofs |
| `ConnectionProofs` | theorems about `TlsGlue` and about `NetworkSetup`, whose `NetInit`, `NetNext` and `NetSpec` are named apart so that one module can extend both | proofs |
| `MC*` | constants for TLC (`TlsGlue` needs none: `MCTlsGlue.cfg` checks it directly) | model checking |

The value pipeline is split where data ends and control begins: `NixieTracker`
treats a value as an atom and keeps all control; `NixieParser` and
`NixieDisplay` follow the same functions of `app_nixie.c` through the bytes. In
the same way `HttpsClient` takes the URL as a record of what the code tells
apart and the TLS session as something that opens, fails or reads, and
`UrlParser` and `TlsGlue` are what happens inside.

### How state and actions correspond to the code

Variables carry the names of the struct fields, actions those of the C
functions. Guards are the functions' early returns; a poll that returns without
doing anything is a stuttering step (`NothingToDo`, `NixieWaits`,
`CommandWaits` where a module makes the turn of the loop explicit). Variables
marked *history* record the past for properties only, and *external* ones belong
to hardware, the stack, the server or the user.

- `ShiftRegister`: one action per branch of `transmitStep` (rise, fall, next
  byte, end), one per other function. The pin macros are composed with the
  inverter between controller and chain, so that a level is the one the
  registers see. The guard on `SendData` is that of its callers, which
  `NixieTracker` checks and proves (`ShiftRegisterProtocol`) of the unguarded
  function.
- `HttpsClient`: `APP_HTTPS_Client_Tasks(event)` is a poll, and `event` the
  callback it invokes, so that `NixieTracker` conjoins the callback's body to
  the very step that calls it. `faults` is chosen at the start: a behaviour in
  which `"hangup"` is absent is one in which the server never goes away early,
  and properties name the faults under which they are not claimed.
- `NixieTracker`: `phase` is the turn of the loop. In phase `"sys"` the outside
  moves (stack, server, clock, console) any number of times. The union of the
  nixie command is one variable, `nixie_private`, with the meaning its bytes
  have; reading it as something else gives `Garbled`. Transfers of the register
  take any number of polls, as `DisplayLatch` allows.
- `TlsGlue`: one action per function of the provider. The layer opens a session
  only with a provider that says it is initialised, and asks before it reads.
- `NixieParser`: C pointers into the buffer are prefixes and suffixes of
  sequences; the page is whatever the fragments add up to.
- `UrlParser`: `request_url` is the whole array with what earlier, longer
  requests have left behind the terminating zero, since a length one too long
  reads it. A buffer that is not written keeps the part of an earlier URL. A
  name of a scheme counts as one character.
- `RealTimeClock`: a byte is the set of its one-bits, the two unions are arrays
  of bytes, a transfer is moved at any time between two polls, wholly or, with
  an error, for a few bytes only. The chip's clock (`ClockTicks`, external)
  carries seconds into minutes, hours and the calendar; how many days a month has
  is left open, its mode of twelve hours is left out. Two histories follow it:
  `advanced`, the fields it has changed since the command was typed, and `kept`,
  those of the date set last that it has not. What the console shows is compared
  with the chip only where the clock did not move on.
- `NetworkSetup`: a poll is one action, with the `switch` that falls through as
  a composition of what its states do; the stack is polled by the same loop, so
  interfaces only change between two polls. The histories `failures` and `resets`
  count the polls of an outage that failed and those that reset the module
  (`Outage`). They look at the status the poll found, never at the code's own
  counter, which `ResetsAreCounted` is there to judge.
- `SpiDriver`: a call of the handler is split where it looks at the FIFOs (`at`),
  and the hardware shifts a byte between any two of these steps. Both instances
  of the board (polled for flash and WiFi on one, interrupt for the other) are
  the two initial values of `config`. Bytes are counted, not carried.
- `UsbHid`: `at` is the statement a poll has reached; an event of the device
  layer (`DeviceReset`, `DeviceConfigured`, `ReportReceived`, ...) is an interrupt
  and may come at every one of them.
- `StartUp`: `step` is the next statement of `SYS_Initialize` and `main`. Latches
  hold anything after a reset. The frequency of the hardware comes from the
  configuration bits, that of the services from `system_config.h`.
- `Platform`: `Loop(A)` lets the components move only once `main` has reached its
  loop; `PowerCycle` may come at any moment and keeps nothing but the medium.

## 3. The runs

| run | distinct states | shows |
|---|---|---|
| `shift_register` | 4 thousand | pin discipline, `DisplayLatch` implemented (nothing lost or doubled, dark while changing), jobs end |
| `https_client` | 17 thousand | callbacks reach who waits, sockets return, no clear text, every answerable request is answered |
| `https_client_hangup` | violation | a server that goes away while the client waits for the connection keeps it waiting for ever |
| `tls_session` | 365 | a session has its library, nothing decrypted is left unread, handshakes end |
| `nixie_tracker` | 4.2 million | the whole loop: transfers undisturbed, owners wait, values go to who asked, failed refreshes are retried soon |
| `nixie_tracker_live` | 88 thousand | accepted commands end, values reach the tubes, refreshes never cease |
| `text_paths` | 4.2 million | whatever the fragments, the value after the first token is found and shown by the right cathodes; the parts of a URL are the ones asked for, and never those of an earlier request |
| `real_time_clock` | 860 thousand | transfers do not overlap, commands write only their own bits and take effect, commands end |
| `real_time_clock_stale` | violation | after an error, a command that reads a register may write the chip |
| `network` | 6 thousand | the WiFi interface is known before it is used, interfaces that are up have DHCP and DNS, every outage resets the module at its first failed polls and no more |
| `platform` | 207 thousand | from any reset: no high voltage unasked, interrupts find their drivers, USB reads are never lost, files only fall to a format command, boot and commands end |
| `spi_driver` | 39 thousand | no byte is lost, jobs run at the rate and between the select lines of their client, every job ends |

Every property of a passing run has a mutant: a definition of the model changed
as a plausible bug would change it (a dropped guard, a flag not cleared, a
socket not closed), under which TLC finds that property violated.

Some properties are conjunctions: `ValueIsFound` says that a value is on the
page right after the token, that no token is missed and that the value is put
to the right of the display; the parts (`ParsedIsOnPage`, `TokenIsNotMissed`,
`DisplayIsRightAligned`) are in `NixieParser`.

### Bounds, and why they are enough

- `shift_register`: two registers in place of six give one byte boundary with a
  pause and one end, the only places where a step differs; payloads tell apart
  byte order, bit order, repetition and loss. The proofs hold for any number.
- `https_client`: two users (a callback to the wrong one is visible), a URL for
  every path, two sockets (a leak exhausts them with the third request), two
  unread buffers, faults singly and all at once. `IpModeConfig` includes IPv6,
  which the code can express but `Initialize` never sets.
- `tls_session`: two messages of the handshake (one that is not the last),
  records of two bytes (one that is read in part), two records in the transport.
  The proofs hold for any numbers.
- `nixie_tracker`: one value of the page, one typed, plus `Zeros` and `Garbled`,
  so that every value on the tubes tells where it comes from; one socket and one
  buffer, since more are checked with the client alone; clock ticks of some
  seconds with intervals of 1 and 2 in place of 5 s and 30 s: only their order
  matters. All commands, network usable or not, no faults or three at once.
  The proofs hold for all constants.
- `nixie_tracker_live`: the two commands that wait for something, one fault at a
  time, so that the graph stays small enough for the liveness check: no socket, or
  a page without the value. A server that hangs up early and TLS that refuses to
  start are in the runs of the client alone.
- `text_paths`, pages: a token with a proper border (`aba`), two tubes, pages of
  up to 11 bytes, one more than the cyclic buffer takes, fragments of 1, 2 and 6
  bytes; other lengths lead to no state these do not.
- `text_paths`, display: the real wiring; all pairs of digits on neighbouring
  tubes in any order, arguments of one to five characters around `'0'` and `'9'`.
- `text_paths`, URLs: buffers of 21, 4 and 8 in place of 128, 32 and 64, so that
  a host and a path exceed theirs and a URL its array; every part alone, all
  together, a query or a fragment behind no path, and the texts without colon or
  slashes, in any order of requests.
- `text_paths`, keys: every length at which a mode begins or ends to take one.
- `real_time_clock`: three commands in a row (one to leave something behind, one
  to trip over it, one to show it), two dates the code can represent and one it
  cannot, errors after 0 or 4 bytes. The clock ticks at the end of a minute, at
  which one date is about to carry into the hours, one into the day, and the chip
  at power on into the year. Longer histories follow by power cycles.
- `network`: the two interfaces of the board, and a stack without WiFi; two
  retries to the limit and two more to the wrap of the counter (`RetryWrap` = 4 in
  place of 2^32), which leaves room on both sides; a DHCP wait of two ticks; one
  address or none. After as many failed polls as the counter can hold, the history
  of an outage begins again, as the code does. The proofs hold for any interfaces
  and any such numbers.
- `platform`: the queue of the USB device as configured (2), which is the least
  assumed; all commands; one idle rate, which decides nothing. Everything else is finite as it is.
- `spi_driver`: a FIFO of 4 with its mark at 2 in place of 16 and 8, jobs below
  the mark, of the size of the FIFO, one over and more than twice, two rates, two
  jobs queued behind the one running. The proofs hold for any of these.

Deadlock is checked wherever the system never stops. It is off in the two runs
of the client alone, where a client nobody asks anything, or one that waits for
ever for a server that went away, rightly has no step.

### Fairness

`main` gets to its loop and the loop polls for ever (`while (true)`), so each
poll is weakly fair. The stack, the server and the bus answer *eventually*:
lookups, connects and handshakes have an end as long as the server does not go
away (the code has no time-out of its own, which is what `https_client_hangup`
shows), a transfer ends or fails. Nothing forces the user to type, a server to
send another buffer, a host to plug anything in, or a fault to happen.

- `NixieTracker`: the outside acts in one phase of the pass only and the phase
  comes and goes, so its fairness is strong; `SF` on the transfer says that a
  transfer which is polled again and again advances.
- `TlsGlue`: the layer polls a session that negotiates, a server that is there
  answers, and a full transport drains.
- `SpiDriver`: the handler is called as long as it has something to do: by the
  loop for the instance of the WiFi driver, by an interrupt that is pending for
  the other. The hardware shifts what is in its FIFO.
- `Platform`: the loop, the driver of the flash getting ready, and the mount of
  a disk that has been found. Nobody has to cut the power or to stop cutting it:
  `FlashSettles` is about each stretch between two cuts.
- `NetworkSetup` and `TextPaths` state no liveness: whether a WiFi module ever
  connects is not the code's to promise, and a page or a URL is handled at once.

## 4. What is proved

Machine-checked by TLAPS for every value of the constants, from the assumptions
the modules name (`ShiftRegisterAssumption`, `HttpsClientAssumption`,
`NixieTrackerAssumption`, `ServerUrlAssumption`, `TlsAssumption`, `SpiAssumption`,
`RtcAssumption`, `NetworkAssumption`, `PlatformAssumption`, `TextPathsAssumption`),
which TLC evaluates on every run. With them every safety invariant a run checks
is a theorem.

**`ShiftRegisterProofs`**: `TypeCorrect`, `PrefixCorrect`, `LatchCorrect`,
`DarkChange`, `Refinement` (the driver implements `DisplayLatch`) and
`SetupAndHold` (`PinDiscipline`, the order of the edges), for any
number of registers and any payloads. The invariant `IInv` adds to the type
invariant and the prefix property the position of a transfer (`Position`: which
counter values and pin levels go with which state) and `Latched`. Without the
pin levels a rising edge could not be told from a repeated one; the arithmetic
of the bit stream is the lemma `NextBit`, the shift itself `ShiftAppends`.

**`HttpsClientProofs`**: `TypeCorrect` (in particular no socket is closed twice),
`CallbackOwnership`, `HandledIsLast`, `HandledIsWhole`, `IdleIsSettled`,
`SocketsReturned`, `TlsOrNothing`, `AddressFamily`, `OnlyBadUrls`, for any users,
URLs, pool and every set of faults. `IInv` says who is owed an outcome in which
state (`Owed`), that a connection has a socket (`HasSocket`, needed for closing),
that during a connection the reset flag is about this connection (`FlagIsFresh`,
the reason the code reads the flag once when it opens), and that a closed
connection was served (`ServedFirst`). `OnlyBadUrls` says that without faults
nothing but a URL that cannot be parsed ends in an error; it is inductive with
what each state finds then (`GoesWell`), and is what the next module needs.

**`NixieTrackerProofs`**: the composition. `ClientImplemented` shows that every
step of the application is a step of `HttpsClient` or leaves it alone, which
carries the client's invariant over (`Client!NextStep`). On top of it
`OwnersWait`, `NobodyWaitsInVain`, `FailedRefreshSoon`, `RegisterProtocol` and
`TypeCorrect`. Neither side's invariant is inductive alone: that an error
callback finds the nixie subsystem waiting takes the client's `Owed`; that the
retry flag is the right one (`RefreshIsMarked`) takes that callback to come only
then. `RegisterProtocol` discharges the guard `ShiftRegister` assumes.
`FetchedForRequester` and `DisplayedAsGiven` are about behaviours without faults:
the pointers a console fetch leaves behind are reset where a value is delivered
and nowhere else, so it takes the whole way of a request to show that each fetch
ends there (`Untroubled`: the client's `GoesWell`, `NoFailure`, and that pointers
into the union of the command are set exactly while its fetch runs,
`PointersAreLive`). It holds because the URL of the tracker is a literal that
can be parsed (`app_nixie.c:565`, `ServerUrlAssumption`).

**`ConnectionProofs`**, the TLS provider: `TlsTypeCorrect`, `SessionLives` (a
session has a context and the library) and `NothingLeft` (what is decrypted is
offered before the layer is told that there is nothing), for any handshake, any
size of a record and any transport. `SessionHasLibrary` ties the count of users
to the flag, the context and the library at once, since an initialisation may
fail between any two of them; `ReadyIsThere` says that what the layer was told it
may read is still there. The network: `NetTypeCorrect`, `WifiKnown`, `Served`,
`ResetsCounted`, for any interfaces, addresses, limits and stacks with or without
WiFi. The three properties and the type invariant are inductive with what either
kind of stack excludes: with WiFi, no poll ever leaves the bring-up where the
modules are to be enabled, since the states fall through (`WithWifi`); without,
the driver never opens and its configuration is never waited for (`WithoutWifi`),
so that the null handle is not followed. That the resets belong to the present
outage rests on `RetriesAreFailures`: the code's counter is the number of failed
polls since the connection was last found successful.

**`SpiDriverProofs`**: `TypeCorrect`, `NothingLost` and `BusAsAsked`, for any FIFO,
mark, queue and jobs. `NothingIsLost` counts (what is in the FIFOs and in the
shift register is `symbolsInProgress`, what is left to receive is that and what is
left to send) and is inductive with `HasJob` (where the handler may be without a
job), `JobRuns` and the modes of the clock.

**`RealTimeClockProofs`**: `TypeCorrect`, `NoOverlap`, `OwnWrites` and `Effective` (a
command that ends well has done what it says), for any contents of the chip, any
dates, arguments and errors of the bus. The first half is about bytes: a byte is
the set of its bits, and reading the bits of a number, or its two decimals, gives
it back (`task_datetime_convertFromBCD` undoes the conversion), so that a date
whose fields fit their masks comes back. The second half follows a command
through its transfers. `IInv` ties what is on the bus to what the command has in
hand: which task waits for which transfer, that a flag is written back as it was
read with one bit changed (while the clock may move on in between), and that the
bytes written so far, when a transfer breaks off, are only its own registers.
Registers are compared with what the command holds only in the fields not in
`advanced`, and the date set last in those `kept`; the two are disjoint
(`KeptIsOld`), and a tick carries up to one last field and touches none behind
it (`Ticked`). An
attempt at this proof failed on `EndCommand`, where two arms of the model's CASE
overlapped; they are disjoint now.

**`PlatformProofs`**: `TypeCorrect`, `HandlersReady`, `NoVoltageUnasked`, `UsbHears`
and `FilesSafe`, for any idle rates, any choice of commands and a queue of two reads
or more. With a queue of one the device would be deaf, which TLC confirms: a read
placed by a poll that a reset hit may still be pending when the main task asks for
its own. Of the start, what has been done follows from the statement that is next
(`StartInv`): the initialised modules are those before it. Of the flash, formatting
is only reached with a blank medium (`FlashInv`). Of the USB device, two reads are
pending only in the main task with no report to take, and a poll about to place one
finds at most one (`UsbReads`); what the host has done and what the flags say go
together (`UsbBus`).

**`TextPathsProofs`**: the text functions, for any alphabet, token, page and
fragments, any buffers and URLs.

- *The page* (`BufferIsTail`, `ValueFound`). Strings are compared as pieces of each
  other at a position (`Piece`). Until the value is parsed the cyclic buffer is the
  end of what was received, and it lacks nothing a token could still need
  (`NoneYet`), or begins with the first token (`Started`); what is parsed is then
  the value behind that token (`Found`). That a token split between two fragments
  is found takes the buffer to keep as many bytes as a token has, less one.
- *The tubes* (`TubesShow`). The wiring table sends every cathode of every tube to a
  wire of its own: `Place` inverts it (`WirePlaces`, `NoSharedWire`), so that the
  bits `encodeShiftRegister` sets are exactly the cathodes asked for (`Lit`,
  `EncodedIsLit`).
- *The URL* (`NothingEarlier`, `PartsFound`). `There(s, i, len)` is the one fact the
  proofs hand down: from position `i` on the array holds `s`, and the length is
  exact, or too large with the text ending there, which is why the lengths that
  are off by a few do no harm. It is split where a mark is found (`Parted`,
  `Behind`) and ends in a copy of the part (`CopyOfPart`). `PartsFound` assumes of
  a URL what makes its parts distinguishable at all (`WellFormed`: no part has a
  character that ends it, the port is a number of 16 bits), and of the buffers
  that the name of a scheme fits.

Some of these need induction over data. The library's induction theorems take
operators as parameters and cannot be used, but its least-element principle
takes a set: where a property fails there is a least place at which it does, and
the place before it gives the contradiction (`LeastElement`, `GreatestElement`).
So the first occurrence of a token is found, and the sums `atoi` and `NumberOf`
make of the same digits agree (`SumsAgree`).

A theorem whose property no run lists (the `TypeCorrect`s, `PrefixCorrect`,
`LatchCorrect`, `DarkChange`, `HandledIsWhole`, `IdleIsSettled`, `AddressFamily`,
`OnlyBadUrls`, `NobodyWaitsInVain`) states what a listed one rests on or implies;
`ClientImplemented` is the refinement the composition rests on.

**Only model-checked.** Liveness and everything under fairness, which with
`ENABLED` is out of the prover's reach: `JobEnds`, `RequestAnswered`,
`HandshakeEnds`, `EveryJobEnds`, `CommandsEnd`, `FlashSettles`, `ReachesTubes`,
`KeepsRefreshing` and the `CommandEnds` of `NixieTracker` and `Platform`. Of
`WifiSecurity` nothing is stated.

## 5. Findings

Two disagreements between the code and what it says have a run of their own:

1. *A server that goes away early hangs the client* (`app_https_client.c:327`,
   and the same in `sendRequest`): neither place looks for a reset or a time-out,
   and no callback ever comes (`https_client_hangup`).
2. *A follow-up task survives an error* (`rtc_mcp7940n.c:322`) and runs after
   the next register command (`real_time_clock_stale`).

Seen while modelling. Where they concern control they are in the models, and the
properties named exclude exactly these cases:

- **HTTPS client and TLS.** When TLS refuses to start, the request is dropped
  without a callback (335): its user waits for ever. A short write goes to the
  error state without closing the socket, which is lost (388-392). An aborted
  response is reported as handled (401, with a TODO). The IPv4 fall-back of a
  failed IPv6 lookup goes on polling for IPv6 (261), dead code since `Initialize`
  fixes IPv4 (437). `RequestAnswered`, `NoSocketLeak`, `IdleOwesNothing`,
  `WaitersAreOwed` and `HandledMeansServed` exclude them. The provider maps errors
  of a read to "nothing read", and its receive callback reports a dead transport
  as a reason to wait, so that a handshake cut off by the server need not end
  (`net_pres_enc_glue.c:80`); `HandshakeEnds` is about a server that stays.
- **URLs.** An authority of fewer than three characters is taken for a path, and
  the host stays that of the request before; a URL without `//` loses the last
  two characters of its path; an empty port gives 0, an unknown scheme keeps the
  port before; what is too long for its buffer is cut without a word; a host in
  brackets is split at its first colon. `PartsAreTheOnesAskedFor` and
  `NothingFromEarlierRequests` are about the other URLs. With a query or a fragment
  but no path the code leaves the path empty, where a test expects `/`
  (`util_url_test.cc:126-131`); the run has such URLs, and the property claims every
  part of them but the path.
- **Nixie.** The pointers of a failed `nixie fetch` into the command's union are
  only reset where a value is delivered (299-301), so that a later refresh
  overwrites what a waiting `nixie display` has put there; `DisplayValueKept`
  is about behaviours without a fault. A page without the value leaves the
  subsystem idle only between the client's poll and its own; with the next
  refresh due by then, a display command never finds it free (238); `CommandEnds` excludes such pages. A number
  shorter than the display darkens tubes: the reversed copy begins with zero
  bytes, where `strncpy` stops (654). `nixies[0]` is documented as the least significant digit
  (`app_nixie.h:110`), but the wiring table is used with tube 0 on the left
  (346-391); all tubes are of one type, so nothing shows. The assertion
  `bit <= 8` is one too wide (386); the zeroing loop of `parseValueFromBuffer`
  would index below 0 with fewer than four tubes (101-104).
- **Shift register.** Disabled outputs are lit again by the next transfer
  (`app_shift_register.c:133`). `app_shift_register.h:81` says the least
  significant bit of `data[0]` comes first; the code sends the most significant
  one (118).
- **RTC.** Months are kept from 0 under a four-bit decimal mask, so November and
  December read back wrong (260-284); years from 2160 overflow the decade;
  hour 24 is accepted; `day_of_week` is documented as ignored
  (`rtc_mcp7940n.h:277`) and written, so that `CommandsTakeEffect` claims nothing
  of what is shown of it; errors are reported to the user as stale
  values; a tick between reading and writing back the seconds is lost
  (192-211). `Representable` and `Own` name these limits. The chip's months and
  days of the week begin with 1: with months from 0, the chip takes every month
  for the one before.
- **Flash.** A flash in its error state counts as busy (`app_flash.c:171`): a
  flash command, which is what could format it, waits for ever and blocks the
  console. `CommandEnds` of `Platform` excludes it. A user's format that fails
  leaves an idle flash with a blank disk.
- **USB.** A reset that hits the very poll that enters the main task, with the
  configuration before the next poll, is overwritten by it
  (`app_usb_hid_utils.c:118-126` against `app_usb_hid.c:72-76`): the device is
  configured and deaf. `UsbListens` excludes it (`interrupted`).
- **Network.** `APP_Network_PHY_Up` drives the pin like `Down` (241). The error
  state of a stack is overwritten by the fall-through when the WiFi driver is
  open (208-216). Ethernet waits for the WiFi module. `TCPIP_STACK_NetUp` is not
  asked whether it succeeded (`app_network_utils.c:159`), so that WiFi may keep
  the bring-up waiting. After a reset of the WiFi module its services are started
  on interfaces that are down, too. The retry counter wraps after 2^32 polls and
  resets the module again; `WIFI_DHCP_WAIT_THRESHOLD` is documented in seconds and
  counts half seconds; a reconnection with the same address reports a failure to
  get one. The power save is compiled out.
- **Console.** `iwsecurity` with a PIN takes the text of the word behind it
  (`app_command_wifi.c:149`), which is of an earlier line; `ntp` and `iwsecurity`
  do not look whether a command is running.
- **SPI and services.** `rxEnabled` and `txEnabled` are written and never read; the
  table of functions is chosen with constants of another enumeration, of equal
  values. From the first moment of the start the outputs of the registers are
  enabled (`SYS_PORT_E_LAT` through the inverter), and only the high voltage being
  off keeps the tubes dark. `SYS_CLK_SystemFrequencySet`, never called here,
  overwrites the closest frequency with 0 after a failure, and leaves the system
  registers unlocked when the PLL does not lock.
- `AppData` is an uninitialised automatic of `main`; what no `Initialize` sets
  (`idle_rate` of the USB device) may be anything in the models.

## 6. What is not modelled, and why

- Tables of drivers, of the TCP/IP stack and of the file system in
  `system_config/**` are data for libraries outside the repository; of the clock,
  device control and port services only what the start calls. Changing the
  frequency, power modes and single pins are never called in this build.
- The Harmony libraries, wolfSSL, the FAT file system and the chips are external:
  modelled from how the code uses them.
- Text: greetings, help, the rendering of dates and numbers; sizes of the buffers
  text is printed through.
- `WifiSecurity` is explored in `text_paths` without a property of its own: what
  it would state is the command's own list of lengths.
- `src/software/source/firmware_tests` are unit tests on the host of functions the
  modules model; `src/software/external/**` is vendored.

## 7. Where this could go on

- An abstract client (one request, one outcome) that `HttpsClient` implements,
  and an abstract display (the tubes follow the last accepted value) that
  `NixieTracker` implements.
- The invariants the abstract client and display would need, as theorems beside
  those of section 4.
- The composition of `TlsGlue` into `HttpsClient`, whose external TLS session it
  would replace as `DisplayLatch` stands for `ShiftRegister`.

# Verification of the Ruuvi nRF91 gateway firmware

TLA+ modules, TLC configurations and TLAPS proofs for the program under
`src/src/`: an nRF9160 application on Zephyr that receives Bluetooth
advertisement reports from an nRF52 over a serial line, keeps the latest report
of each tag in a table, and posts the table to a server over LTE, with GPS
position and signal strength.

Paths below are those of the source repository with `src/` in front, as in
`PROJECT.json`; `adv_post.c:239` stands for line 239 of
`src/src/adv_post/adv_post.c`, and likewise for the other components.

## 1. The system

### Threads and priorities

| context | runs | priority |
|---|---|---|
| UART interrupt | `uart_fifo_callback`, and in it `rx_parse_task`, `re_ca_uart_decode`, `adv_put_to_table`, `get_ts` | above every thread, runs to completion |
| system work queue | `primary_feed_worker`, the GPS driver's stop and timeout works and, through them, `gps_handler` | cooperative |
| application work queue (`application_work_q`) | `secondary_feed_worker`, GPS start and stop works, `rsrp_work` | cooperative, equal to the system queue |
| main thread | start-up, then the loop of `main.c:458` | below the work queues |
| GPS driver thread, modem library threads | `gps_handler` for `SEARCH_STARTED` and `PVT_FIX`, RSRP callback | the GPS thread's is below main |

No component owns a thread of its own; all state is file-scope variables.

### Components

For each: the state it keeps, its operations, who calls it, what is hard, and
what makes it correct.

**Advertisement table** (`adv_post.c`).
State: `adv_reports` (up to `MAX_ADVS_TABLE` entries and `num_of_advs`),
`adv_reports_buf` (the copy that is posted), `adv_table_mux`, `gw_metrics`.
Operations: `adv_put_to_table` (UART interrupt), `adv_post` (main loop), and
`update_imei_data`, `update_position_data`, `update_nrf_mac`.
Hard: the interrupt preempts the copy, a *thread* mutex is locked in an
interrupt, the table fills, an old entry's content survives a clear.
Correct when: the table holds the latest report of each tag, whole; every
report is posted at most once and in order; a report that waits is posted.

**Watchdog feeding** (`watchdog.c`).
State: the hardware watchdog, two work items.
Operations: `watchdog_init_and_start`, `primary_feed_worker` (system queue),
`secondary_feed_worker` (application queue).
Hard: the chain renews itself only from its last step; every step can fail; a
queue can hang.
Correct when: no wait in the queues resets a healthy device, and any hung queue
or failed feed does.

**Serial link** (`uart_controller.c`, `api.c`).
State: `terminal.rx_buffer`, `rx_i`, `cmd_sent`, `cmd_sent_t`.
Operations: `uart_fifo_callback`, `rx_parse_task`, `uart_driver_write`,
`uart_init`; `api_send_get_device_id` is the only command that has a caller.
Hard: binary data with an end byte, lost bytes, a five-second window in which
only answers are taken, a flag and a time stamp set at different moments.
Correct when: the receiver finds the next packet again after any fault, and a
command blocks the reports no longer than its window.

**HTTP client** (`http_controller.c`).
State: `fd`, `res`, `send_buf`, the modem's sockets, the two heaps.
Operations: `http_send_online`, `http_send_advs`, and inside them `open_socket`,
`https_post` or `http_post`, `close_socket`.
Hard: each of several calls can fail after others succeeded; `send` can accept
a part; heaps and sockets are finite and nothing tells when they run out.
Correct when: every path releases what it took, once; what is counted as sent
was sent; posting goes on after any failure.

**GPS** (`gps_controller.c` and the SDK's driver).
State: `gps_is_active`, `gps_is_enabled`, two delayed works, and in `main.c`
the atomics and `gps_last_update_time`.
Operations: `gps_control_start`, `gps_control_stop`, their works, `gps_handler`.
Hard: events from two threads while a start is under way, a start or stop that
fails, time stamps taken before the clock is moved.
Correct when: a search that ends lets the main loop post again, and GPS is
started when its interval is over and not before.

**Clock** (`time_handler.c`).
State: `epoch`, `epoch_tk`. Operations: `update_ts_modem`, `update_ts_gps`,
`get_ts`. Hard: a 32-bit uptime that wraps after 49.7 days; two variables
written by a thread while the interrupt reads both.
Correct when: time neither jumps nor falls back.

**RSRP** (`main.c`). State: `rsrp` value, delayed work `rsrp_work`. Operations:
`modem_rsrp_handler`, `modem_rsrp_data_print`. Hard: a work that submits itself
and is submitted by a callback.

**Main loop and start-up** (`main.c`). Alternates GPS and posting; starts every
component in order; `error_handler` reboots.

**LEDs** (`led_controller.c`): output pins; no state another part reads.

**Codec** (`ruuvi.endpoints.c`): a submodule whose directory is empty here. What
the code relies on is that `re_ca_uart_decode` accepts whole frames only.

**Build output and configuration** (`SES`, `CONFIGS`, `Kconfig`): generated
listings and settings, read for the constants and for what the kernel and the
modem library do; not part of the program.

### How they meet

    nRF52 --bytes--> uart_fifo_callback --report--> adv_put_to_table
                          |  (interrupt)                  | table, mutex
    main: uart_driver_write (cmd_sent, cmd_sent_t)        v
    main: loop --> adv_post --copy, clear--> http_send_advs --> modem
    system queue <--> application queue --> watchdog --reset--> everything
    GPS driver --events--> main's atomics, clock, position --> adv_post

## 2. Modules

| module | models | code |
|---|---|---|
| `AdvStore` | what the table promises the main loop, without table, copy, mutex or threads | abstract |
| `AdvTable` | table, word-wise copy, mutex, scheduling | `adv_post.c` 50-130, 215-260 |
| `AdvTableMC` | bound on reports, liveness property | |
| `AdvTableProofs`, `AdvStoreProofs` | invariants; refinement of `AdvStore` | |
| `Watchdog`, `WatchdogMC`, `WatchdogProofs` | feeding chain | `watchdog.c` |
| `UartLink`, `UartLinkMC`, `UartLinkProofs` | interrupt, decoding, command window, line | `uart_controller.c`, `api.c` |
| `HttpClient`, `HttpClientProofs` | a request for TLS and plain HTTP | `http_controller.c` |
| `GpsControl` | start and stop, `gps_handler`, the loop's choice between GPS and posting | `gps_controller.c`, `main.c` 173-225 and 456-482 |
| `RsrpWork`, `RsrpWorkProofs` | the signal strength beside them; extends `GpsControl` | `main.c` 262-316 |
| `TimeHandler`, `TimeHandlerProofs` | the clock | `time_handler.c` |
| `RuuviNode`, `RuuviNodeProofs` | start-up, loop and resets over the clock; extends `TimeHandler` | `main.c` 93-131, 173-206, 371-482, `gps_controller.c` 142-187 |

### AdvTable

`AdvReport` is `adv_post_send_report` with the whole of `adv_put_to_table`, one
action, as the interrupt runs to completion. A report that could not be decoded is
refused by `parse_adv_report_from_uart` before the table (`UartLink`'s `Stored`). `adv_post` is `Lock`, `CopyWord` (repeated), `Clear`,
`Unlock`, `Post`; the interrupt can come between any two, which is where the
compiled code can be interrupted with an effect. Decisions:

- *The structure assignment* `adv_reports_buf = adv_reports` is a memory copy in
  ascending order: first `num_of_advs`, then two words per entry, enough to
  tell a mixed entry from a whole one. Each word carries the number of the
  report it was written for.
- *The mutex* is Zephyr's, as the code meets it in an interrupt: the "calling
  thread" is the interrupted one, `cur`. If that thread owns it the lock is
  re-entrant; if another does, the interrupted thread is pended although the
  interrupt goes on, and the unlock of a thread that is not the owner is
  refused. The wait queue is a set (all of the work queues' threads have one
  priority). Priority inheritance appears as the guard of `Switch`.
- *Scheduling* is `Switch`: any eligible thread, main only blocked outside the
  critical section. `Idle` stands for whatever runs when main is blocked and no
  work queue has anything to do, so it is never itself pended.
- `kept`, `racing`, `posted` are history variables. They are what `AdvStore`
  has as state, so that the refinement mapping is the identity on them.

`AdvStore` says: a report received outside a hand-over is handed over once,
whole, and only the latest of a tag; a report received *during* one ("racing")
may be handed over, mixed or lost. The second half is not generosity, it is the
strongest promise the code keeps: the `adv_copy` run shows why.

### Watchdog

`InitAndStart` has a disjunct for each point where `watchdog_init_and_start`
can return; `main` ignores the result, so all of them go on. `Tick` is time,
and a delayed work that is due moves to its queue in the same tick. A pending
work waits at most `SysDelay` or `AppDelay` unless the queue hangs (`Hang`),
which is a thread that no longer runs its works for whatever reason, among
them being pended by the table's mutex. `ResetSoc` is `WDT_FLAG_RESET_SOC`.

### UartLink

A frame is the start byte, the length, the command, `PayloadLen` bytes of payload
(the checksum among them) and the end byte 0x0A. Of a byte's value `Value` keeps
what the code tells apart: the start byte, the two commands that matter, 0x0A and
all others; a length or a payload byte can be any of them (`Contents`), so that a
payload can look like a command or like the end of a packet. In the buffer each
byte is tagged with its frame and position; `Val` is its value. `Whole` is what a
checksum over the frame can tell, `Cmd` is whatever byte stands at
`RE_CA_UART_CMD_INDEX`, of whatever frame, and zero in a packet too short for one.

`Receive` is `uart_fifo_callback` for one byte with `rx_parse_task` (`EndOfPacket`,
`Decode`): `Parsed` is the choice by `cmd_sent` and the window, `Reaches` the test of
the start byte and the switch, `Stored` what `parse_adv_report_from_uart` lets pass.
A device id that cannot be decoded is taken, and `mac` becomes zeros. `LoseByte` is
an overrun; `SetCmdSent`, `PollOut`, `TakeTime` are the three statements of
`uart_driver_write` between which the interrupt can come. Frames that are over
are counted, for the properties only: `missed` reports, those with 0x0A (`newlines`),
and whether one of them could mislead the receiver (`suspect`).

### HttpClient

One action per library call with its outcomes, from the JSON text to `free`.
`HTTPS` selects the functions, as the preprocessor does. `net` is "up" or
"down" and stands for every reason the modem's calls fail. `Pool` and `Heap` are
the kernel's heap pool (address lists of `getaddrinfo`) and the C library's
(JSON). `lost` counts the "location" objects `http_send_advs` never attaches or
frees; an empty heap makes `json_str` NULL and `strlen` fault, which the fault
handler answers with a reboot (`Fault`). A message has `MessageLen` units, the
granularity at which `send` may split it. `Send`'s `stream` holds which units of
`send_buf` the modem accepted.

### GpsControl

Four contexts: the application queue (`AppStep`: the works `start` and `stop`,
split where they wait for the modem), the system queue (`SysStep`: the driver's
stop and time-out works, which call `gps_handler`), the driver's thread (`GpsStep`)
and the main loop (`MainStep`). The queues are cooperative, so `MainMayRun` is
the case in which neither has anything to do but wait for the modem, and
`GpsMayRun` the case in which main waits as well; between any two steps of the GPS
thread all others may come in. `gps_handler` for a fix is three actions because
its order matters: the time stamps (`FixStamp`), then the clock is moved and
`gps_is_active` cleared (`FixClock`), then the stop is submitted (`FixStop`).

Time is in minutes, as the two intervals are: `sinceActive` and `sinceUpdate` are
what `get_ts() - gps_last_...` yields, up to `MaxAge`, where larger values make no
difference to the loop. `skew` is how far the clock is behind until the first
fix sets it, if the modem gave no time; a clock that is ahead is `RuuviNode`'s.
`Minute` is taken only when all works are done, since they take seconds.

The driver is not in this repository. What is modelled of it (`active`, `timer`,
`stopped`, `sem`, `gpsPc`) was read from the compiled listing
`SES/LTE_DEBUG/zephyr/zephyr.lst` and is marked external where no line of `src/src`
corresponds: a start of an active driver is refused, a stop cancels the
time-out and is announced from the system queue, and the semaphore a start
gives is not taken back by a stop. A start may succeed while the driver's thread
is still at work for the search before (`StartDone`), as nothing in
`gps_controller.c` keeps them apart. The one assumption about its timing is in
`Fix`: no position arrives while `start` waits for the modem's answer to the PSM
request, the only wait of the application queue with an active driver. That is
seconds, and a fix takes longer; admitting it would take the `gps` run past the
length a check of every change can have.

### RsrpWork

`modem_rsrp_handler` runs on the modem library's thread, in three steps
(`StoreValue`, `TestRemaining`, `SubmitNow`) that everything of a higher priority
can come between. Its work shares the application queue with GPS's works, so
`queue` of `GpsControl` also holds `"rsrp"`, and submitting cancels the work's
timer, as Zephyr's `k_delayed_work_submit_to_queue` does. `hold` is that timer; it
lasts a minute, the unit of `GpsControl`. Of the two numbers `rsrp.value` and
`rsrp_prev` only `news` is kept, whether they differ.

`GpsControl` is also the abstract specification here: `GpsAsAlone` says that, with
`rsrp_work` taken out of the queue, every behaviour is one of `GpsControl`'s. What is
checked and proved of GPS beside the signal strength therefore needs no trust in
that the two share a queue and a processor without harm.

### TimeHandler

`ticks` is `k_uptime_get_32()`, which starts again after `Wrap` ticks; `uptime` is the
true time since the start. `ModemHasTime` sets the clock ahead by up to `Zone`,
since `update_ts_modem` parses the time zone and does not use it. That is for zones
ahead of UTC: behind it the zone has a '-', which is no delimiter of the `strtok` calls,
so that the last finds no token and `atoi` takes NULL. The builds run in the
non-secure world, where the address 0 is not theirs: `RuuviNode`'s `ZoneFault`.
`ModemHasNoTime` leaves `epoch` at 1970. A fix is three steps of the driver's
thread: `TakeFix` (the event, with its time), `StoreTick`, `StoreEpoch`; the
interrupt, which reads both variables, can come between any two, so every
invariant about `GetTs` is about what it can put in a report. `MaxLate` is how late a
fix may be handled. Rounding to seconds is left out: a tick is the unit of both.

### RuuviNode

The start-up of `main.c` in its order, with the failures the code handles or
ignores: `InitGps` may fail, and then `uart_init` is never called; `InitUart` may
find no device. `NullHandler` is what follows a failed `gps_control_init`: the loop's
`gps_control_start` submits a work whose handler was never set, and the call of
a null pointer ends in `k_sys_fatal_error_handler` and a reboot. `Reset` is that
reboot, or the watchdog's, at any other moment; `ZoneFault` is the one that
`update_ts_modem` causes itself. GPS is reduced to one search at
a time, without the races that `GpsControl` has, and the loop keeps its choice
(`Due`) with real time stamps of `TimeHandler`'s clock in place of `GpsControl`'s
ages: what the two subtractions of `main.c:464` and `469` yield when the clock
moves or the counter wraps is this module's question. `NodeClock` says that main,
GPS and the resets together use the clock as `TimeHandler`'s own specification
supposes: the modem is asked once and first, fixes come one after the other, and
only a reset starts the clock again.

## 3. Runs

| run | checks | expected |
|---|---|---|
| `adv_table` | `TypeOK`, `TableHoldsLatest`, `PostedInOrder`, refinement `StoreSpec`, `PostedUnlessPended` | pass |
| `adv_copy` | `CopyIsFaithful`, what the comment on the copy says | violated |
| `adv_stuck` | `EveryReportPosted` with a work queue thread | violated |
| `watchdog` | `TypeOK`, `OneChain`, `ExpiresOnlyOnFault`, `FaultIsFinal`, `FaultResets` | pass |
| `uart_link` | `TypeOK`, `DamageIsBounded`, `BufferFills`, `ZerosHaveCause` | pass |
| `uart_newline` | `AllPacketsDecoded` with payloads that hold 0x0A | violated |
| `https_client` | `TypeOK`, `HoldsNothing`, `SentIsAccepted`, `KeepsPosting` | pass |
| `http_leak` | `HoldsNothing` with plain HTTP | violated |
| `gps` | on `RsrpWork`: `RsrpTypeOK`, `SearchIsAnnounced`, `SearchEnds`, `KeepsPosting`, `NewValueIsScheduled`, `HoldTimeKept`, refinement `GpsAsAlone` | pass |
| `node` | `NodeTypeOK`, refinement `NodeClock`, `NeverInFuture`, `RightAfterFix`, `FallsBackSeldom`, `SearchesInTime`, `RequestsInTime`, `ReportsComeLast`, `DeafStartsAgain` | pass |
| `gps_retry` | `RetryWaits` | violated |
| `gps_stuck` | `StartsAgain`, with a modem that never refuses | violated |

### Bounds, and why they are enough

- `adv_table`: three tags for two entries, so that the table fills, refuses,
  and is reused after a clear with other tags; three reports, the fewest with
  which the table overflows, and a tag can be updated before and during a copy;
  for any number of reports there are the theorems; two work-queue threads, so that
  one can wait behind another for the mutex.
- `watchdog`: `Timeout` 9, delays 2 and 2: an odd timeout (the feed delay
  rounds down) with room for both delays and one tick to spare, so that a delay
  missing from the account would show.
- `uart_link`: four frames and two lost bytes: a fault, its consequence, a
  recovery, and another fault while the first lasts; two commands, one more
  than the code writes, so that one can be written in the window of another; a
  window of two ticks, so that it can close before, while and after a frame
  arrives. The three contents of `SomeContents` are chosen for what can come to the
  command's index: DEVICE_ID as the length and first in the payload, 0x0A before
  what looks like an answer, and 0x0A before a start byte that a lost end byte
  leaves in front of the next frame. Four bytes of payload are the fewest that
  hold the second.
- `https_client`: message of three units, so that a partial send can be
  followed by another; `Heap` 5 and `Need` 2, so that the heap first suffices,
  then yields partial texts, then none; two sockets and three address lists, so
  that a leak would show as exhaustion as well.
- `gps`: an update interval of two minutes and a retry of one, so that they
  differ and a search can fall between them; `MaxAge` 2, past which neither
  condition changes. The two clocks at the start are right and 1970, which is
  behind by more than both intervals. In `gps_stuck`
  `ModemFails` is FALSE, so that the race alone is to blame.
- `node`: the counter wraps at 5 and time goes to 14, so that it wraps twice; the
  update interval (4) is shorter than the counter and longer than the retry (2),
  as the configured ones are; `Zone` 2 differs from both intervals by more than
  `MaxLate` 1, so that a clock that was wrong is told from one that is late;
  `Boot` 6 keeps 1970 more than an interval away. The theorems have no bounds.

### Fairness

- `AdvTable`: strong fairness of the main thread getting the processor and of
  its steps. Interrupts and work items are short and priorities do not starve
  main for ever; a main thread pended by the kernel is not eligible, so that
  the deadlock of `adv_stuck` is not assumed away. Reports are under no fairness.
- `Watchdog`: weak fairness of time, of works in queues that do not hang, and of
  the hardware's reset. None of `InitAndStart` and `Hang`.
- `HttpClient`: weak fairness of the main thread's steps: the loop posts again
  and again (tags are heard between two posts). None of the network:
  `KeepsPosting` assumes that it stays up in the end, and says so.
- `GpsControl`: time passes and the queues run what is submitted. The main
  thread and the GPS thread are preempted, each again and again, so theirs is
  strong fairness. `StartDone` and `StopDone` too: a modem asked again and again
  obeys in the end; with one that refuses for ever the loop never posts, which
  is a property of the code worth knowing (hazard at `main.c:469`). Nothing is
  assumed of fixes; `KeepsPosting` names what it needs.
- `RsrpWork`: as `GpsControl`; the modem library's thread has the GPS thread's
  priority and its fairness. Nothing is assumed of the modem's reports.
- `RuuviNode`: weak fairness of main and of the queue's thread while there is
  something for them to do; none of time, resets, GPS or the modem.
- `UartLink` has no liveness property and no fairness.

`CHECK_DEADLOCK FALSE` is set where the bounds, or a device that gave up its
watchdog, let the system stop; each cfg says which.

## 4. What the violations show

1. **The copy races with the interrupt** (`adv_copy`, `adv_post.c:236-240`).
   The mutex does not exclude an interrupt: the kernel takes main for the
   caller, so the lock is re-entrant. A report stored after its entry was
   copied and before the clear is lost; one stored between the two halves of an
   entry is handed over mixed.
2. **The interrupt can block main for good** (`adv_stuck`, `adv_post.c:68`). A
   report interrupts a work-queue thread while main holds the mutex. The kernel
   pends that thread, and main's unlock makes it owner of a mutex it never
   asked for and never unlocks. main blocks at its next lock. The thread that
   was pended comes back owning the mutex, runs on and feeds the watchdog, so
   that nothing resets the device.
3. **A newline in a payload ends the packet** (`uart_newline`,
   `uart_controller.c:109`). The length byte is not used. Reports with 0x0A in
   their binary content are lost.
4. **Plain HTTP leaks** (`http_leak`, `http_controller.c:64`).
   `close_http_socket` never frees the address list, and a failed `connect`
   leaves the socket open. All configurations in `CONFIGS` use plain HTTP.
5. **A failed GPS search is repeated at once** (`gps_retry`, `main.c:464`). Once
   there was a fix, the loop looks at the age of the last *fix*, which a failed
   search does not change, and not at `CONFIG_RUUVI_GPS_FAILED_RETRY`. Indoors the
   gateway searches all the time and posts nothing.
6. **GPS can stop for good, and posting with it** (`gps_stuck`, `main.c:202-205`).
   After a fix `gps_is_active` is cleared before the stop is submitted, on a
   thread main preempts, and the update interval may be over already since its
   time stamp was taken before the clock was moved. main submits a start; the
   late stop ends the new search; the driver's thread, whose semaphore the start
   gave, announces a search that is over. `gps_is_active` stays set with nothing
   to clear it. A time-out that races with a late fix ends in the same way.

**Cases the passing properties name.** Several properties hold only with an
exception, which is a finding of its own; each exception was checked to be
needed, by running the property without it.

- `PostedUnlessPended`: a waiting report is posted, except when the deadlock of 2
  is under way.
- `HoldTimeKept`: the hold time of `Kconfig:145` is cut short when the work prints
  while the callback is between its test and its submission (`"crossed"`): the
  submission then cancels the timer of the hold time.
- `NewValueIsScheduled`: a value that arrives while a post is active is left to the
  next callback (`main.c:296` returns without submitting again).
- `SearchesInTime`, `Wrapped`: before the first fix, if the 32-bit uptime wraps while
  the loop waits for the retry, `get_ts() - gps_last_active_time` turns negative
  for 49.7 days and wraps again before it reaches the interval. GPS is never
  tried again until a reboot, although `Kconfig:196` says "Reattempt to gain a GPS
  position after x minutes".
- `SearchesInTime` and `RequestsInTime`, `Moved`: `gps_last_update_time` is taken
  before the same fix moves the clock (`main.c:198`, `201`). If the modem's time was
  ahead, the next search is late by that much; if it was missing, the next search
  follows at once.
- `RequestsInTime`, `lastActive = 0`: before the first event of GPS the age is counted
  from 1970, so the first retry does not wait.
- `FallsBackSeldom`: between the two stores of `update_ts_gps`, at a wrap of the uptime
  without a fix since the last update, and at the fix that takes back what the
  modem's time was ahead, a time stamp can be earlier than the one before.
- `NeverInFuture`: even between the two stores a report's time stamp is at most as far
  ahead as the modem's time was: it is stored in the harmless order.
- `ZerosHaveCause`: `nrf_mac` does become zeros by packets that are no whole answer,
  since `uart_controller.c:50` and `129` take whatever byte stands at the command's
  index and line 78 ignores the decoder's result. The frame that byte is of has
  DEVICE_ID as its command or in its payload and lost a byte or was cut at a 0x0A;
  or it has DEVICE_ID as its *length* and, though undamaged itself, came behind a
  byte that another left in the buffer. A frame that comes to an empty buffer as
  it was sent never does it, nor do bytes of other values, however many are lost.
- `DeafStartsAgain`: a device whose GPS cannot be initialised never listens to the
  nRF52, and reboots at its first `gps_control_start`, again and again. One whose
  UART is missing goes on without reports.

Met while modelling and not made a run of their own, since no line of the
repository says otherwise: the first packet after a command's window is itself
dropped (`uart_controller.c:134`; `DamageIsBounded` counts it); where the network
gives a time zone behind UTC the device restarts at every start-up
(`time_handler.c:57`, `ZoneFault`); `http_post`
counts a message as sent after one `send`, however little was accepted; the
first location object of each batch leaks (`KeepsPosting` shows that posting
goes on, by way of a reboot); the reports of a failed post are not kept; after a partial `send`, `https_post`
sends the beginning of the message again (`http_controller.c:157` passes
`send_buf`, not `send_buf + off`; plain HTTP, which every file in `CONFIGS` selects,
does not reach the line).

## 5. Proofs

All theorems hold for every value of the constants that satisfies the named
assumptions of the module (`TableAssumption`, `ThreadAssumption`,
`WatchdogAssumption`, `ClientAssumption`, `LinkAssumption`, `GpsAssumption`,
`ClockAssumption`, `NodeAssumption`), which TLC evaluates on the runs' instances, and of
the few that a theorem names itself.

**AdvTable** (`AdvTableProofs`: `TypeCorrect`, `TableIsLatest`,
`PostsAreInOrder`; `AdvStoreProofs`: `TableImplementsStore`). The invariant is
`IInv`. Its parts beyond the properties:
`HistoryMatches` ties the history to the live entries, and says that whatever
waits is newer than whatever was posted, without which an old entry of the
cleared table could be posted again. `CopySoFar` is the heart: in the middle of
the copy the number copied may be smaller than the table's by now, each word
copied is a report of that entry's tag that still waits, and an entry beyond
the number copied was created by a racing report. It is why an interrupt
between two words does no more harm than `AdvStore` allows. `CopyDone` links the
program counter to the word count, and `HandedIsOlder` carries the result over
the clear until the post, when new reports of the same tags may wait again. The
refinement maps `copying` and `batch` from the program counter and the buffer;
`Lock` is `BeginHandOver`, `Clear` is `HandOver`, `AdvReport` is `Accept` or
`Refuse`, and everything else stutters, except `Post`. That the number of waiting tags
equals `num` (needed for the limit) rests on a bijection between `Live` and
`Waits`.

**Watchdog** (`TypeCorrect`, `ChainIsSingle`, `HealthyNeverExpires`,
`NoFeedAfterFault`). `TimeLeft` states, for each place the chain can be in, how
much of the timeout is left on a healthy device. From it, for every timeout and
all delays that satisfy `RoomForDelays` (half the timeout plus both delays is
less than the timeout), the watchdog never expires without a fault. The other
direction is `FaultResets`, of which the prover can have the safety half:
`FaultIsFinal`, that once a feed failed or the queue the chain has yet to pass
hangs, nothing sets the count of the hardware back. It needs `ChainInv`, by which
a failed feed was the only work there was.

**HttpClient** (`ClientTypeCorrect`, `TlsHoldsNothing`, `WholeMessageIsSent`).
`HeldInv` says what is held at each point of a request with TLS, and of either
client that an `fd` that names a socket holds one; `SentInv` relates `off` to what
was accepted. `ClientTypeCorrect` is for both clients: plain HTTP loses sockets and
address lists (run `http_leak`) but never releases one it does not hold.
`WholeMessageIsSent` assumes `HTTPS \/ ~Partial`, since `http_post` calls `send` once;
`TlsHoldsNothing` assumes `HTTPS`, since it does not hold otherwise.

**UartLink** (`LinkTypeCorrect`, `LinkBufferFills`, `LinkDamageIsBounded`,
`LinkZerosHaveCause`), for frames of any content. `FillInv`
strengthens `BufferFills` by the position in the frame: what the buffer holds
beyond it are the remains of lost end bytes. `DamageInv` counts, beside the
reports missed already, the one that a buffer which is not `Intact` will cost and
the one that a set `cmd_sent` will cost; a lost byte pays for two, a command for one, a
frame with 0x0A for itself. `MacInv` is the argument for `ZerosHaveCause`: the bytes of a
frame that is not damaged stand together at the end of the buffer (`Together`). What
such a frame has at the command's index is therefore its command, and then it is
all the buffer holds and will be whole; or its length, behind one other byte; never
its payload, before which three of its own bytes stand.

**GPS and RSRP** (`RsrpWorkProofs`: `RsrpTypeCorrect`, `EverySearchIsAnnounced`,
`NoValueIsForgotten`, `HoldTimeIsKept`, `GpsIsAsAlone`). The lemmas about the queue
come first: a work that is cancelled (`Without`) leaves the queue, the others stay in
their order, and a submitted work is in the queue once. `AnnounceInv` is the
argument for `SearchIsAnnounced`: while a search is under way that main does not know
of, or that the driver is to stop, something is on its way that will say so (a
stop in the queue or about to be submitted after a fix, the semaphore given, the
driver's thread about to announce it, or a time-out being handled), so that once
everything has settled main knows. A start may be submitted before
`GPS_EVT_SEARCH_STOPPED` of the search before has been handled, which will clear
`gps_is_active` under it: `StopsLast` says that a stop then stands behind that
start in the queue, and the search it begins does not last. `HoldInv`
says that while a value is held the timer runs and nobody is about to submit the
work, but for the race that the property names. `GpsIsAsAlone` takes `rsrp_work` out of the
queue step by step: that cancelling and submitting other works commutes with it
(`WithoutCommutes`, `WithoutAppended`), that a work of GPS at the head is at the head
without it (`HeadAlone`), that whoever may run beside it may run without it
(`MayRunAlone`); its own steps stutter. The fairness of `GpsControl` is not part of
this refinement: alone, time may pass at moments at which here the modem library's
thread still has a step to do, so that the fairness of `Minute` is not carried over.

**TimeHandler** (`ClockTypeCorrect`, `ClockNeverInFuture`, `ClockRightAfterFix`,
`ClockFallsBackSeldom`). `ClockInv`: `ElapsedIsTrue` says that the unsigned difference
is what has passed since the update, until the counter has wrapped since, at
whatever value it wraps; `EpochIsPast` and `FixIsRecent` bound what the two stores
of a fix leave behind, one after the other.

**RuuviNode** (`NodeTypeCorrect`, `NodeUsesClock`, `NodeNeverInFuture`, `NodeRightAfterFix`,
`NodeFallsBackSeldom`, `NodeReportsComeLast`, `NodeSearchesInTime`, `NodeRequestsInTime`).
Every step of the device is a step of the clock, none, or a reset
(`ClockOrReset`): that is `NodeUsesClock`, and it carries the clock's invariant over. `AgeInv` is the rest of the
argument before the first fix: the difference the loop computes is never more
than the true age of the last search, and no less until the wrap. After a fix
the bounds of `RightAfterFix` do, with `SearchInv` for the time stamps.

**Model-checked only.** Liveness (`EveryReportPosted`, `PostedUnlessPended`,
`FaultResets`, `SearchEnds`, both `KeepsPosting`, `DeafStartsAgain`), which is out of
the prover's reach with fairness and ENABLED. Every other property of a passing
run is the statement of a theorem.

## 6. Not modelled

- `update_imei_data`, `update_position_data`: strings and numbers another context
  formats into a message. A position mixed of two fixes is a listed hazard.
- The layout of JSON and HTTP headers, the log, the LEDs.
- The parsing of the modem's time in `update_ts_modem`, but for what its time zone
  does, and its `free` of a pointer
  into memory that was freed before (`time_handler.c:62`): the heap's own data is
  in no module.
- Memory ordering and the exact width of the compiler's copy: the two words per
  entry are the coarsest split at which every kind of mixture occurs.
- `modem_configure` beyond its repetition, and the handlers of the BSD library's
  errors: calls of the modem library without a state of this program.
- The other commands of `api.c`, which have no caller.
- `SES`: the generated headers, listings and settings of the builds. They hold
  constants and compiled code of the kernel and its libraries and no line of
  this program, whose 2100 lines are all under `src/src`; that is why modules that
  cover most of the program's logic cover a small share of the repository's
  lines.

## 7. Plan

Done, in this order: `AdvStore` and `AdvTable`, `Watchdog`, `UartLink`, `HttpClient`,
`GpsControl`, `TimeHandler`, `RsrpWork`, `RuuviNode`, with the proofs of section 5.
`GpsControl`'s queue is written with functions rather than `SelectSeq`, whose
recursion the prover cannot follow. What is left would add less:

1. An abstract link for `UartLink`, each frame delivered or lost in order, and the
   refinement.
2. The safety halves of the other liveness properties, as `FaultIsFinal` is of
   `FaultResets`: what a step may do while a search is to end (`SearchEnds`) or a
   device is deaf (`DeafStartsAgain`).
3. `AdvStore`, the watchdog's chain and `RuuviNode` in one module: main is not
   supervised, `adv_stuck` in the large.

# Verification of alexvlv/testings

The repository is a collection of small systems programs: Linux and OpenWrt
kernel drivers, Qt widgets, network tools and shell scripts.  This directory
holds TLA+ models of those that have state, concurrency or a protocol of their
own, TLC configurations that check them on small instances, and TLAPS proofs.

It covers the bit-banged UART driver `openwrt/kernel/soft_uart/bitbang` and the
SPI slave driver `linux/kernel/slave-spi-driver` in most detail; the two gpio
ttys, the kfifo devices, the text entry with a telephone keypad, the UDP
proxies and the network namespace scripts by one model each; and the life cycle
of 23 kernel modules by one model and a table.  `PROJECT.json` lists the
components, the runs, the source lines behind every definition, the hazards and
the theorems.

## 1. Inventory

| Component | State | Operations | What is hard | What makes it correct |
|---|---|---|---|---|
| **bitbang UART, run time** (`uart.c`, file operations of `bitbang-main.c`) | two kfifos, the character being sent and received (index, data, parity), two hrtimers, interrupt disable depth, open count, statistics | open, release, read, write, transmit and receive timer callbacks, falling-edge interrupt | timer callbacks and interrupt preempt system calls; tests made outside the lock; reopen during a character; FIFOs at their limit | bytes go out in order and complete; a queued byte always has a timer; sleepers wake; the receiver never goes deaf; interrupt enabled while open |
| **bitbang UART, wire** (`tx_timer_cb`, `rx_irq_handler`, `rx_timer_cb`, `bitbang_uart_set_period`) | pin levels, timer expiries, period and half period | drive a bit, edge, sample a bit | jitter and interrupt latency against a half-bit margin | what one end writes is what the other end reads |
| **bitbang UART, life cycle** (`bitbang-main.c` probe/remove, `bitbang-sysfs.c`, `bitbang-proc.c`, `bitbang_uart_init/exit`) | registered resources, period, drvdata | module load, probe, remove, sysfs stores | a failure at each step; users that arrive before probe has finished; timers and interrupt during removal | every resource acquired is released exactly once |
| **SPI slave driver** (`linux/kernel/slave-spi-driver`) | ring of transfers, packet buffer, two threads | transfer, receive thread, packetiser, probe, remove | ring full and empty, wake-ups, error returns under the lock | ring indices stay consistent, no packet lost or reordered |
| **kfifo devices** (`openwrt/kernel/gpt/kfifo.c`, `kfifo_rxtx.c`) | one or two kfifos, wait queues, open count, interrupt, work item | read, write, poll, open, release, interrupt, work | the interrupt overwrites what a reader is about to copy; wake-ups after the lock; open and close request and free the interrupt; close cancels the work | bytes in order and once; sleepers wake; what is accepted goes out |
| **soft UART ttys** (`soft_uart/gpt`, `softuart_tty`, `dummy_uart`) | receive state machine, hrtimer, termios configuration, transmit ring | timer callback, set_termios, sysfs stores, tty open and close, ring put and get | configuration changes in the middle of a character; a timer restarted from a stale expiry; ring full and empty | start bits noticed, samples in consecutive bits, every character counted once |
| **KeysManager** (`qt/qkeywin`) | pressed keys, pending symbol, editor, shift, timer, connections of buttons | key press, repeat and release, timeout, start and stop of editing, clicks | a timeout between two presses; a dialog that takes the release; editors that change under a pending symbol | the taps select the symbol, the view follows the editor, keys do not stick |
| **UDP XOR proxies** (`python/udp_xor_proxy`) | client table, sockets, cleanup thread | datagram in either direction, expiry | cleanup thread against the main loop; one address for many clients | answers go to the client that asked; no client freed in use |
| **network namespaces** (`linux/netns/*.sh`) | namespaces, veth pairs, routes, rules, VPN configurations | up, down, kill | ids derived from a count; `set -e` in the middle | nothing outlives its namespace; every namespace has its own network |
| **MPEG-TS tools** (`python/mpeg-ts`, `inc_validator.py`) | continuity counters, PTS per pid | packet | wrap-around | a gap is reported exactly when there is one |
| **platform drivers, gpio, regulator, gpioirq, device tree modules** (`linux/kernel/*`, `openwrt/kernel/*`) | acquired resources | init, probe, remove, exit, bind, unbind | a failure at each step; callbacks while probe or remove runs | nothing leaks, nothing is released twice or through freed memory |
| **Qt experiments, shell, cmake, web, documents** | none worth a model | | | |

## 2. Modules

| Module | What it is |
|---|---|
| `BitbangFrame` | character format: bit order, parity, frame positions |
| `BitbangUart` | the character device at run time |
| `BitbangLink` | two ends on one wire, with time |
| `ByteChannel` | what a pair of UARTs promises; `BitbangLink` implements it |
| `BitbangLifecycle` | load, probe, remove, unload, period attribute |
| `SpiSlave` | SPI slave driver: ring, receive thread, messages, remove |
| `DriverTables` | what 23 kernel modules acquire, give back and rely on, a record each |
| `DriverLifecycle` | load, probe, bind, unbind, unload of any of them, with failures and users |
| `KfifoDev` | the two kfifo devices at run time |
| `SoftTty` | receive timer and transmit ring of the two gpio ttys |
| `BoundedQueue` | what a ring promises; the ring of `SoftTty` implements it |
| `KeysManager` | text entry with a telephone keypad |
| `UdpProxy` | the three UDP proxies, their clients, the network, the remote end |
| `NetnsScripts` | the three namespace scripts |
| `MC...` | instances for TLC |
| `...Proofs` | theorems and their proofs, for `BitbangUart` with `BitbangFrame`, `BitbangLink`, `BitbangLifecycle`, `SpiSlave`, `KfifoDev`, `SoftTty` and `KeysManager`; `NetworkProofs` for `UdpProxy` and `NetnsScripts` |

Where several statements describe one thing, the run checks their conjunction:
`LinkInv`, `LifecycleInv`, `RingInv`, `ReleaseInv`, `AccessInv`, `FifoInv`,
`PumpRuns`, `EntryInv`, `ClientInv`, `LeftoverInv` and `ReceiveInv` are made of
named parts, the type invariant among them, and each part has its own comment.

Operators with a comment "Mutant of X" are plausible slips in the code that X
models; they show that each property can fail.

### 2.1 BitbangUart

Processes `open`, `read`, `write` and `close` `/dev/bitbang`.  A write puts
bytes in `tx_fifo` and starts `tx_timer` if it is not active; each expiry
drives one bit of a character (start, 8 data bits, even parity, two stop bits)
and the callback stops when it finds the FIFO empty.  A falling edge on the
receive pin raises `rx_irq_handler`, which arms `rx_timer` half a period ahead;
each expiry samples one bit, and after the stop bit a correct character enters
`rx_fifo`, overwriting the oldest when it is full.  The first open resets the
receive FIFO and both indices and enables the interrupt, the last close
disables it and resets the FIFO.

State: the fields of `struct bitbang_uart` under their names; `tx_queued` and
`tx_running` are the two halves of `hrtimer_active`; `pc` is the place of each
process inside its system call.  System calls are cut wherever the code can be
preempted between two shared accesses (`Open`, `OpenResetFifo`, `OpenResetIdx`,
`OpenEnableIrq`; `TxWait`, `TxCopy`, `TxCheckTimer`, `TxStartTimer`; ...); a
section under the spin lock, a callback and the interrupt handler are one step.
With `Smp` false nothing runs while the transmit callback does; with `Smp` true
other CPUs go on until it returns (`TxReturn`).  The receive callback is one
step in either case.  A fault in the user's buffer copies fewer bytes.  History
variables (`accepted`, `taken`, `received`, `aborted`, `cut`, `overtaken`)
appear only in properties.

### 2.2 BitbangLink and ByteChannel

Time is discrete.  Each end has its own bit period; `tx_due` and `rx_due` are
the times left to the expiries, negative when the callback is late; `Tick` lets
time pass but not beyond `TxLate`, `RxLate` and `IrqLate`.  `hrtimer_forward`
counts from the last expiry, so lateness does not add up, drift does.  The
assumption `Margin` is what the driver needs of the hardware and never states:
half a period plus the drift of a whole character must exceed the sender's
lateness, and with all lateness added stay below a period.

`ByteChannel` is the promise: bytes arrive unchanged, in order, once, and (with
fairness) all of them.  The refinement mapping is the identity on `sent` and
`received`.

### 2.3 BitbangLifecycle

Probe is the sequence of its acquisitions, each of which may fail; the error
path and remove are sequences of releases, which interleave with open files,
timers and stores to the period attribute.  After an unbind the driver can be
bound again.  Users come when probe is done; `DriverLifecycle` has the ones
that come earlier.  Any number of processes may be in `period_store`, which
loads, stores the period and stores its half without a lock, and the module
parameter may be out of range.  `alone` is history: the period was last set by a
parameter in range or by a store that met no other.

### 2.4 SpiSlave

The receive thread takes a free buffer under the lock (dropping the oldest
packet when the ring is full), fills it outside the lock, and inserts it under
the lock.  The SPI core calls `prepare_message` and then `transfer` for one
message at a time.  Ring arrays, head, tail and flags are those of the code; a
packet is its number in the stream.  The `memset` of the statistics without the
lock races with `pkt_lost++`; `ResetStats` allows both outcomes.

Threads are numbered, and `rx_thrd` is the number of the thread it points to, so
that a pointer can outlive its thread.  `init_rx_thread` stores it after the
thread may have ended (`AssignThread`; history `overtaken`).  `spi_imx_remove`
reads it twice: `RemoveTest` is the test, `RemoveStop` the `kthread_stop`, which
may use the value of the test or read it again; a null pointer is an `oops`, a
thread that has ended may be one.  `ended` says that the thread ended after the
message under way had tested the pointer, `unseen` that a thread lives which
remove's test could not see.  All of these cases are reachable; the properties
say that there are no others.

### 2.5 DriverTables and DriverLifecycle

A driver is a record: the acquisitions of init and of probe in the order of the
code, for each step that can fail what its error path gives back, the releases
of remove and exit, what the driver core gives back by itself (`devm`), steps
whose failure is passed over or whose success is taken for a failure, and for
everything that can call back into the driver (a node, an attribute, an
interrupt, a timer, a bus) what the callback relies on.  `DriverLifecycle` runs
the record: one acquisition or release per step, a failure at any step that
can fail, a file opened as soon as its node exists, unbind and bind.  A module
with an open file is not unloaded; an unbind waits for nobody.  What an error
path or remove leaves registered moves from `held` to `lost` and still calls
back, also when the module's code has gone.  The tables are data taken from the
code, so the exceptions in the properties (`Leaks`, `Exposed` and those of
`UndoesOnlyHeld` and `ReleasesUseLiveMemory`) are what these drivers get wrong.
The run shows that there is nothing beside these lists; that an entry is really
reached was seen once for each, by checking the property without it.

### 2.6 KfifoDev

`kfifo.c` and `kfifo_rxtx.c` share the module: the first has one fifo that
interrupt and `write` fill, the second one for each direction.  Bytes are
numbered, so that loss, repetition and order can be told.  A call is cut
between its test, its copy under the lock and its wake-up; the interrupt
handler between its copy and its wake-up.  `work` is the state of the work item
as the workqueue has it (idle, pending, running, running and pending again,
being cancelled).  `wait_event_interruptible` and `poll_wait` are taken as the
kernel has them: the process is on the queue before the condition is tested.
A copy from or to the user's buffer may fault after some of its bytes: a read
then returns without waking writers, a write without scheduling the work, with
the bytes already in the fifo.  `robbed` is history: a last close or such a write
left bytes without work, and no write has scheduled it since.

### 2.7 SoftTty and BoundedQueue

`plain` is `gpio_uart_tty.c`, `gpiod` is `gpio_uart_tty_gpiod.c` and `ring` the
transmit ring that both `tx_ring.c` and the gpiod driver have.  Time is
discrete.  The receiver's bit, `NSEC_PER_SEC / baud` in nanoseconds, is `Bit`
ticks; the sender's, `1000000U / baud` truncated to microseconds plus the time
that writing the pin takes, is `sbit` ticks, any of `SenderBits` and the same
throughout a behaviour.  A callback runs up to `Late` ticks after its timer is
due.  The sender is `uart_tx_byte` of a plain driver
with the same parity and stop bits (for `plain` the device itself, looped back).
It reads parity when the data bits are out and the number of stop bits before
each of them, so a change in the middle of a character gives a frame of neither
format; disabled in the middle of a write, it drops the remaining bytes although
the write reports them as written.
The model keeps what `hrtimer_forward_now` does: it moves the expiry by whole
intervals from the *old* expiry.  The idle plain receiver restarts without
moving the expiry, so it looks at the line again at once (a storm of timer
interrupts), and the expiry it later counts from is stale (`age`).
`StartBitNoticed` holds for a sender's bit longer than the time between two looks
(`LooksInTime`).  At 115200 baud the sender's bit is 8 us and what the pin takes,
the looks of an idle gpiod receiver are 8.68 us apart: a start bit can pass
between them.
`BoundedQueue` is the promise of the ring; the refinement maps the places from
`tail` to `head` to the queue and `RingSize - 1` to its capacity.

### 2.8 KeysManager

The main window and the modal dialog each have a manager; whichever has the
keyboard gets a press, a repeat or a release, so a release can go to the other
one.  Keys are the numbers of the code; `sSymbols` gives how many symbols a key
has; a symbol is key, index and case.  `taps` is the history the property is
about.  The clicks of soft buttons and `MainWindow::onKeyButtonClicked` are
part of the actions that cause them.

### 2.9 UdpProxy

`single` is the C program and the python one (two threads, one upstream
socket), `multi` and `cleanup` the other two.  The network loses and reorders
datagrams; the remote end answers what it decoded.  A byte is its eight bits,
and XOR works on them, with the repeated key; `xor_buffer` and `xor_bytes` are
two definitions, as in the code.  `ReplyToOwner` excuses the single proxy once
it has heard a second client: its replies go to the last one.
`RepliesForwarded` asks of the single proxy that each reply at its socket is
sent on, not only taken.  The list of clients is a set of records; a
socket number is not used again while a datagram for it is under way.
`NoStall` says that the main thread is not stopped for longer than
`CLIENT_TIMEOUT` between `get_client` and its last use of the client; without
it the client can be freed under it.

### 2.10 NetnsScripts

A script is the sequence of its commands that change something.  Every command
may fail.  `Fault` is a failure that `set -e` notices, with what the command
leaves (`Leaves`: `sed` leaves the file it was to write, `mkdir` none, `rm` the
one that is there).  `FailsUnnoticed` is one behind `|| true` or in a pipe: the
run goes on with the VPN, route, rule or namespace still there, or with a
network it did not read.  `stale` counts the rules whose deletion failed so, and
`stray` has the namespaces whose configuration a failing command left.  Runs for
different namespaces overlap.  `Program` gives the commands of a run by the
script installed and its arguments; "host" and "none" stand for places that are
no namespace, which `NetnsAssumption` says.  A network is the number in `10.200.N.0/30`.
Users start processes in namespaces, some of which ignore SIGTERM.

## 3. Runs

| Run | Question | Result |
|---|---|---|
| `uart_tx` | two writers that close and reopen during characters, one CPU, fairness | no byte is left without a timer; the pin follows the character; every byte is sent, being sent or abandoned by an open; interrupt enabled while open unless an open overtakes a close; accepted bytes go out, sleeping writers wake |
| `uart_rx` | two readers, one reopens, any line | nobody sleeps beside data; the FIFO keeps the newest; the receiver is never deaf |
| `uart_smp` | several CPUs | **violation**: a byte stays queued with no timer |
| `link` | real format, different clocks, late callbacks and handler, back-to-back characters | implements `ByteChannel`, safety and liveness; every sample in its bit, no error counted (`LinkInv`) |
| `lifecycle` | every probe failure, unbind, bind, unload, parameters in and out of range, two processes that store periods | nothing is released twice; only the `dbg` attribute and a pin whose direction failed leak; timers stopped before the memory goes, unless an open file is unbound; a store that meets no other puts period and half period right (`PeriodSettles`) |
| `spi` | thread, messages and remove around a ring of four | ring sound, "can not be here" true, newest packets kept until the thread is stopped; one thread; a pointer without a thread, a sleeper without one, a thread on the freed ring and a crash in `kthread_stop` only in the cases of section 2.4 |
| `drivers` | 23 modules, every failure of every step, bind, unbind, unload, an early file | nothing leaks, is released twice or through freed memory or is missing in a callback beside the lists in the module |
| `kfifo` | two processes against interrupt and work item, faulting copies | order kept, newest kept, no lost wake-up, interrupt follows the opens (but for a second opener whose first one failed), writers proceed and bytes go out, after a last close or a fault with the next write |
| `keys` | a digit, a letter key, OK, shift, step and push-to-talk in any order, two windows | the pending symbol is the tapped one, the view follows the editor, keys and push-to-talk are released |
| `udp` | two clients, three datagrams of two payloads, expiry | no client freed in use, sockets owned, replies to their owners unmasked, the single proxy sends on every reply |
| `netns` | two namespaces, four runs that may overlap, one failing command, noticed or not | no rule outlives its namespace but one for each failed deletion; no configuration left but where a command on it failed; own networks until a deletion or an overlap; without a failure every namespace at rest keeps a rule, also where two share a network (`NamespacesKeepRules`) |
| `tty` | two characters, a sender's bit of 3 or 5 ticks to the receiver's 4, callbacks a tick late, a change of configuration and back | start bits noticed where `LooksInTime`, samples on the receiver's schedule whatever the lateness, characters counted once and ended; the ring implements `BoundedQueue` |

### Known deviations

These configurations are kept beside the runs.  Each checks one statement of the
repository that the code does not keep, and TLC shows how:

| Configuration (module) | Statement | What happens |
|---|---|---|
| `uart_phantom` (`MCBitbangUart`) | `uart.c:196` "Dequeues a character from the TX queue and sends it." | a second opener writes before the first has set the indices: zeros are sent that nobody queued |
| `lifecycle_param` (`MCBitbangLifecycle`) | `bitbang-main.c:44` "Period: msec per bit" | a parameter above 1000 is shown but refused; the driver runs with a period of 0 |
| `spi_wake` (`MCSpiSlave`) | `spi-slave-main.c:312` refers to the manual sleep of LDD2 | the condition is not tested after `prepare_to_wait`: a transfer sleeps beside a ready packet |
| `spi_reset` (`MCSpiSlave`) | `spi-slave-main.c:296` "4s" | the thread clears the time of the last message: the next one empties the ring at once |
| `kfifo_close` (`KfifoDev`) | `kfifo_rxtx.c:330` "also ensure tx work done" | `cancel_work_sync` drops pending work; bytes stay in the fifo |
| `keys_digits` (`KeysManager`) | `KeysManager.cpp:149` "digits only:" | a letter pending from the former editor is committed to a digits-only one |
| `udp_reply` (`MCUdpProxy`) | `udp_xor_proxy_multi.c:4` "Multi-client bidirectional UDP XOR proxy" | a reply that comes after the poll stays in the socket until the client sends again |
| `netns_down` (`NetnsScripts`) | `netns_multi.sh` `down` | `ns_kill_processes` returns 1 when no process survives SIGTERM; `set -e` ends `down` with the namespace in place |
| `tty_start` (`SoftTty`) | `gpio_uart_tty.c:179` "schedule next in half-bit to sample middle of first data bit" | the first sample falls into the start bit |

### Further observations

* kfifo: a blocking read or write may return 0 when another process took the
  data or the room between test and copy; a first open that fails leaves a
  second opener without interrupt (`deaf`); a full transmit fifo left by a last
  close, or by a write that faulted, blocks the next writer.
* SPI slave: a receive thread that ends before `init_rx_thread` has stored its
  pointer leaves the pointer set; no message starts another thread, and the next
  transfer sleeps for good (`overtaken`).  A thread that gives up between the two
  reads of `spi_imx_remove` makes `kthread_stop` use a null or freed thread.
* ttys: with parity the gpiod receiver never delivers a character (the parity
  position falls through to the end of the callback); its ring is never drained
  and `write` reports success for bytes it dropped; `rx_enable` set to 0 in the
  plain driver stops its timer for good.
* KeysManager: another letter key within the second discards the pending
  symbol; the shift that counts is the one at commit time; cancel does not
  restore the text.
* UDP: `key_len` of the multi-client programs is not limited to the buffer of
  the key; an empty key divides by zero in C and masks nothing in python.
* netns: `up <wg> <iface>` always ends early, because `DEF_GW` is not set;
  `netns_veth.sh` leaves its VPN configuration when the VPN does not come up.

Three more things about the bitbang driver: two writers may
both pass the test for a full FIFO, and the write of the second returns 0
although `uart.c:77` says it blocks (`TxCopy`); two stores to the period that meet
leave a period that is not the one shown or half of another, because
`bitbang_uart_set_period` takes no lock, until a store that meets no other; and a device that was unbound cannot be bound again while the module stays
loaded, because the `dbg` attribute is still there (`ProbeStepOk("dbg")` is
never enabled then).

**Bounds.**  `Bits` 1 or 2 instead of 8 keeps all kinds of frame positions
(first, last and, with 2, neighbouring data bits); `link` and the proofs have 8.
FIFOs of two bytes with three written or three received are full, empty and
overwritten; two processes suffice for every race between two places of the
code.  `MaxDepth` bounds the interrupt disable depth that overtaking could
raise.  In `link` a period of 40 with lateness of 2, 1 and 2 and a receiver that
is 2.5 % slow uses nearly the whole margin; the seven characters exercise every
fold of the parity reduction.  In `spi` a
ring of four with seven packets fills, drops, makes the thread give up (at two
losses instead of 1025) and wraps; two messages reach a cleared ring, a restart
and a remove.  In `lifecycle` periods up to 3 stand for 1 to 1000, and the
parameters 0 and 4 are out of range on either side; two storers, which are
interchangeable (`StorerSymmetry`), suffice for stores that meet.
In `kfifo` fifos of two bytes with three
each way overflow, fill and drain.  In `keys` five presses wrap the symbols of
key 0 and reach the line editor, the digits-only one and the spin box; the key
of the text editor is not among `Keys`, and the proofs have every key and editor.  In `udp` two time units with a
timeout of one let a client expire and return, and three datagrams let one of
two clients send twice.  In `netns` four runs bring two namespaces up,
one down and up again, and a failing command can fall anywhere among them.  In
`tty` the two lengths of the sender's bit are one tick below and one above the
receiver's, and a lateness of one tick is the most that still lets a gpiod
receiver notice the longer start bit; `MaxCfg` counts the changes away from the
initial configuration, so each parameter may change in the middle of a
character and back; a ring of three wraps twice.  `drivers` is complete: nothing in it is bounded.
`CHECK_DEADLOCK FALSE` stands where bounded runs come to an end; `lifecycle`
and `drivers` can always go on and are checked for deadlock.

**Fairness.**  Only what the kernel guarantees: armed timers expire, callbacks
return, a pending enabled interrupt is handled, a runnable process is scheduled
and time passes; Qt's timer fires; a thread that can run, runs.  Nobody has to
open, read, write, press, signal or send, and a signal never has to end a wait.

## 4. Proofs

All theorems hold for every value of the constants under the named assumptions
of the modules; what else a theorem assumes is in its statement.  The theorems
of `PROJECT.json` state properties that the runs check on small instances.

* `BitbangUartProofs` begins with the character format: parity, `INSERT_BIT` and
  `TxBit` yield bits and characters; `ParityCountsOnes`: three folds of
  `parity_even8` leave the parity of the number of ones, for characters of up to
  eight bits.  Then the device: `TypeCorrect` (the "logiq error" branches are never
  taken, FIFOs never exceed their size), `PumpNeverStops` (assuming one CPU;
  `uart_smp` shows the assumption is needed), `SleepersHaveReason`,
  `InterruptFollowsOpen`, `AllCharsAccounted`, `PinCarriesCharacter`,
  `FifoHoldsNewest`, `ReceiverNeverDeaf`.  `TxPumpArmed` is not inductive: a
  callback that will not restart must have found the FIFO empty and no writer
  may get in before it returns; `PumpInv` adds this.  `InterruptFollowsOpen`
  counts: `SessionInv` says that the open count is the number of processes that
  hold the device and that at most one is inside the first open or the last
  close.  `PinFollowsIndex` compares the pin with a whole frame; `PinInv` says
  that data and parity kept belong to the byte taken last and that the pin
  shows the bit of the index before, and `ParityCountsOnes` gives the parity its
  meaning.  For `RxNotDeaf`, `DeafInv` says that a character in progress has its
  timer, or that no open has reset the index yet: then the interrupt is still
  disabled as probe left it and the first opener has the reset before it.
* `BitbangLinkProofs`: `LinkCorrect`, `NoErrorsCounted`, `ImplementsChannel`.
  The inductive invariant `LinkInv` joins timing and data:
  `Synchronised` puts the difference of the two expiries into a window around
  half a period plus the drift so far, `Margin` then makes every sample fall
  into its bit, `WireCarries` says which bit that is, and `DataInTransit` that
  the bits sampled are the low bits of the character on the wire.
* `BitbangLifecycleProofs`: `LifecycleCorrect`, `PeriodTakesEffect`.  Both
  error paths and remove are lists of things to release.  `HeldInv` says that
  such a list names everything that is to go, each once (`Once`), that probe at
  a step holds what the earlier steps acquired (`Earlier`), and that nothing
  else is held but `dbg` and the stuck pins; the lemmas `UndoOnce` and
  `RemoveOnce` show it of the list each failing step and remove begin with.
  `TimerInv` says that timers still armed when remove begins are on its list.
  `PeriodTakesEffect` is for any number of storers and any parameter: while the
  period was last set by one alone, `PeriodInv` says that a store under way is
  the only one and follows its value through the three assignments; `StoreInv`,
  that nobody stores before probe has set the driver up.
* `SpiSlaveProofs`: `RingCorrect` (`RingInv`: ring sound, the thread's buffer
  reserved), and from it `RingStaysSound` and `CanNotBeHere`.  That a free buffer exists is a counting
  argument: the places in use miss the one at head, so they cannot name all
  buffers.  `OnlyOneThread`, `SleeperIsServed`, `FreedAfterThread` from
  `ThreadInv` (the thread ends only for a reason, a message that goes on has a
  thread or a reason, and past remove's test a thread is stopped, has ended or
  was not to be seen).  The exceptions are in the statements, by the history
  variables of section 2.4, each of which is set by one race only.  `RingKeepsNewest` from `NewestInv`:
  the packets in the ring have consecutive numbers that end at the newest one
  inserted, those transferred are older, and the buffer about to be inserted
  holds the packet just completed.
* `KfifoDevProofs`: `InterruptFollowsOpen` counts as above (`IrqInv`: at most
  one user requests and one frees the interrupt, never both when it is to be
  kept).  `BytesKeepOrder` rests on `BytesInv`: each fifo is a run of
  consecutive numbers that ends at the last byte put in, and what was read is
  an increasing sequence below it.  `WakeupsNotLost` adds to `NoLostWakeup` that
  the work item owes its wake-up only while it runs (`WakeInv`).
* `SoftTtyProofs`: `RingIsQueue` is the refinement of `BoundedQueue`, a step of
  the ring at a time, with the wrap-around.  `StartBitIsNoticed` and
  `SamplesInOrder`, for any two bit lengths and any lateness below a bit, rest on
  `TtyInv`: `TxInv` gives the shape of a frame whose
  parity and stop bits change on the way, `RxInv` the state of the receiver's
  timer, `Schedule` the time of every sample since the first and of the next one
  (lateness moves a sample, never the expiry after it), and `StartInv` that an
  idle receiver looks at the line before the start bit is over.
* `KeysManagerProofs`: `PanelFollowsEditor`, which is inductive with the types
  of editor and panel (`ViewInv`), and `PendingSymbolCounts`: `TapInv` says that
  the taps end in a run of the pending key whose length gives the index, and
  that the number of symbols kept is that of the key; `TextInv` that what has
  been committed are symbols.
* `NetworkProofs`, proxies: `ProxyClientsSafe`, `ProxyRepliesSafe`.  (The
  specification of `UdpProxy` has names of its own, `ProxyInit`, `ProxyNext`,
  `ProxySpec`, so that one module can extend it and `NetnsScripts`.)  `ProxyInv`
  says who owns each socket and each datagram on its way
  (`Owners`), that every datagram under way is a masked payload, what the two
  threads hold between their steps, and that there are no more sockets in
  use than datagrams handled so far (`Room`), so that `get_client` finds a new one.
  `Unmasked` shows that masking twice is the identity for every key and every
  length, with either definition.  That no client is freed in use rests on
  `NoStall`: the main thread has renewed the time of last use and is not stopped
  for longer than the timeout.
* `NetworkProofs`, scripts: `LeftoverSafe`, `KeepRulesSafe`, for
  any number of namespaces, runs and failing commands, noticed or not.  `UpAt` and
  `DownAt` say where in each of the eleven command sequences a command stands,
  from a table each; nothing else unfolds the scripts.  Neither property is
  inductive.  `NetInv` says of a run at each of its commands what it has done
  (`UpDone`, `DownDone`: the number read is still that of the namespace, unless
  the reading failed) and bounds the rules of a network from both sides: at most
  the namespaces that have it and are not between making the network and the
  rule, or past deleting it, and the failed deletions; and, while nothing failed,
  at least the namespaces that hold it.

Only model-checked:

* liveness (`AcceptedIsSent`, `WriterWakes`, `PumpRuns`, `TimerSettles`,
  `CharacterEnds`, `RepliesForwarded` and the fair part of `IsByteChannel`),
  since fairness and ENABLED are beyond the prover;
* `OwnNetwork`, which is about a few sequential runs;
* `DriverLifecycle` (`OnlyKnownLeaks`, `ReleaseInv`, `AccessInv`).  Its one constant
  is the set of modules that are followed, and `drivers` follows all 23 without a
  bound on anything: the run is complete, and a proof would say no more.

## 5. Not modelled

* bitbang: what happens after an unbind under an open file; the receive callback
  beside system calls on several CPUs; period changes during a character;
  `O_NONBLOCK` as a flag of a descriptor; show functions and `dbg_store`.
* SPI slave: the register accesses of `spi-slave-hw.c`, the statistics other
  than `pkt_lost`, and messages after the controller is unregistered.
* Drivers: what a freed structure does to an open file after an unbind (the
  kernel faults); read, write and attribute functions that move one value.
* ttys: changes of the baud rate (a rate above 1000000 makes a bit 0 us long), and
  a sender's bit that varies within a behaviour;
  the ttys that only echo.
* `mini_uart.c`, `simple_pdrv_cdev.c` and `gpt/softuart_tty-main.c` are drafts
  that do not compile; `kmod-main.c` and `linux/kernel/testmod` only print.
* UDP and netns: argument parsing, addresses, DNS files.
* The stream checkers under `python/mpeg-ts` are sequential filters: next in the
  plan.  The other components marked `not_modelled` in `PROJECT.json` are
  experiments with a library or a build system, configuration and documents.

## 6. Plan

1. `DriverLifecycle` for every table that satisfies a named condition, instead
   of the 23 tables there are; it needs facts about `SelectSeq` and `Reverse` that
   are proved by induction over sequences.
2. Stream checkers: continuity counters and wrap-around.

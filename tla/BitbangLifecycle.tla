-------------------------- MODULE BitbangLifecycle --------------------------
(***************************************************************************)
(* The bit-banged UART from module load to unload: probe with a failure at *)
(* every step that can fail, its error path, remove, unbinding and binding *)
(* again through sysfs, and the period attribute (bitbang-main.c,          *)
(* bitbang-sysfs.c, bitbang-proc.c and the init and exit half of uart.c).  *)
(*                                                                         *)
(* Probe and remove are sequences of acquisitions and releases; each is a  *)
(* step, because timers, the interrupt, open files and stores to the       *)
(* attribute go on beside them.  Users come once probe is done.            *)
(***************************************************************************)
EXTENDS Integers, Sequences, FiniteSets, SequencesExt

CONSTANTS
    Storers,        \* processes that write the period attribute
    Params,         \* values the module parameter "period" takes
    Values,         \* values that are written to the attribute
    PERIOD_MS,      \* default period
    MaxPeriod       \* largest period, 1000 in the driver

ASSUME LifecycleAssumption ==
    /\ Params \subseteq Nat /\ Values \subseteq Nat
    /\ PERIOD_MS \in 1 .. MaxPeriod /\ MaxPeriod \in Nat

VARIABLES
    pc,             \* step of probe, or where the driver stands between calls
    todo,           \* what the error path or remove still has to undo
    unloading,      \* the remove under way is part of module unload
    held,           \* resources acquired and not released
    rx_pin, tx_pin, \* the pins are configured (non-zero)
    uart,           \* priv->uart points to memory
    period_ms, period, half_period,
    armed,          \* timers that are active
    opened,         \* somebody has the device open: its interrupt is enabled
    storing,        \* per storer: its place in period_store
    alone,          \* history: the period was set last by a parameter in range, or by
                    \* a store that no other store met
    stuck,          \* history: pins whose direction could not be set
    yanked          \* history: unbound while it was or became open

confVars == <<rx_pin, tx_pin>>
periodVars == <<period_ms, period, half_period, alone>>
vars == <<pc, todo, unloading, held, confVars, uart, periodVars, armed, opened,
          storing, stuck, yanked>>

(***************************************************************************)
(* The steps of probe in the order of the code.                            *)
(***************************************************************************)
bitbang_sysfs_init == <<"period", "dbg">>

\* A pin is requested, then its direction is set.
gpio_init(request, direction) == <<request, direction>>

\* The interrupt is requested and disabled until the first open.
irq_init == <<"irq">>

bitbang_uart_init == <<"uart">> \o gpio_init("rx_gpio", "rx_dir")
                                \o gpio_init("tx_gpio", "tx_dir") \o irq_init

ProbeSteps == <<"region", "cdev", "class", "device">> \o bitbang_sysfs_init
                  \o <<"proc">> \o bitbang_uart_init

\* Steps that acquire something that has to be given back.
Resources == Range(ProbeSteps) \ {"uart", "rx_dir", "tx_dir"}

\* The labels of the error path of bitbang_probe, each falling into the next.
\* bitbang_sysfs_exit is "period" alone.
Labels == <<"proc", "period", "device", "class", "cdev", "region">>

ErrorPath(from) == SubSeq(Labels, from, Len(Labels))

\* gpio_free of the pins that are configured.
FreePins == (IF rx_pin THEN <<"rx_gpio">> ELSE <<>>) \o (IF tx_pin THEN <<"tx_gpio">> ELSE <<>>)

(***************************************************************************)
(* What is undone when step s fails.  gpio_init keeps the pin when only    *)
(* its direction fails, and bitbang_uart_init frees the other pin only.    *)
(***************************************************************************)
UndoAfter(s) ==
    CASE s = "region" -> <<>>
      [] s = "cdev"   -> ErrorPath(6)
      [] s = "class"  -> ErrorPath(5)
      [] s = "device" -> ErrorPath(4)
      [] s = "period" -> ErrorPath(3)
      [] s = "dbg"    -> ErrorPath(2)
      [] s \in {"uart", "rx_gpio", "rx_dir"} -> ErrorPath(1)
      [] s \in {"tx_gpio", "tx_dir"} ->
            (IF rx_pin THEN <<"rx_gpio">> ELSE <<>>) \o ErrorPath(1)
      [] s = "irq"    -> FreePins \o ErrorPath(1)

\* Mutant of RemoveOrder: the receive timer is forgotten.
RemoveTxTimerOnly ==
    <<"tx_timer">> \o (IF rx_pin THEN <<"irq">> ELSE <<>>) \o FreePins \o ErrorPath(1)

\* bitbang_uart_exit and the rest of bitbang_remove.
RemoveOrder ==
    <<"tx_timer", "rx_timer">>
    \o (IF rx_pin THEN <<"irq">> ELSE <<>>) \o FreePins \o ErrorPath(1)

Init ==
    /\ pc = "unloaded" /\ todo = <<>> /\ unloading = FALSE
    /\ held = {}
    /\ rx_pin = FALSE /\ tx_pin = FALSE
    /\ uart = FALSE
    /\ period_ms = 0 /\ period = 0 /\ half_period = 0 /\ alone = FALSE
    /\ armed = {} /\ opened = FALSE
    /\ storing = [p \in Storers |-> [at |-> "idle", v |-> 0]]
    /\ stuck = {} /\ yanked = FALSE

-----------------------------------------------------------------------------
(* Probe *)

\* bitbang_uart_set_period on values that are in range; others leave the
\* period alone.
InRange(v) == v # 0 /\ v <= MaxPeriod

\* A failed platform_device_register_simple or platform_driver_register undoes
\* itself at once; after both, the driver core calls probe.  Binding again
\* through sysfs calls it too.  The parameters are writable: a period of 0
\* means the default, a pin of 0 that it is not used.
StartProbe(param, rxp, txp) ==
    /\ pc \in {"unloaded", "unbound"}
    /\ pc' = ProbeSteps[1]
    /\ period_ms' = IF param = 0 THEN PERIOD_MS ELSE param
    /\ alone' = InRange(period_ms')
    /\ rx_pin' = rxp /\ tx_pin' = txp
    /\ UNCHANGED <<todo, unloading, held, uart, period, half_period, armed,
                   opened, storing, stuck, yanked>>

NextStep(s) == ProbeSteps[CHOOSE i \in DOMAIN ProbeSteps : i > 1 /\ ProbeSteps[i - 1] = s]

\* Steps for a pin that is not configured are skipped.
Skipped(s) == \/ s \in {"rx_gpio", "rx_dir", "irq"} /\ ~rx_pin
              \/ s \in {"tx_gpio", "tx_dir"} /\ ~tx_pin

Advance(s) == pc' = IF s = "irq" THEN "bound" ELSE NextStep(s)

\* A ktime_t in halves of a millisecond, so that ktime_divns by 2 is exact.
ms_to_ktime(v) == 2 * v

\* A name or a pin that is still taken cannot be acquired again.
ProbeStepOk(s) ==
    /\ pc = s
    /\ s \notin held \/ Skipped(s)
    /\ held' = IF s \in Resources /\ ~Skipped(s) THEN held \union {s} ELSE held
    /\ IF s = "uart"
       THEN /\ uart' = TRUE
            /\ period' = IF InRange(period_ms) THEN ms_to_ktime(period_ms) ELSE 0
            /\ half_period' = period' \div 2
       ELSE UNCHANGED <<uart, period, half_period>>
    /\ Advance(s)
    /\ UNCHANGED <<todo, unloading, confVars, period_ms, alone, armed, opened, storing, stuck, yanked>>

\* A missing proc entry is only warned about.
ProcFails ==
    /\ pc = "proc"
    /\ Advance("proc")
    /\ UNCHANGED <<todo, unloading, held, confVars, uart, periodVars, armed, opened,
                   storing, stuck, yanked>>

ProbeStepFails(s) ==
    /\ pc = s /\ s # "proc" /\ ~Skipped(s)
    /\ pc' = "undoing"
    /\ todo' = UndoAfter(s)
    /\ stuck' = CASE s = "rx_dir" -> stuck \union {"rx_gpio"}
                  [] s = "tx_dir" -> stuck \union {"tx_gpio"}
                  [] OTHER -> stuck
    /\ UNCHANGED <<unloading, held, confVars, uart, periodVars, armed, opened, storing, yanked>>

-----------------------------------------------------------------------------
(* Undoing, and remove *)

Releasing == pc \in {"undoing", "removing"}

\* One release; hrtimer_cancel stops the timer, device_remove_file waits for
\* stores in progress.
Undo ==
    /\ Releasing /\ todo # <<>>
    /\ Head(todo) = "period" => \A p \in Storers : storing[p].at = "idle"
    /\ armed' = armed \ {Head(todo)}
    /\ held' = held \ {Head(todo)}
    /\ todo' = Tail(todo)
    /\ UNCHANGED <<pc, unloading, confVars, uart, periodVars, opened, storing, stuck, yanked>>

\* The core releases the devm memory; unloading goes on to unregister the
\* platform device, which takes its remaining attributes with it.
Released ==
    /\ Releasing /\ todo = <<>>
    /\ uart' = FALSE
    /\ pc' = IF unloading THEN "unloaded" ELSE "unbound"
    /\ held' = IF unloading THEN held \ {"dbg"} ELSE held
    /\ unloading' = FALSE
    /\ UNCHANGED <<todo, confVars, periodVars, armed, opened, storing, stuck, yanked>>

\* Unbinding through sysfs does not mind open files.
Unbind ==
    /\ pc = "bound"
    /\ pc' = "removing" /\ todo' = RemoveOrder
    /\ yanked' = (yanked \/ opened)
    /\ UNCHANGED <<unloading, held, confVars, uart, periodVars, armed, opened, storing, stuck>>

\* mod_exit; an open file holds a reference on the module.
Unload ==
    /\ pc \in {"bound", "unbound"} /\ ~opened
    /\ pc' = "removing"
    /\ todo' = IF pc = "bound" THEN RemoveOrder ELSE <<>>
    /\ unloading' = TRUE
    /\ UNCHANGED <<held, confVars, uart, periodVars, armed, opened, storing, stuck, yanked>>

-----------------------------------------------------------------------------
(* What goes on meanwhile *)

\* The device can be opened until cdev_del, but not of a module that unloads.
OpenFile ==
    /\ pc \in {"bound", "removing"} /\ "cdev" \in held /\ ~unloading /\ ~opened
    /\ opened' = TRUE
    /\ yanked' = (yanked \/ pc = "removing")
    /\ UNCHANGED <<pc, todo, unloading, held, confVars, uart, periodVars, armed, storing,
                   stuck>>

CloseFile ==
    /\ opened
    /\ opened' = FALSE
    /\ UNCHANGED <<pc, todo, unloading, held, confVars, uart, periodVars, armed, storing,
                   stuck, yanked>>

\* A write starts the transmit timer, an edge the receive timer as long as the
\* interrupt is requested and enabled.
StartTimer(t) ==
    /\ uart /\ opened
    /\ t = "rx_timer" => "irq" \in held
    /\ armed' = armed \union {t}
    /\ UNCHANGED <<pc, todo, unloading, held, confVars, uart, periodVars, opened, storing,
                   stuck, yanked>>

\* A callback that has nothing more to do returns HRTIMER_NORESTART.
TimerStops(t) ==
    /\ t \in armed
    /\ armed' = armed \ {t}
    /\ UNCHANGED <<pc, todo, unloading, held, confVars, uart, periodVars, opened, storing,
                   stuck, yanked>>

-----------------------------------------------------------------------------
(* The period attribute *)

\* period_store: out of range is -ERANGE and changes nothing.
period_store(p, v) ==
    /\ pc \in {"bound", "removing"} /\ "period" \in held
    /\ storing[p].at = "idle"
    /\ v >= 1 /\ v <= MaxPeriod
    /\ period_ms' = v
    /\ storing' = [storing EXCEPT ![p] = [at |-> "load", v |-> 0]]
    /\ alone' = \A q \in Storers : storing[q].at = "idle"
    /\ UNCHANGED <<pc, todo, unloading, held, confVars, uart, period, half_period, armed,
                   opened, stuck, yanked>>

\* bitbang_uart_set_period takes no lock: it loads priv->period_ms, ...
SetPeriodLoad(p) ==
    /\ storing[p].at = "load"
    /\ storing' = [storing EXCEPT ![p] = IF InRange(period_ms)
                                         THEN [at |-> "store", v |-> period_ms]
                                         ELSE [at |-> "idle", v |-> 0]]
    /\ UNCHANGED <<pc, todo, unloading, held, confVars, uart, periodVars, armed, opened,
                   stuck, yanked>>

\* ... stores d->period, ...
SetPeriodStore(p) ==
    /\ storing[p].at = "store"
    /\ period' = ms_to_ktime(storing[p].v)
    /\ storing' = [storing EXCEPT ![p].at = "half"]
    /\ UNCHANGED <<pc, todo, unloading, held, confVars, uart, period_ms, half_period, alone,
                   armed, opened, stuck, yanked>>

\* Mutant of SetPeriodHalf: the half period is not updated.
SetPeriodNoHalf(p) ==
    /\ storing[p].at = "half"
    /\ storing' = [storing EXCEPT ![p] = [at |-> "idle", v |-> 0]]
    /\ UNCHANGED <<pc, todo, unloading, held, confVars, uart, periodVars, armed,
                   opened, stuck, yanked>>

\* ... and d->half_period from d->period, which the compiler may have kept.
SetPeriodHalf(p) ==
    /\ storing[p].at = "half"
    /\ half_period' \in {ms_to_ktime(storing[p].v) \div 2, period \div 2}
    /\ storing' = [storing EXCEPT ![p] = [at |-> "idle", v |-> 0]]
    /\ UNCHANGED <<pc, todo, unloading, held, confVars, uart, period_ms, period, alone, armed,
                   opened, stuck, yanked>>

-----------------------------------------------------------------------------

Timers == {"tx_timer", "rx_timer"}

Next ==
    \/ \E v \in Params, rxp, txp \in BOOLEAN : StartProbe(v, rxp, txp)
    \/ \E s \in Range(ProbeSteps) : ProbeStepOk(s) \/ ProbeStepFails(s)
    \/ ProcFails
    \/ Undo \/ Released \/ Unbind \/ Unload
    \/ OpenFile \/ CloseFile
    \/ \E t \in Timers : StartTimer(t) \/ TimerStops(t)
    \/ \E p \in Storers : \/ \E v \in Values : period_store(p, v)
                          \/ SetPeriodLoad(p) \/ SetPeriodStore(p) \/ SetPeriodHalf(p)

Spec == Init /\ [][Next]_vars

-----------------------------------------------------------------------------
(* Properties *)

(***************************************************************************)
(* Every variable keeps its type.                                          *)
(***************************************************************************)
TypeOK ==
    /\ pc \in {"unloaded", "unbound", "bound", "undoing", "removing"} \union Range(ProbeSteps)
    /\ todo \in Seq(Resources \union Timers)
    /\ unloading \in BOOLEAN /\ held \subseteq Resources
    /\ rx_pin \in BOOLEAN /\ tx_pin \in BOOLEAN /\ uart \in BOOLEAN
    /\ period_ms \in Nat /\ period \in 0 .. ms_to_ktime(MaxPeriod) /\ half_period \in 0 .. MaxPeriod
    /\ alone \in BOOLEAN
    /\ armed \subseteq Timers /\ opened \in BOOLEAN
    /\ storing \in [Storers -> [at : {"idle", "load", "store", "half"}, v : 0 .. MaxPeriod]]
    /\ stuck \subseteq {"rx_gpio", "tx_gpio"} /\ yanked \in BOOLEAN

(***************************************************************************)
(* Neither an error path nor remove releases what is not held, or twice:   *)
(* all that is left to undo is held (a missing proc entry is tested for).  *)
(***************************************************************************)
UndoesOnlyHeld ==
    \A i \in DOMAIN todo : todo[i] \in Resources \ {"proc"} =>
        /\ todo[i] \in held
        /\ \A j \in DOMAIN todo : todo[j] = todo[i] => j = i

(***************************************************************************)
(* After a failed probe, an unbind or an unload nothing is left but the    *)
(* dbg attribute, which bitbang_sysfs_exit forgets until the platform      *)
(* device goes away, and a pin whose direction could not be set, which     *)
(* gpio_init never frees.                                                  *)
(***************************************************************************)
OnlyKnownLeaks ==
    /\ pc = "unbound"  => held \subseteq {"dbg"} \union stuck
    /\ pc = "unloaded" => held \subseteq stuck

(***************************************************************************)
(* Once the driver's memory is gone no timer is armed that would use it,   *)
(* unless the device was unbound under an open file: bitbang_uart_exit     *)
(* cancels the timers before it frees the interrupt that can start one.    *)
(***************************************************************************)
TimersStopped == ~uart /\ ~yanked => armed = {}

(***************************************************************************)
(* What bitbang_probe acquires is given back, once, on every path: by its  *)
(* labels, by bitbang_uart_init for itself, by remove and at unload.       *)
(***************************************************************************)
LifecycleInv == TypeOK /\ UndoesOnlyHeld /\ OnlyKnownLeaks /\ TimersStopped

(***************************************************************************)
(* Any number of processes may write the attribute at the same time, and   *)
(* bitbang_uart_set_period takes no lock: two stores that meet leave a     *)
(* period that is not the one shown, or half of another.  But a store that *)
(* meets no other puts all of it right again, whatever the parameter was   *)
(* and whatever stores before it left: with nobody in period_store, the    *)
(* driver runs at the period it shows and samples in the middle of a bit.  *)
(***************************************************************************)
PeriodSettles ==
    pc = "bound" /\ alone /\ (\A p \in Storers : storing[p].at = "idle") =>
        period = ms_to_ktime(period_ms) /\ 2 * half_period = period

(***************************************************************************)
(* "Period: msec per bit": with nobody in period_store, the driver runs at *)
(* the period that the parameter and the attribute show, and samples in    *)
(* the middle of a bit.  (Not with a parameter out of range, which is      *)
(* shown but leaves the period 0.)                                         *)
(***************************************************************************)
PeriodInEffect ==
    pc = "bound" /\ (\A p \in Storers : storing[p].at = "idle") =>
        period = ms_to_ktime(period_ms) /\ 2 * half_period = period
=============================================================================

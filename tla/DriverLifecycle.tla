-------------------------- MODULE DriverLifecycle ---------------------------
(***************************************************************************)
(* Loading, probing, unbinding, binding again and unloading the kernel     *)
(* modules of DriverTables, with a failure at every step that can fail.    *)
(* One module is followed from load to load; each acquisition and each     *)
(* release is a step, because what is already registered calls back into   *)
(* the driver while the rest of init, probe or remove still runs.          *)
(***************************************************************************)
EXTENDS DriverTables, Naturals, FiniteSets, SequencesExt

CONSTANT Drivers        \* the modules that are followed

ASSUME DriversAssumption == Drivers \subseteq DOMAIN Table

VARIABLES
    drv,        \* the module
    at,         \* "out", "in" or the function that is running
    i,          \* its next step, when it acquires
    todo,       \* what it still gives back, when it releases
    after,      \* where it ends, when it releases
    held,       \* resources acquired and not given back
    lost,       \* those that nobody can give back any more
    bound,      \* probe has succeeded and remove not begun
    open,       \* a file on the node is open
    misused,    \* history: releases of what was not held
    dangling    \* history: releases through memory that was gone

vars == <<drv, at, i, todo, after, held, lost, bound, open, misused, dangling>>

D == Table[drv]

\* Steps that only test or set something: there is nothing to give back.
Checks == {"pins", "dir", "rx_dir", "tx_dir", "irqnr"}

\* Names and lines that one owner at a time can have.
Exclusive == {"gpio", "rx_pin", "tx_pin", "irq", "proc", "kobj", "class", "device", "attr", "dbg", "misc", "chrdev",
              "ttydev", "pdev", "pdrv"}

Steps == IF at = "init" THEN D.init ELSE D.probe

\* The driver core gives back managed resources, the newest first.
Devres == Reverse(SelectSeq(D.probe, LAMBDA r : r \in D.devm /\ r \in held))

Init ==
    /\ drv \in Drivers
    /\ at = "out" /\ i = 1 /\ todo = <<>> /\ after = "out"
    /\ held = {} /\ lost = {} /\ bound = FALSE
    /\ open = FALSE
    /\ misused = {} /\ dangling = {}

-----------------------------------------------------------------------------
(* init and probe *)

Load ==
    /\ at = "out" /\ ~open
    /\ at' = "init" /\ i' = 1
    /\ UNCHANGED <<drv, lost, todo, after, held, bound, open, misused, dangling>>

\* Probe runs when the driver is registered and init has ended: device and
\* driver match.  A module without steps left is in.
Advance ==
    IF i < Len(Steps) THEN i' = i + 1 /\ UNCHANGED <<at, bound>>
    ELSE /\ i' = 1
         /\ at' = IF at = "init" /\ "pdrv" \in held' THEN "probe" ELSE "in"
         /\ bound' = (at = "probe")

\* The error path: a failed init leaves the module out, a failed probe leaves
\* it in and unbound, with the managed resources given back by the core.
Fail(s) ==
    IF at = "init" THEN todo' = D.undo[s] /\ after' = "out"
    ELSE todo' = D.undo[s] \o Devres /\ after' = "in"

StepOk ==
    /\ at \in {"init", "probe"}
    /\ i \in DOMAIN Steps
    /\ LET s == Steps[i] IN
       /\ ~(s \in Exclusive /\ s \in lost)
       /\ s \in DOMAIN D.tested => D.tested[s] \in held \union {s}
       /\ held' = IF s \in Checks THEN held ELSE held \union {s}
       /\ IF s \in D.misread
          THEN at' = "undo" /\ Fail(s) /\ UNCHANGED <<i, bound>>
          ELSE Advance /\ UNCHANGED <<todo, after>>
    /\ UNCHANGED <<drv, lost, open, misused, dangling>>

StepFails ==
    /\ at \in {"init", "probe"}
    /\ i \in DOMAIN Steps
    /\ UNCHANGED held
    /\ LET s == Steps[i] IN
       \/ /\ s \in DOMAIN D.undo
          /\ at' = "undo" /\ Fail(s) /\ UNCHANGED <<i, bound>>
       \/ /\ s \in D.optional
          /\ Advance /\ UNCHANGED <<todo, after>>
    /\ UNCHANGED <<drv, lost, open, misused, dangling>>

\* A probe function without acquisitions.
EmptyProbe ==
    /\ at = "probe" /\ D.probe = <<>>
    /\ at' = "in" /\ bound' = TRUE
    /\ UNCHANGED <<drv, lost, i, todo, after, held, open, misused, dangling>>

-----------------------------------------------------------------------------
(* remove and exit *)

\* Writing to the driver's unbind attribute: open files do not prevent it.
Unbind ==
    /\ at = "in" /\ bound
    /\ at' = "undo" /\ bound' = FALSE
    /\ todo' = D.remove \o Devres /\ after' = "in"
    /\ UNCHANGED <<drv, lost, i, held, open, misused, dangling>>

Bind ==
    /\ at = "in" /\ ~bound /\ "pdrv" \in held
    /\ at' = "probe" /\ i' = 1
    /\ UNCHANGED <<drv, lost, todo, after, held, bound, open, misused, dangling>>

\* rmmod: refused while a file is open, because the node's owner is the module.
\* Unregistering the platform driver calls remove when it is bound.
Unload ==
    /\ at = "in" /\ ~open
    /\ at' = "undo" /\ bound' = FALSE
    /\ todo' = (IF bound THEN D.remove \o Devres ELSE <<>>) \o D.exit /\ after' = "out"
    /\ UNCHANGED <<drv, lost, i, held, open, misused, dangling>>

\* What is acquired in the same function as the structure is reached through
\* it, but for what is a static variable.
InMem(r) == /\ r \notin {"gdev", "pdrv"}
            /\ \E list \in {D.init, D.probe} : {"mem", r} \subseteq Range(list)

Release ==
    /\ at = "undo" /\ todo # <<>>
    /\ todo' = Tail(todo)
    /\ LET r == Head(todo)
           present == r \in DOMAIN D.tested => D.tested[r] \in held
       IN  /\ held' = held \ {r}
           /\ misused' = IF present /\ r \notin held THEN misused \union {r} ELSE misused
           /\ dangling' = IF InMem(r) /\ "mem" \notin held /\ r \notin D.devm
                          THEN dangling \union {r} ELSE dangling
    /\ UNCHANGED <<drv, lost, at, i, after, bound, open>>

\* The function ends.  The next probe or load starts with new variables: what
\* it left behind is out of reach.  An attribute of the module's own device goes
\* with the device.
Return ==
    /\ at = "undo" /\ todo = <<>>
    /\ at' = after
    /\ held' = IF after = "in" THEN held \intersect Range(D.init) ELSE {}
    /\ lost' = (lost \union (held \ held')) \ (IF "pdev" \notin held' THEN {"dbg"} ELSE {})
    /\ UNCHANGED <<drv, i, todo, after, bound, open, misused, dangling>>

-----------------------------------------------------------------------------
(* User space *)

\* The node can be opened as soon as it is registered, until the module goes.
OpenFile ==
    /\ D.node \in held /\ ~open
    /\ at # "out" /\ ~(at = "undo" /\ after = "out")
    /\ open' = TRUE
    /\ UNCHANGED <<drv, lost, at, i, todo, after, held, bound, misused, dangling>>

CloseFile ==
    /\ open
    /\ open' = FALSE
    /\ UNCHANGED <<drv, lost, at, i, todo, after, held, bound, misused, dangling>>

Next == \/ Load \/ StepOk \/ StepFails \/ EmptyProbe
        \/ Unbind \/ Bind \/ Unload \/ Release \/ Return
        \/ OpenFile \/ CloseFile

Spec == Init /\ [][Next]_vars

-----------------------------------------------------------------------------

TypeOK ==
    /\ drv \in Drivers
    /\ at \in {"out", "in", "init", "probe", "undo"} /\ after \in {"out", "in"}
    /\ i \in 1 .. 16
    /\ LET resources == (Range(D.init) \union Range(D.probe)) \ Checks IN
       /\ held \union lost \subseteq resources /\ Range(todo) \subseteq resources
       /\ misused \subseteq resources /\ dangling \subseteq resources
    /\ {bound, open} \subseteq BOOLEAN

(***************************************************************************)
(* What is known to stay behind.  Error paths without tty_port_destroy or  *)
(* put_tty_driver; gpio_uart_tty_gpiod returns with its timer running;     *)
(* device_destroy leaves the tty core's character device; the misread      *)
(* result leaves the registered tty device; the regulators stay on when a  *)
(* pin is missing; the SPI slave never disables its clocks, and leaves the *)
(* controller when the proc entry fails; the bitbang UART leaves an        *)
(* attribute, without which it cannot be bound again, and the pin whose    *)
(* direction could not be set.                                             *)
(***************************************************************************)
Leaks ==
    CASE drv = "gpio_uart_tty"       -> {"port"}
      [] drv = "gpio_uart_tty_gpiod" -> {"mem", "timer", "tty_drv", "tty_reg", "port"}
      [] drv = "softuart_tty"        -> {"tty_cdev"}
      [] drv = "tty_loopback"        -> {"port", "ttydev"}
      [] drv = "softuart_tty_main"   -> {"work", "tty_drv", "port", "ttydev"}
      [] drv = "dummy_uart"          -> {"tty_drv", "port"}
      [] drv = "regulator"           -> {"enabled"}
      [] drv = "spi_slave"           -> {"mem", "ctlr", "per_on", "ipg_on"}
      [] drv = "bitbang"             -> {"dbg", "rx_pin", "tx_pin"}
      [] OTHER -> {}

\* Once init, probe, remove or exit has ended on any path, nothing of what it
\* acquired stays behind, but for the leaks above: every other driver can be
\* loaded and bound again after any failure.
OnlyKnownLeaks == lost \subseteq Leaks

\* No error path and no remove or exit function gives back what is not held:
\* not twice, and not what was never acquired.  The exceptions: the attribute
\* group, removed even when its creation failed, and the drivers that do not
\* look at the result of platform_driver_register and unregister all the same.
UndoesOnlyHeld ==
    misused \subseteq
        CASE drv \in {"gpio_uart_tty", "gpio_uart_tty_gpiod"} -> {"group"}
          [] drv \in {"dtmod", "platform_testmod", "regulator", "gpioirq"} -> {"pdrv"}
          [] OTHER -> {}

\* No release reaches its resource through the driver's structure after the
\* structure is freed.  The exception is the SPI slave's remove, which frees
\* ring and packets through the data that spi_master_put has just freed.
ReleasesUseLiveMemory ==
    dangling \subseteq IF drv = "spi_slave" THEN {"ring", "packets"} ELSE {}

(***************************************************************************)
(* Pairs of a callback and what it relies on that may be missing.  The     *)
(* pointer set after the device or the attribute is visible; interrupt,    *)
(* timers and fifos set after it, and gone before it; a pointer nobody     *)
(* sets; the tty device of the misread result under an open file; the      *)
(* controller registered before its ring and left when the proc entry      *)
(* fails; and what is left registered when the module's code goes.         *)
(***************************************************************************)
Exposed ==
    CASE drv = "gpio_uart_tty_gpiod" -> {<<"timer", "code">>}
      [] drv = "kfifo_rxtx" -> {<<"cdev", "gdev">>}
      [] drv = "simple_pdrv_cdev_full" -> {<<"attr", "drvdata">>}
      [] drv = "tty_loopback" -> {<<"ttydev", "mem">>}
      [] drv = "softuart_tty_main" -> {"ttydev"} \X {"mem", "tty_data"}
      [] drv = "bitbang" -> ({"cdev"} \X {"uart", "irq", "timers"})
                            \union ({"attr"} \X {"drvdata", "uart"}) \union {<<"irq", "timers">>}
      [] drv = "spi_slave" -> {"ctlr"} \X {"packets", "ring", "base", "per_on", "ipg_on", "code"}
      [] OTHER -> {}

\* Callback c of what is held, or of what was lost but is still registered, can
\* happen.  A tty device leads to its driver through the driver's registration,
\* or through a file opened before that went.
Callable(c, owned) ==
    /\ c \in owned \intersect DOMAIN D.uses
    /\ c = "ttydev" => "tty_reg" \in owned \/ open

\* What it relies on that is not there: of its own probe, and the module's code.
Missing(c, owned) == (D.uses[c] \ owned) \union (IF at = "out" THEN {"code"} ELSE {})

\* In every state, also in the middle of init, probe, remove and exit, what
\* can call back into the driver finds what it relies on: the structure, its
\* fifos, the pin of its interrupt.  That includes what an error path or remove
\* left registered.
CallbacksFindTheirData ==
    \A owned \in {held, lost} : \A c \in DOMAIN D.uses :
        Callable(c, owned) => \A u \in Missing(c, owned) : <<c, u>> \in Exposed

\* While a file is open, what the module's init function acquired is there for
\* it, on every path; what probe acquired goes when the driver is unbound, or
\* when a later step of probe fails, under the open file.
FilesFindTheirData ==
    open /\ D.node \in DOMAIN D.uses =>
        \A u \in (D.uses[D.node] \intersect Range(D.init)) \ held : <<D.node, u>> \in Exposed

\* Every release, in every error path, remove and exit function, gives back
\* something that is held and reaches it through memory that is still there.
ReleaseInv == TypeOK /\ UndoesOnlyHeld /\ ReleasesUseLiveMemory

\* Whoever calls into a driver, at any moment of init, probe, remove and exit
\* and through a file that was opened earlier, finds what the call relies on.
AccessInv == CallbacksFindTheirData /\ FilesFindTheirData
=============================================================================

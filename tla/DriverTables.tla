---------------------------- MODULE DriverTables ----------------------------
(***************************************************************************)
(* What the kernel modules of the repository acquire and give back, one    *)
(* record for each module:                                                 *)
(*   init     acquisitions of the module's init function, in order;        *)
(*   probe    those of its probe function ("pdrv" in init makes it a       *)
(*            platform driver; the driver core calls probe and remove);    *)
(*   undo     for a step whose failure is noticed, what its error path     *)
(*            gives back, in order (nothing else can fail);                *)
(*   optional steps whose failure is passed over;                          *)
(*   misread  steps whose success the code takes for a failure;            *)
(*   remove, exit   what those functions give back, in order;              *)
(*   tested   steps and releases made only when the named one is there;    *)
(*   devm     what the driver core gives back after a failed probe or a    *)
(*            remove, newest first;                                        *)
(*   node     what user space opens, or "none";                            *)
(*   uses     for what calls back into the driver (a node, an attribute,   *)
(*            an interrupt, a timer, a bus), what the callback relies on.  *)
(* "mem" is the driver's own structure and "drvdata" the pointer to it.    *)
(***************************************************************************)
EXTENDS Sequences

\* A platform driver that registers its own device: init and exit are the same
\* in all of them, written out once.
PdevInit == [init |-> <<"pdev", "pdrv">>, exit |-> <<"pdrv", "pdev">>,
             undo |-> [pdev |-> <<>>, pdrv |-> <<"pdev">>]]

\* The fields a driver does not mention.
Plain == [init |-> <<>>, probe |-> <<>>, undo |-> [none |-> <<>>], optional |-> {}, misread |-> {},
          remove |-> <<>>, exit |-> <<>>, tested |-> [none |-> "none"], devm |-> {},
          node |-> "none", uses |-> [none |-> {}]]

\* d with the fields of e added or replaced; undo tables are joined.
With(d, e) ==
    [f \in DOMAIN d |->
        IF f \notin DOMAIN e THEN d[f]
        ELSE IF f = "undo"
             THEN [s \in DOMAIN d.undo \union DOMAIN e.undo |->
                      IF s \in DOMAIN e.undo THEN e.undo[s] ELSE d.undo[s]]
             ELSE e[f]]

Platform == With(Plain, PdevInit)

-----------------------------------------------------------------------------
(* Soft UARTs with a tty *)

\* The direction and descriptor checks fail before the timer starts.  The port
\* has no release on the error path.
gpio_uart_tty == With(Plain,
    [init |-> <<"mem", "pins", "timer", "tty_drv", "tty_reg", "port", "ttydev", "proc", "kobj", "group">>,
     undo |-> [mem |-> <<>>, pins |-> <<"mem">>, tty_drv |-> <<"timer", "mem">>,
               tty_reg |-> <<"tty_drv", "timer", "mem">>,
               ttydev |-> <<"tty_reg", "tty_drv", "timer", "mem">>],
     optional |-> {"proc", "kobj", "group"},
     exit |-> <<"group", "kobj", "proc", "timer", "ttydev", "tty_reg", "tty_drv", "port", "mem">>,
     tested |-> [group |-> "kobj", kobj |-> "kobj", proc |-> "proc"],
     node |-> "ttydev",
     uses |-> [timer |-> {"mem"}, ttydev |-> {"mem", "port"}, proc |-> {"mem"}, group |-> {"mem"}]])

\* As gpio_uart_tty without the pins.  A failed registration returns at once;
\* a failed alloc_tty_driver is not noticed (the next line would fault).
gpio_uart_tty_gpiod == With(Plain,
    [init |-> <<"mem", "timer", "tty_drv", "tty_reg", "port", "ttydev", "proc", "kobj", "group">>,
     undo |-> [mem |-> <<>>, tty_reg |-> <<>>, ttydev |-> <<>>],
     optional |-> {"proc", "kobj", "group"},
     exit |-> <<"group", "kobj", "proc", "timer", "ttydev", "tty_reg", "tty_drv", "port", "mem">>,
     tested |-> [group |-> "kobj", kobj |-> "kobj", proc |-> "proc"],
     node |-> "ttydev",
     uses |-> [timer |-> {"mem"}, ttydev |-> {"mem", "port"}, proc |-> {"mem"}, group |-> {"mem"}]])

\* Mutant of softuart_tty: exit frees the structure that holds the device's
\* pointer before it uses that pointer.
softuart_tty_early_kfree == With(Plain,
    [init |-> <<"mem", "pdev", "pdrv">>, exit |-> <<"pdrv", "mem", "pdev">>,
     undo |-> [mem |-> <<>>, pdev |-> <<"mem">>, pdrv |-> <<"pdev", "mem">>]])

\* tty_port_register_device makes the node and the tty core's character device
\* ("tty_cdev"); device_destroy in remove takes the node only.
softuart_tty == With(Plain,
    [init  |-> <<"mem", "pdev", "pdrv">>,
     probe |-> <<"port", "tty_drv", "tty_reg", "ttydev", "tty_cdev", "drvdata">>,
     undo  |-> [mem |-> <<>>, pdev |-> <<"mem">>, pdrv |-> <<"pdev", "mem">>,
                tty_drv |-> <<"port">>, tty_reg |-> <<"tty_drv", "port">>,
                ttydev |-> <<"tty_reg", "tty_drv", "port">>],
     remove |-> <<"ttydev", "tty_reg", "tty_drv", "port">>,
     exit   |-> <<"pdrv", "pdev", "mem">>,
     devm   |-> {"drvdata"},
     node   |-> "ttydev",
     uses   |-> [ttydev |-> {"mem", "port"}]])

\* tty_port_register_device returns a pointer: as an int that is not 0 it is
\* taken for an error.
tty_loopback == With(Platform,
    [probe |-> <<"mem", "tty_drv", "tty_reg", "port", "ttydev">>,
     undo  |-> [mem |-> <<>>, tty_drv |-> <<"mem">>, tty_reg |-> <<"tty_drv", "mem">>,
                ttydev |-> <<"tty_reg", "tty_drv", "mem">>],
     misread |-> {"ttydev"},
     remove |-> <<"ttydev", "tty_reg", "tty_drv", "port", "mem">>,
     node |-> "ttydev",
     uses |-> [ttydev |-> {"mem", "port"}]])

\* The same misreading; neither path puts the tty driver, and only remove cancels
\* the work.  Its functions start from tty->driver_data, which nobody sets
\* ("tty_data").
softuart_tty_main == With(Platform,
    [probe |-> <<"mem", "work", "tty_drv", "port", "tty_reg", "ttydev", "drvdata">>,
     undo  |-> [mem |-> <<>>, tty_drv |-> <<>>, tty_reg |-> <<>>, ttydev |-> <<"tty_reg">>],
     misread |-> {"ttydev"},
     remove |-> <<"work", "tty_reg", "port">>,
     devm |-> {"mem", "drvdata"},
     node |-> "ttydev",
     uses |-> [ttydev |-> {"mem", "port", "work", "tty_data"}]])

dummy_uart == With(Platform,
    [probe |-> <<"mem", "tty_drv", "port", "tty_reg", "ttydev", "drvdata">>,
     undo  |-> [mem |-> <<>>, tty_drv |-> <<>>, tty_reg |-> <<>>, ttydev |-> <<"tty_reg">>],
     remove |-> <<"ttydev", "tty_reg", "port">>,
     devm |-> {"mem", "drvdata"},
     node |-> "ttydev",
     uses |-> [ttydev |-> {"mem", "port"}]])

-----------------------------------------------------------------------------
(* Character devices *)

\* Mutant of kfifo_rxtx: the region stays when the device cannot be added.
kfifo_rxtx_region_left == With(Plain,
    [init |-> <<"mem", "region", "cdev">>, exit |-> <<"cdev", "region", "mem">>,
     undo |-> [mem |-> <<>>, region |-> <<"mem">>, cdev |-> <<"mem">>]])

\* "gdev" is the global pointer the file operations start from.
kfifo_rxtx == With(Plain,
    [init |-> <<"mem", "rx_fifo", "tx_fifo", "gpio", "irqnr", "region", "cdev", "gdev">>,
     undo |-> [mem |-> <<>>, rx_fifo |-> <<"mem">>, tx_fifo |-> <<"rx_fifo", "mem">>,
               gpio |-> <<"tx_fifo", "rx_fifo", "mem">>,
               irqnr |-> <<"gpio", "tx_fifo", "rx_fifo", "mem">>,
               region |-> <<"gpio", "tx_fifo", "rx_fifo", "mem">>,
               cdev |-> <<"region", "gpio", "tx_fifo", "rx_fifo", "mem">>],
     exit |-> <<"cdev", "region", "gpio", "rx_fifo", "tx_fifo", "mem", "gdev">>,
     node |-> "cdev",
     uses |-> [cdev |-> {"gdev", "rx_fifo", "tx_fifo", "gpio"}]])

kfifo == With(Plain,
    [init |-> <<"mem", "gpio", "irqnr", "irq", "chrdev">>,
     undo |-> [mem |-> <<>>, gpio |-> <<"mem">>, irqnr |-> <<"gpio", "mem">>, irq |-> <<"gpio", "mem">>,
               chrdev |-> <<"irq", "gpio", "mem">>],
     exit |-> <<"chrdev", "irq", "gpio", "mem">>,
     node |-> "chrdev",
     uses |-> [irq |-> {"mem", "gpio"}, chrdev |-> {"mem"}]])

\* The attribute is there before the pointer its functions start from.
simple_pdrv_cdev_full == With(Platform,
    [probe |-> <<"mem", "region", "cdev", "class", "device", "attr", "drvdata">>,
     undo  |-> [mem |-> <<>>, region |-> <<>>, cdev |-> <<"region">>, class |-> <<"cdev", "region">>,
                device |-> <<"class", "cdev", "region">>,
                attr |-> <<"device", "class", "cdev", "region">>],
     remove |-> <<"attr", "device", "class", "cdev", "region">>,
     devm |-> {"mem", "drvdata"},
     node |-> "cdev",
     uses |-> [cdev |-> {"mem"}, attr |-> {"mem", "drvdata"}]])

(***************************************************************************)
(* The bitbang UART with both pins.  Device and attribute are visible      *)
(* before the pointer and the UART's structure their functions start from; *)
(* the "dbg" attribute is never removed.  What a failure inside            *)
(* bitbang_uart_init gives back itself comes first in its error path:      *)
(* gpio_init keeps the pin whose direction fails.  "timers" stands for the *)
(* lock, wait queues, fifos and timers, initialised last.                  *)
(***************************************************************************)
bitbang == With(Platform,
    [probe |-> <<"mem", "region", "cdev", "class", "device", "attr", "dbg", "proc", "drvdata",
                 "uart", "rx_pin", "rx_dir", "tx_pin", "tx_dir", "irq", "timers">>,
     undo |-> LET created == <<"device", "class", "cdev", "region">>
                  all == <<"proc", "attr">> \o created
              IN  [mem |-> <<>>, region |-> <<>>, cdev |-> <<"region">>, class |-> <<"cdev", "region">>,
                   device |-> <<"class", "cdev", "region">>, attr |-> created,
                   dbg |-> <<"attr">> \o created, uart |-> all, rx_pin |-> all, rx_dir |-> all,
                   tx_pin |-> <<"rx_pin">> \o all, tx_dir |-> <<"rx_pin">> \o all,
                   irq |-> <<"rx_pin", "tx_pin">> \o all],
     optional |-> {"proc"},
     remove |-> <<"timers", "irq", "rx_pin", "tx_pin", "proc", "attr", "device", "class", "cdev", "region">>,
     tested |-> [proc |-> "proc"],
     devm |-> {"mem", "drvdata", "uart"},
     node |-> "cdev",
     uses |-> [cdev |-> {"mem", "uart", "irq", "timers"}, attr |-> {"mem", "drvdata", "uart"},
               proc |-> {"mem"}, irq |-> {"mem", "uart", "rx_pin", "timers"},
               timers |-> {"mem", "uart", "rx_pin", "tx_pin"}]])

\* Mutant of simple_pdrv: the attribute is created before drvdata is set.
simple_pdrv_attr_first == With(Platform,
    [probe |-> <<"mem", "misc", "attr", "drvdata">>,
     undo |-> [mem |-> <<>>, misc |-> <<>>, attr |-> <<"misc">>],
     remove |-> <<"attr", "misc">>, devm |-> {"mem", "drvdata"},
     node |-> "misc", uses |-> [misc |-> {"mem"}, attr |-> {"mem", "drvdata"}]])

simple_pdrv == With(Platform,
    [probe |-> <<"mem", "misc", "drvdata", "attr">>,
     undo |-> [mem |-> <<>>, misc |-> <<>>, attr |-> <<"misc">>],
     remove |-> <<"attr", "misc">>,
     devm |-> {"mem", "drvdata"},
     node |-> "misc",
     uses |-> [misc |-> {"mem"}, attr |-> {"mem", "drvdata"}]])

-----------------------------------------------------------------------------
(* GPIO drivers *)

\* Its handler uses the pin; value and pin number are static.
mygpio_full == With(Platform,
    [probe |-> <<"gpio", "dir", "irqnr", "irq", "region", "cdev">>,
     undo |-> [gpio |-> <<>>, dir |-> <<"gpio">>, irqnr |-> <<"gpio">>, irq |-> <<"gpio">>,
               region |-> <<"irq", "gpio">>, cdev |-> <<"region", "irq", "gpio">>],
     remove |-> <<"cdev", "region", "irq", "gpio">>,
     node |-> "cdev",
     uses |-> [irq |-> {"gpio"}]])

mygpio_single == With(Platform,
    [probe |-> <<"gpio", "dir", "irqnr", "irq">>,
     undo |-> [gpio |-> <<>>, dir |-> <<"gpio">>, irqnr |-> <<"gpio">>, irq |-> <<"gpio">>],
     remove |-> <<"irq", "gpio">>,
     uses |-> [irq |-> {"gpio"}]])

\* module_platform_driver: the device comes from elsewhere.
ModulePlatformDriver == With(Plain, [init |-> <<"pdrv">>, exit |-> <<"pdrv">>, undo |-> [pdrv |-> <<>>]])

pdrv_gpio_sysfs == With(ModulePlatformDriver,
    [probe |-> <<"gpio", "dir", "irqnr", "irq">>,
     undo |-> [gpio |-> <<>>, dir |-> <<"gpio">>, irqnr |-> <<"gpio">>, irq |-> <<"gpio">>],
     remove |-> <<"irq", "gpio">>,
     uses |-> [irq |-> {"gpio"}]])

\* The other copies in the repository differ in the pin number only.
mygpio_single_gpt == mygpio_single
pdrv_gpio_sysfs_gpt == pdrv_gpio_sysfs

pdrv_sysfs == ModulePlatformDriver
pdrv_sysfs_gpt == ModulePlatformDriver

-----------------------------------------------------------------------------
(* Device tree drivers, whose init does not look at the registration's result *)

Unchecked == With(Plain, [init |-> <<"pdrv">>, exit |-> <<"pdrv">>, optional |-> {"pdrv"}])

dtmod == Unchecked
platform_testmod == Unchecked

\* The supplies are enabled in probe and disabled in remove only.
regulator == With(Unchecked,
    [probe |-> <<"mem", "drvdata", "supplies", "enabled", "enable_gpio", "reset_gpio", "dcdc_en_gpio">>,
     undo |-> [mem |-> <<>>, supplies |-> <<>>, enabled |-> <<>>,
               enable_gpio |-> <<>>, reset_gpio |-> <<>>, dcdc_en_gpio |-> <<>>],
     remove |-> <<"enabled">>,
     devm |-> {"mem", "drvdata", "supplies", "enable_gpio", "reset_gpio", "dcdc_en_gpio"}])

\* remove does nothing: everything is managed.
gpioirq == With(Unchecked,
    [probe |-> <<"mem", "drvdata", "gpio", "irq">>,
     undo |-> [mem |-> <<>>, gpio |-> <<>>, irq |-> <<>>],
     devm |-> {"mem", "drvdata", "gpio", "irq"},
     uses |-> [irq |-> {"mem", "gpio"}]])

(***************************************************************************)
(* The SPI slave.  "mem" is the controller with its data; registering it   *)
(* ("ctlr") takes a reference, so that after a failed proc entry, when the *)
(* controller stays registered, spi_master_put does not free it.  Ring and *)
(* packets are made after the registration, without a look at the result,  *)
(* and freed after the data.                                               *)
(***************************************************************************)
spi_slave == With(ModulePlatformDriver,
    [probe |-> <<"mem", "base", "irqnr", "clk_ipg", "clk_per", "per_on", "ipg_on", "ctlr",
                 "packets", "ring", "proc">>,
     undo |-> [mem |-> <<>>, base |-> <<"mem">>, irqnr |-> <<"mem">>,
               clk_ipg |-> <<"mem">>, clk_per |-> <<"mem">>, per_on |-> <<"mem">>,
               ipg_on |-> <<"per_on", "mem">>, ctlr |-> <<"ipg_on", "per_on", "mem">>,
               proc |-> <<"packets", "ring", "ipg_on", "per_on">>],
     optional |-> {"packets", "ring"},
     remove |-> <<"proc", "ctlr", "mem", "ring", "packets">>,
     tested |-> [packets |-> "packets", ring |-> "ring"],
     devm |-> {"base", "clk_ipg", "clk_per"},
     node |-> "ctlr",
     uses |-> [ctlr |-> {"mem", "base", "per_on", "ipg_on", "packets", "ring"}, proc |-> {"mem"}]])

-----------------------------------------------------------------------------

Table == [gpio_uart_tty |-> gpio_uart_tty, gpio_uart_tty_gpiod |-> gpio_uart_tty_gpiod,
          softuart_tty |-> softuart_tty, tty_loopback |-> tty_loopback,
          softuart_tty_main |-> softuart_tty_main, dummy_uart |-> dummy_uart,
          kfifo_rxtx |-> kfifo_rxtx, kfifo |-> kfifo,
          simple_pdrv_cdev_full |-> simple_pdrv_cdev_full, simple_pdrv |-> simple_pdrv,
          mygpio_full |-> mygpio_full, mygpio_single |-> mygpio_single,
          mygpio_single_gpt |-> mygpio_single_gpt, pdrv_gpio_sysfs |-> pdrv_gpio_sysfs,
          pdrv_gpio_sysfs_gpt |-> pdrv_gpio_sysfs_gpt, pdrv_sysfs |-> pdrv_sysfs,
          pdrv_sysfs_gpt |-> pdrv_sysfs_gpt, dtmod |-> dtmod, platform_testmod |-> platform_testmod,
          regulator |-> regulator, gpioirq |-> gpioirq, spi_slave |-> spi_slave,
          bitbang |-> bitbang]
=============================================================================

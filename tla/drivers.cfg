SPECIFICATION Spec
CONSTANT Drivers = {"gpio_uart_tty", "gpio_uart_tty_gpiod", "softuart_tty", "tty_loopback",
    "softuart_tty_main", "dummy_uart", "kfifo_rxtx", "kfifo", "simple_pdrv_cdev_full",
    "simple_pdrv", "mygpio_full", "mygpio_single", "mygpio_single_gpt", "pdrv_gpio_sysfs",
    "pdrv_gpio_sysfs_gpt", "pdrv_sysfs", "pdrv_sysfs_gpt", "dtmod", "platform_testmod",
    "regulator", "gpioirq", "spi_slave", "bitbang"}
INVARIANTS OnlyKnownLeaks ReleaseInv AccessInv

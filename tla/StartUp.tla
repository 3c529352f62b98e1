------------------------------ MODULE StartUp ------------------------------
(***************************************************************************)
(* From reset to the main loop: SYS_Initialize                             *)
(* (src/firmware/src/system_config/default/system_init.c) with the clock,  *)
(* device control and ports services it calls, and main                    *)
(* (src/firmware/src/main.c).  A step is a statement; what the configuration *)
(* bits and the registers make of the hardware is external.                *)
(***************************************************************************)
EXTENDS Naturals, Sequences

VARIABLES
  step,         \* the statement of SYS_Initialize and main that is next
  ready,        \* members of sysObj whose modules have been initialised
  interrupts,   \* external: the processor takes interrupts
  locked,       \* external: the system registers are locked
  pb_divisor,   \* external: divisor of the peripheral bus
  wait_states,  \* external: wait states of the program memory
  hv_en,        \* external: latch of the high voltage, enabled by a low level
  eth_nrst,     \* external: latch of the Ethernet PHY, in reset at a low level
  hv_output     \* external: the pin of the high voltage is an output

hardware_vars == <<interrupts, locked, pb_divisor, wait_states>>
pin_vars == <<hv_en, eth_nrst, hv_output>>
vars == <<step, ready, hardware_vars, pin_vars>>

Level == {0, 1}

\* The modules in the order in which SYS_Initialize initialises them.
SysObj == << "drvI2C0", "spiObjectIdx0", "spiObjectIdx1", "drvMiim", "drvNvm",
             "drvSst25Obj0", "drvTmr0", "drvUsart0", "drvUSBObject",
             "sysConsole0", "sysTmr", "netPres", "tcpip", "usbDevObject0" >>

Statements ==
  << "SYS_DEVCON_SystemUnlock", "SYS_CLK_Initialize", "SYS_DEVCON_SystemLock",
     "SYS_DEVCON_PerformanceConfig", "PLIB_PORTS_Write",
     "PLIB_PORTS_DirectionOutputSet" >>
  \o SysObj \o << "SYS_INT_Enable", "APP_Initialize_Real" >>

Running == step > Len(Statements)

Reach(statement) ==
  /\ step \in DOMAIN Statements /\ Statements[step] = statement
  /\ step' = step + 1

(***************************************************************************)
(* Clocks in MHz.  The configuration bits select the primary oscillator    *)
(* with its PLL; the services do not read them back but take the values of *)
(* system_config.h for granted.                                            *)
(***************************************************************************)
SystemClock ==
  LET SYS_CLK_CONFIG_PRIMARY_XTAL == 8
      FPLLIDIV == 2
      FPLLMUL == 20
      FPLLODIV == 1
  IN  ((SYS_CLK_CONFIG_PRIMARY_XTAL \div FPLLIDIV) * FPLLMUL) \div FPLLODIV

FPBDIV == 2
SYS_CLK_FREQ == 80
SYS_CLK_BUS_PERIPHERAL_1 == 40

SYS_CLK_SystemFrequencyGet == SYS_CLK_FREQ
SYS_CLK_PeripheralFrequencyGet == SYS_CLK_BUS_PERIPHERAL_1

\* Wait states of the program memory, at most as fast as the memory allows.
WaitStates(sysclk) ==
  IF sysclk <= 30 THEN 0 ELSE IF sysclk <= 60 THEN 1
  ELSE IF sysclk <= 80 THEN 2 ELSE 3

\* After a reset: slow memory, inputs only, latches as they happen to be.
Init ==
  /\ step = 1 /\ ready = {}
  /\ interrupts = FALSE /\ locked = TRUE
  /\ pb_divisor = FPBDIV /\ wait_states = 7
  /\ hv_en \in Level /\ eth_nrst \in Level /\ hv_output = FALSE

Reset ==
  /\ step' = 1 /\ ready' = {}
  /\ interrupts' = FALSE /\ locked' = TRUE
  /\ pb_divisor' = FPBDIV /\ wait_states' = 7
  /\ hv_en' \in Level /\ eth_nrst' \in Level /\ hv_output' = FALSE

(***************************************************************************)
(* Statements which must not be interrupted leave interrupts as they were. *)
(***************************************************************************)
PLIB_INT_Restore(int_flag) == interrupts' = int_flag

SYS_DEVCON_SystemUnlock ==
  /\ Reach("SYS_DEVCON_SystemUnlock")
  /\ PLIB_INT_Restore(interrupts)
  /\ locked' = FALSE
  /\ UNCHANGED <<ready, pb_divisor, wait_states, pin_vars>>

\* A defect: interrupts are enabled whether or not they were before.
SYS_DEVCON_SystemLock_Enables ==
  /\ Reach("SYS_DEVCON_SystemLock")
  /\ PLIB_INT_Restore(TRUE)
  /\ locked' = TRUE
  /\ UNCHANGED <<ready, pb_divisor, wait_states, pin_vars>>

SYS_DEVCON_SystemLock ==
  /\ Reach("SYS_DEVCON_SystemLock")
  /\ PLIB_INT_Restore(interrupts)
  /\ locked' = TRUE
  /\ UNCHANGED <<ready, pb_divisor, wait_states, pin_vars>>

\* The divisor cannot be written while the registers are locked.
SYS_CLK_Initialize ==
  /\ Reach("SYS_CLK_Initialize")
  /\ pb_divisor' = IF locked THEN pb_divisor ELSE 2
  /\ UNCHANGED <<ready, interrupts, locked, wait_states, pin_vars>>

SYS_DEVCON_PerformanceConfig ==
  /\ Reach("SYS_DEVCON_PerformanceConfig")
  /\ PLIB_INT_Restore(interrupts)
  /\ wait_states' = WaitStates(SYS_CLK_SystemFrequencyGet)
  /\ UNCHANGED <<ready, locked, pb_divisor, pin_vars>>

\* A defect: a pin is made an output before its latch is written.
PLIB_PORTS_Write_Late ==
  /\ Reach("PLIB_PORTS_Write")
  /\ hv_output' = TRUE
  /\ UNCHANGED <<ready, hardware_vars, hv_en, eth_nrst>>

\* SYS_PORTS_Initialize: first the latches of a port, then its directions.
PLIB_PORTS_Write ==
  /\ Reach("PLIB_PORTS_Write")
  /\ hv_en' = 1 /\ eth_nrst' = 0
  /\ UNCHANGED <<ready, hardware_vars, hv_output>>

PLIB_PORTS_DirectionOutputSet ==
  /\ Reach("PLIB_PORTS_DirectionOutputSet")
  /\ hv_output' = TRUE
  /\ UNCHANGED <<ready, hardware_vars, hv_en, eth_nrst>>

\* The stack resets the PHY while it is brought up.
APP_Network_PHY_Reset == eth_nrst' = 1

InitializeModule(object) ==
  /\ Reach(object)
  /\ ready' = ready \cup {object}
  /\ IF object = "tcpip" THEN APP_Network_PHY_Reset ELSE UNCHANGED eth_nrst
  /\ UNCHANGED <<hardware_vars, hv_en, hv_output>>

SYS_INT_Enable ==
  /\ Reach("SYS_INT_Enable")
  /\ interrupts' = TRUE
  /\ UNCHANGED <<ready, locked, pb_divisor, wait_states, pin_vars>>

\* The application sets its own state, and no pin of these.
APP_Initialize_Real ==
  /\ Reach("APP_Initialize_Real")
  /\ UNCHANGED <<ready, hardware_vars, pin_vars>>

Next ==
  \/ SYS_DEVCON_SystemUnlock \/ SYS_CLK_Initialize \/ SYS_DEVCON_SystemLock
  \/ SYS_DEVCON_PerformanceConfig
  \/ PLIB_PORTS_Write \/ PLIB_PORTS_DirectionOutputSet
  \/ \E i \in DOMAIN SysObj : InitializeModule(SysObj[i])
  \/ SYS_INT_Enable
  \/ APP_Initialize_Real

(***************************************************************************)
(* Properties.                                                             *)
(***************************************************************************)
TypeOK ==
  /\ step \in 1 .. Len(Statements) + 1
  /\ ready \subseteq {SysObj[i] : i \in DOMAIN SysObj}
  /\ interrupts \in BOOLEAN /\ locked \in BOOLEAN
  /\ pb_divisor \in {1, 2} /\ wait_states \in {0, 1, 2, 3, 7}
  /\ hv_en \in Level /\ eth_nrst \in Level /\ hv_output \in BOOLEAN

\* The modules the interrupt handlers work on; the drivers of the Ethernet and
\* the WiFi controller belong to the stack.
Handled == {"drvTmr0", "drvUsart0", "spiObjectIdx1", "drvNvm", "drvI2C0",
            "drvUSBObject", "tcpip"}

\* Interrupts only come once all their handlers have something to work on; a
\* module that derives a rate from the clock is told the true frequency, and
\* the memory is never read faster than it can be (SYS_Initialize).
HandlersFindDrivers ==
  /\ interrupts => Handled \subseteq ready /\ locked
  /\ ready # {} => SystemClock = SYS_CLK_PeripheralFrequencyGet * pb_divisor
  /\ wait_states >= WaitStates(SystemClock)

\* The high voltage is on: the latch counts only when it is put out.
HighVoltage == hv_output /\ hv_en = 0
=============================================================================

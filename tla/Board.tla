------------------------------- MODULE Board -------------------------------
(***************************************************************************)
(* What rust_bsp_init (rust/src/bsp/mod.rs) and deblock_bus (i2c_v1.rs) do *)
(* to the registers of the STM32F411: pins, clocks, interrupt controller   *)
(* and I2C unit, through the helpers of gpio.rs and stm32f411discovery.rs. *)
(*                                                                         *)
(* Both are straight-line code: a sequence of register writes, of which    *)
(* todo is the rest.  Every write is a step, because the pins are looked   *)
(* at by the device on the bus, and a write to a unit whose clock is not   *)
(* enabled has no effect.  Speeds, filters and bus timing are left out.    *)
(***************************************************************************)
EXTENDS Integers, Sequences

CONSTANTS
    Periph,         \* the I2C unit in use; bsp/mod.rs initialises I2C3
    IprOffsets      \* how far the compiler may have moved ipr in struct Nvic

ASSUME BoardAssumption ==
    /\ Periph \in {"I2C1", "I2C2", "I2C3"}
    /\ IprOffsets \subseteq {0, 4}

VARIABLES
    todo,           \* writes to come
    clocks,         \* units whose clock is enabled
    pin,            \* the port registers' fields of the two pins
    unit,           \* "on", and the interrupts enabled, in CR1 and CR2 of the unit
    prigroup,       \* priority grouping, in AIRCR
    ipr, iser,      \* interrupt priorities, and which interrupts are enabled
    ipr_offset,
    owes            \* clock pulses until the device lets go of SDA, 0 when it has

boardVars == <<todo, clocks, pin, unit, prigroup, ipr, iser, ipr_offset, owes>>

Pins == {"SDA", "SCL"}
Port == CASE Periph = "I2C1" -> [SDA |-> "GpioB", SCL |-> "GpioB"]
          [] Periph = "I2C2" -> [SDA |-> "GpioB", SCL |-> "GpioB"]
          [] Periph = "I2C3" -> [SDA |-> "GpioC", SCL |-> "GpioA"]
Irq == CASE Periph = "I2C1" -> [event |-> 31, error |-> 32]
         [] Periph = "I2C2" -> [event |-> 33, error |-> 34]
         [] Periph = "I2C3" -> [event |-> 72, error |-> 73]

Set(reg, of, val) == [reg |-> reg, of |-> of, val |-> val]

-----------------------------------------------------------------------------
(* The sequences of writes.                                                *)

(* Pin::set_mode, for the modes the driver asks for.                       *)
SetMode(p, mode) ==
    <<Set("moder", p, mode)>>
    \o (IF mode = "af" THEN <<Set("afr", p, 4)>> ELSE <<>>)
    \o <<Set("otyper", p, "opendrain")>>

Configure(mode) ==
    <<Set("pupdr", "SDA", "up")>> \o SetMode("SDA", mode)
    \o <<Set("pupdr", "SCL", "up")>> \o SetMode("SCL", mode)

EnableInterrupt(i, subprio) ==
    <<Set("iser", Irq[i], TRUE), Set("prio", Irq[i], 1), Set("subprio", Irq[i], subprio)>>

EnablePorts ==
    CASE Periph = "I2C1" -> <<Set("rcc", "GpioB", TRUE)>>
      [] Periph = "I2C2" -> <<Set("rcc", "GpioB", TRUE)>>
      [] Periph = "I2C3" -> <<Set("rcc", "GpioA", TRUE), Set("rcc", "GpioC", TRUE)>>

peripheral_init ==
    EnablePorts \o Configure("af")
    \o <<Set("rcc", Periph, TRUE)>>
    \o EnableInterrupt("event", 1) \o EnableInterrupt("error", 0)
    \o <<Set("unit", "event", TRUE), Set("unit", "error", TRUE), Set("unit", "on", TRUE)>>

(* Mutant: the bus gets a pulse for each bit of a byte only.               *)
Pulses_Eight == [k \in 1..16 |-> Set("odr", "SCL", k % 2)]

Pulses == [k \in 1..18 |-> Set("odr", "SCL", k % 2)]

deblock_bus ==
    Configure("output") \o <<Set("odr", "SDA", 1)>> \o Pulses \o <<Set("odr", "SCL", 1)>>
    \o peripheral_init

(* Mutant: the interrupts are set up before it is known how many bits of   *)
(* their priorities are which.                                             *)
rust_bsp_init_GroupsLast == peripheral_init \o <<Set("aircr", "prigroup", 4)>>

rust_bsp_init == <<Set("aircr", "prigroup", 4)>> \o peripheral_init

-----------------------------------------------------------------------------
(* The effect of a write.                                                  *)

BoardInit ==
    /\ todo = rust_bsp_init
    /\ clocks = {}
    /\ pin = [p \in Pins |-> [moder |-> "input", otyper |-> "pushpull", pupdr |-> "none",
                              afr |-> 0, odr |-> 0]]
    /\ unit = {} /\ prigroup = 0
    /\ ipr = [i \in {Irq[l] + o : l \in DOMAIN Irq, o \in {0, 4}} |-> 0]
    /\ iser = {}
    /\ ipr_offset \in IprOffsets
    /\ owes = 0

(* The line of a pin, as far as the board drives it; it is pulled up, and  *)
(* the I2C unit leaves it alone while the pins are taken from it.          *)
High(pins, p) == ~(pins[p].moder = "output" /\ pins[p].odr = 0)

(* The device moves on with each rising edge of SCL, by a bit of the byte  *)
(* it is sending; in place of the last it looks for an acknowledge.        *)
Owes(pins) ==
    IF owes = 0 \/ High(pin, "SCL") \/ ~High(pins, "SCL") THEN owes
    ELSE IF owes = 1 /\ ~High(pins, "SDA") THEN 9
    ELSE owes - 1

SetPin(w) ==
    /\ w.reg \in {"moder", "otyper", "pupdr", "afr", "odr"}
    /\ pin' = IF Port[w.of] \in clocks THEN [pin EXCEPT ![w.of][w.reg] = w.val] ELSE pin
    /\ owes' = Owes(pin')
    /\ UNCHANGED <<clocks, unit, prigroup, ipr, iser>>

SetUnit(w) ==
    /\ w.reg = "unit"
    /\ unit' = unit \cup IF Periph \in clocks THEN {w.of} ELSE {}
    /\ UNCHANGED <<clocks, pin, prigroup, ipr, iser, owes>>

(* rcc::enable_periph, nvic::enable_interrupt, scb::set_priority_grouping, *)
(* which ORs the grouping onto the one after a reset, 0.                   *)
SetEnable(w) ==
    /\ w.reg \in {"rcc", "iser", "aircr"}
    /\ clocks' = clocks \cup IF w.reg = "rcc" THEN {w.of} ELSE {}
    /\ iser' = iser \cup IF w.reg = "iser" THEN {w.of} ELSE {}
    /\ prigroup' = IF w.reg = "aircr" THEN w.val ELSE prigroup
    /\ UNCHANGED <<pin, unit, ipr, owes>>

(* get_priority_grouping and get_prio_grouping_binpoint_offset.            *)
bp_offset == IF prigroup < 4 THEN 0 ELSE prigroup - 3

(* The weight of the lowest bit of a priority: those below are the         *)
(* subpriority's, and set_priority and set_subpriority each keep the       *)
(* other's.  Shifts of a byte lose what leaves it.                         *)
PrioUnit == 2 ^ (4 + bp_offset)

SetPriority(w) ==
    LET i == w.of + ipr_offset IN
    /\ w.reg \in {"prio", "subprio"}
    /\ ipr' = [ipr EXCEPT ![i] = IF w.reg = "prio"
                                  THEN (@ % PrioUnit) + ((w.val * PrioUnit) % 256)
                                  ELSE @ - (@ % PrioUnit) + ((w.val * 16) % PrioUnit)]
    /\ UNCHANGED <<clocks, pin, unit, prigroup, iser, owes>>

BoardStep ==
    /\ todo # <<>>
    /\ \/ SetPin(Head(todo)) \/ SetUnit(Head(todo))
       \/ SetEnable(Head(todo)) \/ SetPriority(Head(todo))
    /\ todo' = Tail(todo)
    /\ UNCHANGED ipr_offset

(* deblock_bus is called, with a device that is somewhere in a byte.       *)
StartDeblock ==
    /\ todo = <<>>
    /\ todo' = deblock_bus
    /\ owes' \in 0..9
    /\ UNCHANGED <<clocks, pin, unit, prigroup, ipr, iser, ipr_offset>>

-----------------------------------------------------------------------------
(* What the interrupt controller makes of the priorities.                  *)
Level(i) == ipr[Irq[i]] \div PrioUnit
ErrorFirst == ipr[Irq["error"]] < ipr[Irq["event"]]

(* Whenever the driver goes on, after start-up and after every error, the  *)
(* bus is its own again: the device has let go of SDA, whatever it was     *)
(* doing, and both pins, the unit and its interrupts are set up.  The pins *)
(* are never driven high against a device once they have been set up.      *)
BusReady ==
    todo = <<>> =>
        /\ owes = 0
        /\ \A p \in Pins : /\ pin[p].moder = "af" /\ pin[p].afr = 4
                           /\ pin[p].otyper = "opendrain" /\ pin[p].pupdr = "up"
        /\ unit = {"on", "event", "error"}
        /\ {Irq["event"], Irq["error"]} \subseteq iser

(* The two handlers share the driver's state without a lock: they must not *)
(* preempt each other.  If the priorities get where they should they are   *)
(* below those of the UART's, and the error handler goes first.            *)
HandlersOrdered ==
    todo = <<>> =>
        /\ Level("event") = Level("error")
        /\ ipr_offset = 0 => Level("event") = 1 /\ ErrorFirst
=============================================================================

------------------------------ MODULE Sensors ------------------------------
(***************************************************************************)
(* The drivers of the pressure sensor (rust/src/meteo/bmp085.rs) and of    *)
(* the light sensor (tsl2651.rs) as METEO's task calls them (process_msg   *)
(* of meteo/mod.rs), on top of the I2C driver and the board: every         *)
(* run_transaction is one of module I2C, byte by byte, and after each that *)
(* fails the writes of deblock_bus are those of module Board.              *)
(*                                                                         *)
(* What a driver does between two transactions is part of the step in      *)
(* which the first one returns; the pauses between a command and its       *)
(* result are taken to be long enough for the conversion.                  *)
(***************************************************************************)
EXTENDS I2C, Board

VARIABLES
    drv,            \* the transaction a driver is at, or "idle"
    calib,          \* Bmp085.calib is there
    ut, up,         \* what the raw values of this measurement are, or "none"
    light,          \* state and integ_time of Tsl2561
    adc,            \* device: whose conversion its result register holds
    tsl             \* device: powered up, and its integration time

driverVars == <<calib, ut, up, light>>
deviceVars == <<adc, tsl>>
sensorVars == <<drv, driverVars, deviceVars>>
allVars == <<vars, boardVars, sensorVars>>

Read(n) == [dir |-> "Read", len |-> n]
Write(n) == [dir |-> "Write", len |-> n]

(* The transactions of get_calibration_data, get_raw_temp_val,             *)
(* get_raw_pressure_val, set_gain_and_integ_time, set_state, get_raw_data. *)
Transaction ==
    [calib      |-> <<Write(1), Read(22)>>,
     temp_cmd   |-> <<Write(2)>>, temp_read  |-> <<Write(1), Read(2)>>,
     press_cmd  |-> <<Write(2)>>, press_read |-> <<Write(1), Read(3)>>,
     gain       |-> <<Write(3)>>, on         |-> <<Write(3)>>,
     light_read |-> <<Write(1), Read(5)>>]
SensorPrograms == {Transaction[x] : x \in DOMAIN Transaction}

ASSUME SensorsAssumption == SensorPrograms \subseteq Programs

SensorsInit ==
    /\ Init /\ BoardInit
    /\ drv = "idle" /\ calib = FALSE /\ ut = "none" /\ up = "none"
    /\ light = [state |-> "Off", integ |-> "402ms"]
    /\ adc = "old" /\ tsl = [on |-> FALSE, integ |-> "402ms"]

-----------------------------------------------------------------------------
(* METEO's task.                                                           *)

(* Bmp085::measure.  The history of the sensor's result starts anew: what  *)
(* is in its register is an old conversion.                                *)
MeasurePressure ==
    /\ drv = "idle" /\ todo = <<>>
    /\ drv' = IF calib THEN "temp_cmd" ELSE "calib"
    /\ ut' = "none" /\ up' = "none" /\ adc' = "old"
    /\ UNCHANGED <<calib, light, tsl, vars, boardVars>>

(* Tsl2561::measure; a sensor that is off is turned on by process_msg,     *)
(* after the request has failed.                                           *)
MeasureLight ==
    /\ drv = "idle" /\ todo = <<>>
    /\ drv' = IF light.state = "Off" THEN "gain" ELSE "light_read"
    /\ UNCHANGED <<driverVars, deviceVars, vars, boardVars>>

(* run_transaction returned Ok.                                            *)
Succeeded ==
    /\ drv' = CASE drv = "calib" -> "temp_cmd"
                [] drv = "temp_cmd" -> "temp_read"
                [] drv = "temp_read" -> "press_cmd"
                [] drv = "press_cmd" -> "press_read"
                [] drv = "gain" -> "on"
                [] drv \in {"press_read", "on", "light_read"} -> "idle"
    /\ calib' = (calib \/ drv = "calib")
    /\ ut' = IF drv = "temp_read" THEN adc ELSE ut
    /\ up' = IF drv = "press_read" THEN adc ELSE up
    /\ light' = CASE drv = "gain" -> [light EXCEPT !.integ = "101ms"]
                  [] drv = "on" -> [light EXCEPT !.state = "On"]
                  [] OTHER -> light

(* Mutant: whether the sensor took the command to convert is not checked.  *)
Failed_Unchecked ==
    /\ drv' = CASE drv = "gain" -> "on" [] drv = "press_cmd" -> "press_read"
                [] OTHER -> "idle"
    /\ UNCHANGED driverVars

(* Mutant: the settings are remembered whether they were sent or not.      *)
Failed_Remembers ==
    /\ drv' = IF drv = "gain" THEN "on" ELSE "idle"
    /\ light' = IF drv = "gain" THEN [light EXCEPT !.integ = "101ms"] ELSE light
    /\ UNCHANGED <<calib, ut, up>>

(* It returned Err: the measurement is given up, but process_msg goes on   *)
(* to turn the light sensor on.                                            *)
Failed ==
    /\ drv' = IF drv = "gain" THEN "on" ELSE "idle"
    /\ UNCHANGED driverVars

Transact(t) ==
    /\ drv # "idle"
    /\ \/ /\ Call(t) \/ Begin(t, Transaction[drv]) \/ Refuse(t) \/ Poll(t) \/ PollAgain(t)
          /\ UNCHANGED <<sensorVars, boardVars>>
       \/ PollOk(t) /\ Succeeded /\ UNCHANGED <<deviceVars, boardVars>>
       \/ PollErr(t) /\ StartDeblock /\ Failed /\ UNCHANGED deviceVars

-----------------------------------------------------------------------------
(* The devices: once the last byte of a command is acknowledged it is      *)
(* carried out.                                                            *)
Obey ==
    IF wire # <<>> /\ Len(LastOnWire.acks) + 1 = Transaction[drv][1].len
    THEN /\ adc' = CASE drv = "temp_cmd" -> "temp" [] drv = "press_cmd" -> "pressure"
                     [] OTHER -> adc
         /\ tsl' = CASE drv = "gain" -> [tsl EXCEPT !.integ = "101ms"]
                     [] drv = "on" -> [tsl EXCEPT !.on = TRUE]
                     [] OTHER -> tsl
    ELSE UNCHANGED deviceVars

BusStep ==
    /\ \/ ByteSent /\ Obey
       \/ /\ StartCondition \/ StopCondition \/ AddressAcked \/ ByteReceived
             \/ NotAcked \/ BusError
          /\ UNCHANGED deviceVars
    /\ UNCHANGED <<drv, driverVars, boardVars>>

(* Of two pending interrupts of one level the more urgent goes first.      *)
Serve ==
    /\ \/ EventHandler /\ (ErrorFirst => "error" \notin pend)
       \/ ErrorHandler /\ (ErrorFirst \/ "event" \notin pend)
    /\ UNCHANGED <<sensorVars, boardVars>>

(* The writes of start-up and of deblock_bus, with interrupts masked.      *)
InitStep == BoardStep /\ UNCHANGED <<vars, sensorVars>>

Driver == todo = <<>> /\ \E t \in Tasks : Transact(t)
BusMoves == todo = <<>> /\ BusStep
Handlers == todo = <<>> /\ Serve

SensorsNext ==
    \/ MeasurePressure \/ MeasureLight
    \/ Driver \/ Handlers \/ BusMoves \/ InitStep

(* The task runs, interrupts are served, and the bus moves: of a device    *)
(* that holds the clock for ever the driver does not get rid.              *)
SensorsFairness ==
    /\ WF_allVars(Driver)
    /\ WF_allVars(Handlers)
    /\ WF_allVars(BusMoves)
    /\ WF_allVars(InitStep)

SensorsSpec == SensorsInit /\ [][SensorsNext]_allVars /\ SensorsFairness

-----------------------------------------------------------------------------
(* The values pressure and temperature are computed from are the           *)
(* conversions this measurement asked for, each of its own kind, and the   *)
(* sensor's own calibration, whichever transactions failed before.         *)
ConversionsMatch == up # "none" => ut = "temp" /\ up = "pressure" /\ calib

(* The integration time the driver scales a light level with, and whether  *)
(* it takes one at all, are what the sensor is set to, whichever commands  *)
(* failed; only in between, while a command is under way, may they differ. *)
(* The gain, which goes the same way, is not followed.                     *)
LightAsRemembered ==
    drv \notin {"gain", "on"} => light.integ = tsl.integ /\ (light.state = "On") = tsl.on

(* A measurement comes to an end: none of its transactions, whether it     *)
(* fails or not, keeps the task in run_transaction, through all            *)
(* interrupts, polls and pulses.  There is one exception: after a data     *)
(* byte that was not acknowledged TXE may stay set with its interrupt      *)
(* enabled, and the event handler, which waits for BTF or for nothing at   *)
(* all, is run over and over.                                              *)
Stuck == bus = "lost" /\ "TXE" \in sr1 /\ itbufen
MeasurementsEnd == <>[]Stuck \/ (drv # "idle" ~> drv = "idle")
=============================================================================

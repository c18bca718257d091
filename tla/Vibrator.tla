------------------------------- MODULE Vibrator -------------------------------
(***************************************************************************)
(* vibrator/drv2624/Vibrator.cpp with its HwApi and HwCal (Hardware.h and  *)
(* common/HardwareBase.h): the writes by which the calls of the one binder *)
(* thread program the haptics driver.  A call is a list of writes, each    *)
(* of which may fail; of some the result is looked at.                     *)
(***************************************************************************)
EXTENDS Integers, Sequences

CONSTANTS
    Calibrations,  \* what HwCal may tell, by properties and calibration file
    Durations,     \* timeoutMs of on, in milliseconds
    Temperatures,  \* of the USB connector, in thousandths of a degree
    Amplitudes,    \* arguments of setAmplitude, in hundredths
    MaxFailures    \* bound of the model: writes that fail

\* freqPeriodFormula divides 1000000000 by the product of 24615 and its
\* argument: frequency and period are each the other's formula.
Period(in) == (1000000000 \div 24615) \div in

Effects   == {"TEXTURE_TICK", "TICK", "CLICK", "DOUBLE_CLICK", "HEAVY_CLICK"}
Strengths == {"LIGHT", "MEDIUM", "STRONG"}

\* levels are the voltage levels that the coefficients of the calibration file
\* give for EFFECT_TARGET_G, if there are any; ampMax is in thousandths of G,
\* 0 if it is not given.  The shift of the frequency is less than it.
ASSUME VibAssumption ==
    /\ \A c \in Calibrations :
          /\ c.dynamic \in BOOLEAN
          /\ c.closeLoopThreshold \in Nat
          /\ c.lraPeriod \in Nat \ {0} /\ c.shift \in Nat
          /\ c.shift < Period(c.lraPeriod)
          /\ c.shortVoltageMax \in Nat /\ c.longVoltageMax \in Nat
          /\ c.ampMax \in Nat
          /\ c.levels = <<>> \/ c.levels \in [1 .. 5 -> Nat]
          /\ c.effectShape \in Nat /\ c.steadyShape \in Nat
          /\ c.duration \in [Effects -> Nat]
    /\ Calibrations # {}
    /\ Durations \subseteq Nat /\ Temperatures \subseteq Int
    /\ Amplitudes \subseteq Nat /\ MaxFailures \in Nat

TEMP_UPPER_BOUND == 10000
TEMP_LOWER_BOUND == 5000
STEADY_VOLTAGE_LOWER_BOUND == 90
STEADY_TARGET_G == 1200
MAX_RTP_INPUT == 127
Open == 1
Close == 0
Rtp == 1
Waveform == 2

VARIABLES
    vibPc,     \* where the service is: off, idle or in a call
    cal,       \* the calibration it has read
    steady,    \* mSteadyConfig: its clamp and period
    todo,      \* the writes the call has still to make
    driver,    \* the files of the driver
    asked,     \* history: the last call that is to turn the motor on
    writeFailed,  \* history: a write failed since that call began
    failures,  \* how many writes have failed
    lastOut    \* history: the last temperature outside the two bounds

vibVars == <<vibPc, cal, steady, todo, driver, asked, writeFailed, failures, lastOut>>

-----------------------------------------------------------------------------
(* The configuration.                                                       *)

LargerOf(a, b) == IF a < b THEN b ELSE a

\* Only level 5 has a boundary protection.
EffectClamp(offset) ==
    IF cal.levels = <<>> \/ (offset = 4 /\ cal.levels[5] \notin 1 .. 161)
    THEN cal.shortVoltageMax
    ELSE cal.levels[offset + 1]

\* round: to the nearest integer.
RoundedQuotient(a, b) == (2 * a + b) \div (2 * b)

\* Bug: the lower bound is not applied.
SteadyClampUnbounded(c) ==
    IF c.ampMax > STEADY_TARGET_G
    THEN RoundedQuotient(STEADY_TARGET_G * c.longVoltageMax, c.ampMax)
    ELSE c.longVoltageMax
SteadyClamp(c) ==
    IF c.ampMax > STEADY_TARGET_G
    THEN LargerOf(RoundedQuotient(STEADY_TARGET_G * c.longVoltageMax, c.ampMax),
                  STEADY_VOLTAGE_LOWER_BOUND)
    ELSE c.longVoltageMax

\* Bug: the period of the shift is subtracted from the period.
ShiftedAsPeriod(c) == c.lraPeriod - Period(c.shift)
ShiftedPeriod(c) == Period(Period(c.lraPeriod) - c.shift)

-----------------------------------------------------------------------------
(* The calls, as lists of writes.                                           *)

Ignored(f, v) == [file |-> f, value |-> v, checked |-> FALSE]
Checked(f, v) == [file |-> f, value |-> v, checked |-> TRUE]

ConstructorWrites(c) ==
    <<Ignored("state", 1), Ignored("autocal", 1)>>
    \o (IF c.dynamic THEN <<>> ELSE <<Ignored("ol_lra_period", c.lraPeriod)>>)
    \o <<Ignored("lp_trigger_effect", 1)>>

\* Bug: every vibration is driven in a closed loop.
LoopModeOf(timeoutMs, mode) == IF mode = Rtp THEN Close ELSE Open
LoopMode(timeoutMs, mode) ==
    IF mode = Rtp /\ timeoutMs > cal.closeLoopThreshold THEN Close ELSE Open

ConfigWrites(shape, clamp, period) ==
    IF cal.dynamic
    THEN <<Ignored("lra_wave_shape", shape), Ignored("od_clamp", clamp),
           Ignored("ol_lra_period", period)>>
    ELSE <<>>

OnWrites(timeoutMs, mode, configWrites) ==
    <<Ignored("ctrl_loop", LoopMode(timeoutMs, mode)), Checked("duration", timeoutMs),
      Ignored("mode", mode)>> \o configWrites \o <<Checked("activate", 1)>>

\* HwApiBase::set flushes the stream: what is written has reached the driver, or
\* the write has failed and the stream is cleared for the next one.
Files == {"state", "autocal", "ol_lra_period", "lp_trigger_effect", "duration",
          "ctrl_loop", "mode", "lra_wave_shape", "od_clamp", "set_sequencer",
          "rtp_input", "activate"}

Written ==
    /\ todo # <<>>
    /\ driver' = [driver EXCEPT ![Head(todo).file] = Head(todo).value]
    /\ todo' = Tail(todo)
    /\ UNCHANGED <<vibPc, cal, steady, asked, writeFailed, failures, lastOut>>

AfterFailure(write) == IF write.checked THEN <<>> ELSE Tail(todo)
WriteFails ==
    /\ todo # <<>>
    /\ todo' = AfterFailure(Head(todo))
    /\ failures < MaxFailures /\ failures' = failures + 1
    /\ writeFailed' = TRUE
    /\ UNCHANGED <<vibPc, cal, steady, driver, asked, lastOut>>

CallReturns ==
    /\ vibPc = "call"
    /\ todo = <<>>
    /\ vibPc' = "idle"
    /\ UNCHANGED <<cal, steady, todo, driver, asked, writeFailed, failures, lastOut>>

-----------------------------------------------------------------------------
(* The service.                                                             *)

NoCall == [op |-> "none"]

VibInit ==
    /\ vibPc = "off"
    /\ cal = CHOOSE c \in Calibrations : TRUE
    /\ steady = [clamp |-> 0, period |-> 0]
    /\ todo = <<>>
    /\ driver = [f \in Files |-> 0]
    /\ asked = NoCall /\ writeFailed = FALSE /\ failures = 0
    /\ lastOut = "none"

Construct ==
    /\ vibPc = "off"
    /\ vibPc' = "call"
    /\ cal' \in Calibrations
    /\ steady' = [clamp |-> SteadyClamp(cal'), period |-> cal'.lraPeriod]
    /\ todo' = ConstructorWrites(cal')
    /\ UNCHANGED <<driver, asked, writeFailed, failures, lastOut>>

Begins(request, writes) ==
    /\ vibPc = "idle"
    /\ vibPc' = "call"
    /\ todo' = writes
    /\ asked' = request
    /\ writeFailed' = FALSE
    /\ UNCHANGED <<cal, driver, failures>>

\* The temperature decides for this call and, between the bounds, the last one
\* that was outside of them.  A file that cannot be read leaves 0.
Readings == Temperatures \cup {0}
\* Bug: between the bounds the configuration is the warm one.
SteadyForgets(t) ==
    IF t < TEMP_LOWER_BOUND
    THEN [clamp |-> STEADY_VOLTAGE_LOWER_BOUND, period |-> ShiftedPeriod(cal)]
    ELSE [clamp |-> SteadyClamp(cal), period |-> cal.lraPeriod]
SteadyAt(t) ==
    IF t > TEMP_UPPER_BOUND
    THEN [clamp |-> SteadyClamp(cal), period |-> cal.lraPeriod]
    ELSE IF t < TEMP_LOWER_BOUND
    THEN [clamp |-> STEADY_VOLTAGE_LOWER_BOUND, period |-> ShiftedPeriod(cal)]
    ELSE steady

On ==
    \E timeoutMs \in Durations, t \in Readings :
        /\ steady' = IF cal.dynamic THEN SteadyAt(t) ELSE steady
        /\ lastOut' = IF ~ cal.dynamic THEN lastOut
                      ELSE IF t > TEMP_UPPER_BOUND THEN "warm"
                      ELSE IF t < TEMP_LOWER_BOUND THEN "cold" ELSE lastOut
        /\ Begins([op |-> "on", timeoutMs |-> timeoutMs],
                  OnWrites(timeoutMs, Rtp,
                           ConfigWrites(cal.steadyShape, steady'.clamp, steady'.period)))

Sequence(effect) ==
    CASE effect = "CLICK" -> 1
      [] effect \in {"TICK", "TEXTURE_TICK"} -> 2
      [] effect = "DOUBLE_CLICK" -> 3
      [] effect = "HEAVY_CLICK" -> 4

\* Bug: the texture tick gets louder with its strength.
VolOffsetAdded(effect, strength) ==
    (IF strength = "LIGHT" THEN 0 ELSE 1) +
    (CASE effect = "TEXTURE_TICK" -> 0
       [] effect = "TICK" -> 1
       [] effect \in {"CLICK", "DOUBLE_CLICK"} -> 2
       [] effect = "HEAVY_CLICK" -> 3)
VolOffset(effect, strength) ==
    IF effect = "TEXTURE_TICK" THEN 0
    ELSE (IF strength = "LIGHT" THEN 0 ELSE 1) +
         (CASE effect = "TICK" -> 1
            [] effect \in {"CLICK", "DOUBLE_CLICK"} -> 2
            [] effect = "HEAVY_CLICK" -> 3)

Perform ==
    \E effect \in Effects, strength \in Strengths :
        /\ Begins([op |-> "perform", effect |-> effect, strength |-> strength],
                  <<Ignored("set_sequencer", Sequence(effect))>> \o
                  OnWrites(cal.duration[effect], Waveform,
                           ConfigWrites(cal.effectShape,
                                        EffectClamp(VolOffset(effect, strength)),
                                        cal.lraPeriod)))
        /\ UNCHANGED <<steady, lastOut>>

\* The calls that leave the settings alone.
Off ==
    /\ vibPc = "idle"
    /\ vibPc' = "call"
    /\ todo' = <<Checked("activate", 0)>>
    /\ UNCHANGED <<cal, steady, driver, asked, writeFailed, failures, lastOut>>

\* An amplitude of 0 or above 1 is refused.
SetAmplitude ==
    /\ vibPc = "idle"
    /\ \E a \in Amplitudes :
          /\ a \in 1 .. 100
          /\ todo' = <<Checked("rtp_input", RoundedQuotient(a * MAX_RTP_INPUT, 100))>>
    /\ vibPc' = "call"
    /\ UNCHANGED <<cal, steady, driver, asked, writeFailed, failures, lastOut>>

\* The driver (external) stops the motor when its time is over.
MotorStops ==
    /\ driver["activate"] = 1
    /\ driver' = [driver EXCEPT !["activate"] = 0]
    /\ UNCHANGED <<vibPc, cal, steady, todo, asked, writeFailed, failures, lastOut>>

VibNext ==
    \/ Construct \/ Written \/ WriteFails \/ CallReturns
    \/ On \/ Perform \/ Off \/ SetAmplitude
    \/ MotorStops

VibSpec == VibInit /\ [][VibNext]_vibVars

-----------------------------------------------------------------------------
(* Properties.                                                              *)

Configs == [clamp : Nat, period : Nat]
Writes  == [file : Files, value : Nat, checked : BOOLEAN]

\* Every variable has its type.
VibTypeOK ==
    /\ vibPc \in {"off", "idle", "call"}
    /\ cal \in Calibrations
    /\ steady \in Configs
    /\ todo \in Seq(Writes)
    /\ driver \in [Files -> Nat]
    /\ asked \in {NoCall} \cup [op : {"on"}, timeoutMs : Durations]
                 \cup [op : {"perform"}, effect : Effects, strength : Strengths]
    /\ writeFailed \in BOOLEAN /\ failures \in 0 .. MaxFailures
    /\ lastOut \in {"none", "warm", "cold"}

\* The motor runs, and no write of the call that asked for it has failed.
RunsUnharmed == vibPc = "idle" /\ driver["activate"] = 1 /\ ~ writeFailed

\* The level of each effect, from the light one to the others.
LevelOf == [TEXTURE_TICK |-> <<0, 0>>, TICK |-> <<1, 2>>, CLICK |-> <<2, 3>>,
            DOUBLE_CLICK |-> <<2, 3>>, HEAVY_CLICK |-> <<3, 4>>]

\* A motor that runs plays what the last call asked for, with nothing left of
\* the calls before it, whatever these have left in the driver.
PlaysEffect ==
    RunsUnharmed /\ asked.op = "perform" =>
        /\ driver["mode"] = Waveform /\ driver["ctrl_loop"] = Open
        /\ driver["set_sequencer"] = Sequence(asked.effect)
        /\ driver["duration"] = cal.duration[asked.effect]
        /\ cal.dynamic =>
              /\ driver["lra_wave_shape"] = cal.effectShape
              /\ driver["ol_lra_period"] = cal.lraPeriod
              /\ driver["od_clamp"] =
                    EffectClamp(LevelOf[asked.effect]
                                       [IF asked.strength = "LIGHT" THEN 1 ELSE 2])

\* The same for a vibration, which is driven in a closed loop if it is long.
VibratesAsAsked ==
    RunsUnharmed /\ asked.op = "on" =>
        /\ driver["mode"] = Rtp
        /\ driver["duration"] = asked.timeoutMs
        /\ driver["ctrl_loop"] = Close <=> asked.timeoutMs > cal.closeLoopThreshold
        /\ cal.dynamic => driver["lra_wave_shape"] = cal.steadyShape

\* A vibration is gentle from a reading below the lower bound until one above
\* the upper bound, over all calls in between, and only then.
GentleWhileCold ==
    RunsUnharmed /\ asked.op = "on" /\ cal.dynamic =>
        IF lastOut = "cold"
        THEN /\ driver["od_clamp"] = STEADY_VOLTAGE_LOWER_BOUND
             /\ driver["ol_lra_period"] >= cal.lraPeriod
        ELSE /\ driver["od_clamp"] = SteadyClamp(cal)
             /\ driver["ol_lra_period"] = cal.lraPeriod

\* Where the calibration leaves room for it, the voltage that is adjusted to
\* the target stays between the guaranteed one and the largest one.
ClampInBounds ==
    cal.dynamic /\ vibPc = "idle" /\ cal.longVoltageMax >= STEADY_VOLTAGE_LOWER_BOUND =>
        steady.clamp \in STEADY_VOLTAGE_LOWER_BOUND .. cal.longVoltageMax

\* A motor that runs does what it was asked for, as strongly as it may.
MotorAsAsked == PlaysEffect /\ VibratesAsAsked /\ GentleWhileCold /\ ClampInBounds
=============================================================================

---------------------------- MODULE StatusLEDs -----------------------------
(***************************************************************************)
(* The two status LEDs (src/status_leds.cpp): what the other threads ask   *)
(* of them, the loop thread that shows it once per millisecond, and the    *)
(* clear() of main's shutdown, which does not wait for that thread.        *)
(*                                                                          *)
(* Times are abstracted: whether on_ms, interval_ms or min_off_ms have     *)
(* passed is chosen anew at every update.  The process (main, crash) is    *)
(* declared here, in the module the others extend.                          *)
(***************************************************************************)
EXTENDS Naturals

VARIABLES
    main,      \* where main() is
    crash,     \* what terminated the process ("": it runs)
    led,       \* the singleton and its LEDs, see NoLeds
    loop       \* the loop thread, see NoLoop

ledVars == <<led, loop>>

Leds == {"conn", "data"}
Modes == {"off", "on", "once", "blink"}       \* StatusLED::State

\* have: the LEDs the configuration makes; gpio: driven by lines, not topics;
\* inst: StatusLEDs::instance is set; mode: state; lit: current_state;
\* released: lines given back by clear().
NoLeds == [have |-> {}, gpio |-> FALSE, inst |-> FALSE, mode |-> [l \in Leds |-> "off"],
           lit |-> [l \in Leds |-> FALSE], released |-> {}]
\* running: loop_running; at: the loop's position, on LED l, about to write v
\* and, at the end of a flash, to call off() too.
NoLoop == [running |-> FALSE, at |-> "none", l |-> "conn", v |-> FALSE, off |-> FALSE]

LedTypeOK ==
    /\ led \in [have: SUBSET Leds, gpio: BOOLEAN, inst: BOOLEAN, mode: [Leds -> Modes],
                lit: [Leds -> BOOLEAN], released: SUBSET Leds]
    /\ loop \in [running: BOOLEAN, at: {"none", "test", "read", "write", "ended"},
                 l: Leds, v: BOOLEAN, off: BOOLEAN]

\* ConnLED::on, fastPulse, off and DataLED::once: nothing without the LED.
\* (interval() and once() also set times, which are abstracted.)
Show(l, m) == IF led.inst /\ l \in led.have THEN [led EXCEPT !.mode[l] = m] ELSE led

FirstLed == IF "conn" \in led.have THEN "conn" ELSE "data"

\* StatusLEDs::init: pins or topics may be set for both LEDs, one or none.
LedsInit(have, gpio) ==
    /\ led' = [NoLeds EXCEPT !.have = have, !.gpio = gpio, !.inst = TRUE]
    /\ loop' = IF have = {} THEN NoLoop ELSE [NoLoop EXCEPT !.running = TRUE, !.at = "test"]

LoopTest ==
    /\ loop.at = "test"
    /\ loop' = IF loop.running THEN [loop EXCEPT !.at = "read", !.l = FirstLed]
                               ELSE [loop EXCEPT !.at = "ended"]
    /\ UNCHANGED <<main, crash, led>>

\* After an LED the loop takes the next one, or sleeps and tests again.
Advance(lp) == IF lp.l = "conn" /\ "data" \in led.have
               THEN [lp EXCEPT !.at = "read", !.l = "data", !.v = FALSE, !.off = FALSE]
               ELSE [lp EXCEPT !.at = "test", !.v = FALSE, !.off = FALSE]

\* What update() may write: a steady state is rewritten at any time, a flash
\* and a pulse turn the LED on, or off again, once their time has passed.
MayWrite(l) ==
    CASE led.mode[l] = "on"  -> {TRUE}
      [] led.mode[l] = "off" -> {FALSE}
      [] led.mode[l] \in {"once", "blink"} -> {~led.lit[l]}

\* update() has read the state; another thread may change it before the write.
LoopRead ==
    /\ loop.at = "read"
    /\ \E v \in MayWrite(loop.l) :
         loop' = [loop EXCEPT !.at = "write", !.v = v,
                              !.off = led.mode[loop.l] = "once" /\ ~v]
    /\ UNCHANGED <<main, crash, led>>

\* Nothing is due: a time has not passed, or a steady state is shown already.
LoopSkip ==
    /\ loop.at = "read"
    /\ led.mode[loop.l] \in {"once", "blink"} \/ led.lit[loop.l] = (led.mode[loop.l] = "on")
    /\ loop' = Advance(loop)
    /\ UNCHANGED <<main, crash, led>>

\* setState, after off() at the end of a flash.  A released line throws in
\* the loop's thread, which ends the process.
LoopWrite ==
    /\ loop.at = "write"
    /\ IF led.gpio /\ loop.l \in led.released
       THEN crash' = "released line" /\ UNCHANGED ledVars
       ELSE /\ led' = [led EXCEPT !.lit[loop.l] = loop.v,
                                  !.mode[loop.l] = IF loop.off THEN "off" ELSE @]
            /\ loop' = Advance(loop)
            /\ UNCHANGED crash
    /\ UNCHANGED main

LedLoop == LoopTest \/ LoopRead \/ LoopSkip \/ LoopWrite

-----------------------------------------------------------------------------
(* StatusLEDs::clear, in main's shutdown                                    *)

\* The loop is told to stop; its join is commented out.
ClearStop ==
    /\ main = "ledstop"
    /\ loop' = [loop EXCEPT !.running = FALSE]
    /\ main' = "ledconn"
    /\ UNCHANGED <<crash, led>>

\* StatusLED::clear through a pointer that is null when the LED was not made.
\* The last call is followed by instance = nullptr.
Clear(l, next) ==
    /\ IF l \in led.have
       THEN /\ led' = [led EXCEPT !.lit[l] = FALSE, !.released = @ \cup {l},
                                  !.inst = l = "conn"]
            /\ main' = next
            /\ UNCHANGED crash
       ELSE crash' = "no LED" /\ UNCHANGED <<led, main>>
    /\ UNCHANGED loop

ClearConn == main = "ledconn" /\ Clear("conn", "leddata")
ClearData == main = "leddata" /\ Clear("data", "mark")

=============================================================================

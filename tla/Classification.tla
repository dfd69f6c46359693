---------------------------- MODULE Classification ----------------------------
(***************************************************************************)
(* The record of an event: the delays that the Acquisition task stores in  *)
(* it, and the class and the quality number that ClassifyEvent gives it.   *)
(*                                                                         *)
(* ClassifyEvent reads one setting after the other.  The TC execution task *)
(* has a higher priority and changes them by telecommand, one at a time,   *)
(* so it can come between any two of the reads: a step is one of them.     *)
(*                                                                         *)
(* Qualities are counted in sixteenths until they are rounded: with the    *)
(* divider of 16 all floating point values of the formula are such.        *)
(***************************************************************************)
EXTENDS Integers, FiniteSets

CONSTANTS
  SUs,              \* sensor units
  Amplitudes,       \* of the signals of the events considered
  CounterBytes,     \* what is read from the delay counters
  InitialSettings,  \* those that commands have set before
  CommandValues,    \* what commands set a parameter or a coefficient to
  MaxCommands       \* bound: such commands in a behaviour

Byte == 0 .. 255
Word == 0 .. 2^16 - 1

\* The signals in the order of ClassifyEvent, and of the coefficients.  A signal has
\* the name of its classification level; the windows have a minimum and a maximum.
Signals == <<"plasma_1_plus", "plasma_1_minus", "piezo_1", "piezo_2", "plasma_2_plus">>
Numbers == 1 .. 5
Times == {"plus_to_piezo_min", "plus_to_piezo_max", "minus_to_piezo_min",
          "minus_to_piezo_max", "plus_to_minus_max"}
Parameters == {Signals[i] : i \in Numbers} \cup Times
States == {"acquisition_e", "self_test_e", "off_e"}

Settings ==
  [unit : [SUs -> [Parameters -> Byte]],
   coefficient : [Numbers -> Byte],
   SU_state : [SUs -> States]]

\* InitClassification: the settings after a reset.
DEFAULT_COEFF == 5
Default(parameter) ==
  IF parameter \in {"plus_to_piezo_max", "minus_to_piezo_max", "plus_to_minus_max"}
  THEN 255 ELSE 0
InitClassification ==
  [unit |-> [su \in SUs |-> [p \in Parameters |-> Default(p)]],
   coefficient |-> [i \in Numbers |-> DEFAULT_COEFF],
   SU_state |-> [su \in SUs |-> "acquisition_e"]]

ASSUME ClassificationAssumption ==
  /\ SUs # {} /\ Amplitudes \subseteq Word /\ CounterBytes \subseteq Byte
  /\ InitialSettings \subseteq Settings
  /\ CommandValues \subseteq Byte
  /\ MaxCommands \in Nat

VARIABLES
  settings,     \* of the telemetry data, and the states of the sensor units
  at,           \* next step of ClassifyEvent, or Waiting
  event,        \* the event record
  class_index,  \* the bits set so far
  quality,      \* of CalculateQualityNumber, in sixteenths
  in_force,     \* history: settings since the event was accepted
  commands      \* history: commands received

vars == <<settings, at, event, class_index, quality, in_force, commands>>

Waiting == 0
Done == 18
MAX_QUALITY == 255
AMPLITUDE_DIVIDER == 16
MAX_AMPLITUDE_TERM == 5

----------------------------------------------------------------------------
(* The delays of an event *)

\* Two counters of 12 bits share the byte of the four high bits of each.
FromPlasma1Plus(msb, lsb1) == (msb % 16) * 256 + lsb1
FromPlasma1Minus(msb, lsb2) == (msb \div 16) * 256 + lsb2

SignedChar(time_delay) ==
  IF time_delay > 127 THEN 127 ELSE IF time_delay < -128 THEN -128 ELSE time_delay

\* The event of unit su, from the A/D results and the counters.
NewEvent(su, amplitude, msb, lsb1, lsb2) ==
  LET plus == FromPlasma1Plus(msb, lsb1)
      minus == FromPlasma1Minus(msb, lsb2)
  IN [SU_number |-> su, amplitude |-> amplitude,
      delay_1 |-> SignedChar(plus - minus), delay_2 |-> plus, delay_3 |-> minus,
      classification |-> 0, quality_number |-> 0]

Accepts(su) == settings.SU_state[su] \in {"acquisition_e", "self_test_e"}

\* A hit of a sensor unit in another state leaves no event.
HandleAcquisition ==
  /\ at = Waiting
  /\ \/ /\ \E su \in SUs, amplitude \in [Numbers -> Amplitudes],
              msb \in CounterBytes, lsb1 \in CounterBytes, lsb2 \in CounterBytes :
             /\ Accepts(su)
             /\ event' = NewEvent(su, amplitude, msb, lsb1, lsb2)
        /\ at' = 1
        /\ class_index' = {}
        /\ in_force' = {settings}
        /\ UNCHANGED <<settings, quality, commands>>
     \/ /\ \E su \in SUs : ~Accepts(su)
        /\ UNCHANGED vars

----------------------------------------------------------------------------
(* ClassifyEvent *)

limits == settings.unit[event.SU_number]

SetsBit(bit, condition) ==
  /\ class_index' = IF condition THEN class_index \cup {bit} ELSE class_index
  /\ UNCHANGED <<settings, event, quality, in_force, commands>>

CompareAmplitude ==
  /\ at \in Numbers
  /\ SetsBit(Signals[at], event.amplitude[at] >= limits[Signals[at]] * 256)
  /\ at' = at + 1

\* A window: its minimum first, and its maximum only if the delay is not below it.
CompareMin(step, delay, minimum) ==
  /\ at = step
  /\ at' = IF delay >= limits[minimum] * 16 THEN step + 1 ELSE step + 2
  /\ SetsBit(minimum, FALSE)

\* For the mutant: the end of the window is not inside.
MutantCompareMax(step, delay, maximum, bit) ==
  /\ at = step
  /\ at' = step + 1
  /\ SetsBit(bit, delay < limits[maximum] * 16)
CompareMax(step, delay, maximum, bit) ==
  /\ at = step
  /\ at' = step + 1
  /\ SetsBit(bit, delay <= limits[maximum] * 16)

CompareDelays ==
  \/ CompareMin(6, event.delay_2, "plus_to_piezo_min")
  \/ CompareMax(7, event.delay_2, "plus_to_piezo_max", "plus_to_piezo")
  \/ CompareMin(8, event.delay_3, "minus_to_piezo_min")
  \/ CompareMax(9, event.delay_3, "minus_to_piezo_max", "minus_to_piezo")
  \/ /\ at = 10
     /\ at' = 11
     /\ SetsBit("plus_to_minus", event.delay_1 <= limits["plus_to_minus_max"])

\* The table has a row of eight classes for each combination of amplitude bits.  In
\* a row the class is the second one if all the given delays are inside their windows.
Row(outside, inside, delays) == [outside |-> outside, inside |-> inside, delays |-> delays]
Always(class) == Row(class, class, {})
OnMinus(inside) == Row(1, inside, {"minus_to_piezo"})
OnPlus(inside) == Row(1, inside, {"plus_to_piezo"})
OnBoth(inside) == Row(1, inside, {"plus_to_minus"})
OnAll(inside) == Row(2, inside, {"plus_to_piezo", "minus_to_piezo", "plus_to_minus"})

class_rows ==
  << Always(0),  Always(0),  Always(0),  Always(3),
     Always(0),  Always(3),  Always(5),  Always(8),
     Always(0),  Always(3),  OnMinus(3), OnMinus(4),
     OnMinus(3), OnMinus(4), OnMinus(5), OnMinus(8),
     Always(0),  Always(3),  OnMinus(3), OnPlus(4),
     OnPlus(3),  OnPlus(4),  OnPlus(5),  OnPlus(8),
     OnBoth(6),  OnBoth(7),  OnAll(7),   OnAll(9),
     OnAll(7),   OnAll(9),   OnAll(7),   OnAll(9) >>

\* PLASMA_1_PLUS_CLASS, PLASMA_1_MINUS_CLASS, PIEZO_1_CLASS, PIEZO_2_CLASS and
\* PLASMA_2_PLUS_CLASS number the rows.
Mask(bits, bit, mask) == IF bit \in bits THEN mask ELSE 0
RowOf(bits) ==
  Mask(bits, "plasma_1_plus", 16) + Mask(bits, "plasma_1_minus", 8)
    + Mask(bits, "piezo_1", 4) + Mask(bits, "piezo_2", 2) + Mask(bits, "plasma_2_plus", 1)

event_class(bits) ==
  LET row == class_rows[RowOf(bits) + 1] IN
  IF row.delays \subseteq bits THEN row.inside ELSE row.outside

Classify ==
  /\ at = 11
  /\ LET class == event_class(class_index)
         self_test == settings.SU_state[event.SU_number] = "self_test_e"
     IN /\ event' = [event EXCEPT !.classification = class,
                                  !.quality_number = IF self_test THEN MAX_QUALITY ELSE 0]
        /\ at' = IF self_test THEN Done ELSE 12
        /\ quality' = 25 * AMPLITUDE_DIVIDER * class
  /\ UNCHANGED <<settings, class_index, in_force, commands>>

----------------------------------------------------------------------------
(* CalculateQualityNumber *)

\* The number of shifts that empty x, the number of its highest bit.
RoughLogarithm(x) == Cardinality({n \in 0 .. 15 : x \div 2^n > 0})

\* For the mutant: the term is not limited.
MutantGetQualityTerm(coefficient, amplitude) == coefficient * RoughLogarithm(amplitude)
GetQualityTerm(coefficient, amplitude) ==
  LET term == coefficient * RoughLogarithm(amplitude)
      most == MAX_AMPLITUDE_TERM * AMPLITUDE_DIVIDER
  IN IF term > most THEN most ELSE term

AddQualityTerm ==
  /\ at \in 12 .. 16
  /\ quality' = quality + GetQualityTerm(settings.coefficient[at - 11],
                                         event.amplitude[at - 11])
  /\ at' = at + 1
  /\ UNCHANGED <<settings, event, class_index, in_force, commands>>

\* Rounded, and stored in an unsigned char.
StoreQuality ==
  /\ at = 17
  /\ event' = [event EXCEPT !.quality_number =
                 ((quality + AMPLITUDE_DIVIDER \div 2) \div AMPLITUDE_DIVIDER) % 256]
  /\ at' = Done
  /\ UNCHANGED <<settings, class_index, quality, in_force, commands>>

NoEvent == NewEvent(CHOOSE su \in SUs : TRUE, [i \in Numbers |-> 0], 0, 0, 0)

\* RecordEvent, of module ScienceData, takes the record; the local variables end.
RecordEvent ==
  /\ at = Done
  /\ at' = Waiting
  /\ event' = NoEvent
  /\ class_index' = {} /\ quality' = 0 /\ in_force' = {}
  /\ UNCHANGED <<settings, commands>>

----------------------------------------------------------------------------
(* The TC execution task, and the specification *)

SetParameter(su, parameter, value) ==
  settings' = [settings EXCEPT !.unit[su][parameter] = value]
SetCoefficient(i, value) == settings' = [settings EXCEPT !.coefficient[i] = value]
SetSensorUnitOff(su) == settings' = [settings EXCEPT !.SU_state[su] = "off_e"]

\* A command sets one value, or switches a sensor unit off.
UpdateTarget ==
  /\ commands < MaxCommands
  /\ commands' = commands + 1
  /\ \/ \E su \in SUs, p \in Parameters, value \in CommandValues : SetParameter(su, p, value)
     \/ \E i \in Numbers, value \in CommandValues : SetCoefficient(i, value)
     \/ \E su \in SUs : SetSensorUnitOff(su)
  /\ in_force' = IF at = Waiting THEN {} ELSE in_force \cup {settings'}
  /\ UNCHANGED <<at, event, class_index, quality>>

Init ==
  /\ settings \in InitialSettings
  /\ at = Waiting
  /\ event = NoEvent
  /\ class_index = {} /\ quality = 0
  /\ in_force = {} /\ commands = 0

Next ==
  \/ HandleAcquisition
  \/ CompareAmplitude \/ CompareDelays \/ Classify
  \/ AddQualityTerm \/ StoreQuality
  \/ RecordEvent
  \/ UpdateTarget

Spec == Init /\ [][Next]_vars

----------------------------------------------------------------------------
(* Properties *)

Bits == {Signals[i] : i \in Numbers} \cup {"plus_to_piezo", "minus_to_piezo", "plus_to_minus"}

\* The highest quality number of a particle: of class 9, with all terms at their limit.
HighestRated == 25 * 9 + 5 * MAX_AMPLITUDE_TERM

\* The variables have their types.
TypeOK ==
  /\ settings \in Settings
  /\ at \in Waiting .. Done
  /\ event \in [SU_number : SUs, amplitude : [Numbers -> Word],
                delay_1 : -128 .. 127, delay_2 : 0 .. 4095, delay_3 : 0 .. 4095,
                classification : 0 .. 9, quality_number : Byte]
  /\ class_index \subseteq Bits
  /\ quality \in 0 .. HighestRated * AMPLITUDE_DIVIDER
  /\ in_force \subseteq Settings
  /\ commands \in 0 .. MaxCommands

\* What the class index of event e should be with the settings s: each signal that
\* reaches its level (a level counts 256 units), and each delay that is in its window
\* (a limit counts 16 clock cycles; the difference of the two delays has no lower limit,
\* and what does not fit in a signed char stands for more than any limit but the highest).
InWindow(delay, limit, minimum, maximum) ==
  delay \in limit[minimum] * 16 .. limit[maximum] * 16

IndexBy(s, e) ==
  LET limit == s.unit[e.SU_number]
      most == limit["plus_to_minus_max"]
  IN {Signals[i] : i \in {n \in Numbers : e.amplitude[n] \div 256 >= limit[Signals[n]]}}
       \cup {bit \in {"plus_to_piezo"} :
               InWindow(e.delay_2, limit, "plus_to_piezo_min", "plus_to_piezo_max")}
       \cup {bit \in {"minus_to_piezo"} :
               InWindow(e.delay_3, limit, "minus_to_piezo_min", "minus_to_piezo_max")}
       \cup {bit \in {"plus_to_minus"} : most >= 127 \/ e.delay_2 - e.delay_3 <= most}

\* What the quality number should be: 25 for each class, and for each signal its
\* coefficient times floor(log2(x) + 1) over the divider, at most 5; to the nearest.
BitLength(x) == IF x = 0 THEN 0 ELSE CHOOSE n \in 1 .. 16 : x \in 2^(n-1) .. 2^n - 1

TermBy(s, e, i) ==
  LET term == s.coefficient[i] * BitLength(e.amplitude[i]) IN
  IF term \in 0 .. 80 THEN term ELSE 80

QualityBy(s, e, class) ==
  LET terms == TermBy(s, e, 1) + TermBy(s, e, 2) + TermBy(s, e, 3) + TermBy(s, e, 4)
                 + TermBy(s, e, 5)
  IN CHOOSE q \in Byte : 2 * (16 * q - 400 * class - terms) \in -15 .. 16

\* A command has changed the settings while the event was handled, at most, or two that
\* undo each other.
OneChange == \A r, s, t \in in_force : r = s \/ s = t \/ r = t

\* An event is classified and rated as if ClassifyEvent had read all settings at one
\* time while it worked, although a command may come between its reads.  (Two may not: the
\* earlier can change a setting already read, and the later one that is still to be read.)
RecordOfOneSetting ==
  at = Done /\ OneChange =>
    \E s \in in_force :
      /\ event.classification = event_class(IndexBy(s, event))
      /\ event.quality_number =
           IF s.SU_state[event.SU_number] = "self_test_e" THEN MAX_QUALITY
           ELSE QualityBy(s, event, event.classification)

\* RecordEvent overwrites the event of the lowest quality: an event of a self test
\* outranks each particle, and a particle each one of two classes below, whatever its
\* amplitudes.  So no quality number may be cut to eight bits.
SelfTestOutranks ==
  at = Done =>
    \/ /\ event.quality_number = MAX_QUALITY
       /\ \E s \in in_force : s.SU_state[event.SU_number] = "self_test_e"
    \/ event.quality_number
         \in 25 * event.classification .. 25 * (event.classification + 1)
=============================================================================

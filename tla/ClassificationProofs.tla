------------------------- MODULE ClassificationProofs -------------------------
(***************************************************************************)
(* Theorems about Classification, for all settings, signals and commands:  *)
(* the order of the quality numbers, from the rating that grows from 25    *)
(* times the class by at most 5 for each signal; and that a record is of   *)
(* one setting, from a comparison of the steps, read by read, with the     *)
(* reference definitions.                                                  *)
(***************************************************************************)
EXTENDS Classification, FiniteSetTheorems, TLAPS

\* While the terms are added: what the rating can have become.
RatingInv ==
  at \in 12 .. 17 =>
    /\ quality >= 400 * event.classification
    /\ quality <= 400 * event.classification + 80 * (at - 12)

\* The settings of now are in force while an event is classified.
ForceInv == at # Waiting => settings \in in_force

IInv == TypeOK /\ RatingInv /\ ForceInv /\ SelfTestOutranks

----------------------------------------------------------------------------
(* The operators *)

LEMMA LogarithmType ==
  ASSUME NEW x \in Word
  PROVE  RoughLogarithm(x) \in 0 .. 16
<1> DEFINE S == {n \in 0 .. 15 : x \div 2^n > 0}
<1> DEFINE last == 15
<1>0. 0 \in Int /\ last \in Int
  OBVIOUS
<1> HIDE DEF last
<1>a. IsFiniteSet(0 .. last) /\ Cardinality(0 .. last) = IF 0 > last THEN 0 ELSE last - 0 + 1
  BY <1>0, FS_Interval
<1>1. IsFiniteSet(0 .. 15) /\ Cardinality(0 .. 15) = 16
  BY <1>a DEF last
<1>2. S \subseteq 0 .. 15
  OBVIOUS
<1>3. IsFiniteSet(S) /\ Cardinality(S) <= 16
  BY <1>1, <1>2, FS_Subset
<1>4. Cardinality(S) \in Nat
  BY <1>3, FS_CardinalityType
<1> QED
  BY <1>3, <1>4 DEF RoughLogarithm

\* The product is not expanded: of it, only its sign and the cut matter.
LEMMA ProductType ==
  ASSUME NEW a \in Nat, NEW b \in Nat
  PROVE  a * b \in Nat
OBVIOUS

LEMMA TermType ==
  ASSUME NEW coefficient \in Byte, NEW x \in Word
  PROVE  GetQualityTerm(coefficient, x) \in 0 .. 80
<1>1. RoughLogarithm(x) \in Nat /\ coefficient \in Nat
  BY LogarithmType DEF Byte
<1>2. coefficient * RoughLogarithm(x) \in Nat
  BY <1>1, ProductType
<1> DEFINE term == coefficient * RoughLogarithm(x)
<1>3. GetQualityTerm(coefficient, x) = IF term > 80 THEN 80 ELSE term
  BY DEF GetQualityTerm, MAX_AMPLITUDE_TERM, AMPLITUDE_DIVIDER
<1> HIDE DEF term
<1>4. term \in Nat
  BY <1>2 DEF term
<1> QED
  BY <1>3, <1>4

LEMMA RowType ==
  ASSUME NEW bits
  PROVE  RowOf(bits) \in 0 .. 31
BY DEF RowOf, Mask

LEMMA ClassType ==
  ASSUME NEW bits
  PROVE  event_class(bits) \in 0 .. 9
<1> DEFINE row == class_rows[RowOf(bits) + 1]
<1>1. \A i \in 1 .. 32 : class_rows[i].inside \in 0 .. 9 /\ class_rows[i].outside \in 0 .. 9
  BY DEF class_rows, Row, Always, OnMinus, OnPlus, OnBoth, OnAll
<1>2. RowOf(bits) + 1 \in 1 .. 32
  BY RowType
<1>3. row.inside \in 0 .. 9 /\ row.outside \in 0 .. 9
  BY <1>1, <1>2
<1> QED
  BY <1>3 DEF event_class

\* An event record, as TypeOK has it.
Events ==
  [SU_number : SUs, amplitude : [Numbers -> Word],
   delay_1 : -128 .. 127, delay_2 : 0 .. 4095, delay_3 : 0 .. 4095,
   classification : 0 .. 9, quality_number : Byte]

LEMMA SignedCharType ==
  ASSUME NEW d \in Int
  PROVE  SignedChar(d) \in -128 .. 127
<1>1. CASE d > 127
  BY <1>1 DEF SignedChar
<1>2. CASE d < -128
  BY <1>2 DEF SignedChar
<1>3. CASE ~(d > 127) /\ ~(d < -128)
  BY <1>3 DEF SignedChar
<1> QED
  BY <1>1, <1>2, <1>3

LEMMA EventType ==
  ASSUME NEW su \in SUs, NEW amplitude \in [Numbers -> Word],
         NEW msb \in Byte, NEW lsb1 \in Byte, NEW lsb2 \in Byte
  PROVE  NewEvent(su, amplitude, msb, lsb1, lsb2) \in Events
<1>1. FromPlasma1Plus(msb, lsb1) \in 0 .. 4095 /\ FromPlasma1Plus(msb, lsb1) \in Int
  BY DEF FromPlasma1Plus, Byte
<1>2. FromPlasma1Minus(msb, lsb2) \in 0 .. 4095 /\ FromPlasma1Minus(msb, lsb2) \in Int
  BY DEF FromPlasma1Minus, Byte
<1> DEFINE plus == FromPlasma1Plus(msb, lsb1)
           minus == FromPlasma1Minus(msb, lsb2)
           d == plus - minus
<1>c. plus \in Int /\ minus \in Int
  BY <1>1, <1>2
<1> HIDE DEF plus, minus
<1>a. d \in Int
  BY <1>c
<1> HIDE DEF d
<1>b. SignedChar(d) \in -128 .. 127
  BY <1>a, SignedCharType
<1>3. SignedChar(FromPlasma1Plus(msb, lsb1) - FromPlasma1Minus(msb, lsb2)) \in -128 .. 127
  BY <1>b DEF d, plus, minus
<1>4. 0 \in Byte /\ 0 \in 0 .. 9
  BY DEF Byte
<1> QED
  BY <1>1, <1>2, <1>3, <1>4, SMTT(60) DEF NewEvent, Events

LEMMA NoEventType == NoEvent \in Events
<1> DEFINE c == CHOOSE su \in SUs : TRUE
           z == [i \in Numbers |-> 0]
<1>1. c \in SUs
  BY ClassificationAssumption
<1>2. z \in [Numbers -> Word] /\ 0 \in Byte
  BY DEF Word, Byte
<1>3. NoEvent = NewEvent(c, z, 0, 0, 0)
  BY DEF NoEvent
<1> HIDE DEF c, z
<1> QED
  BY <1>1, <1>2, <1>3, EventType

----------------------------------------------------------------------------
(* The invariant *)

LEMMA InitInv == Init => IInv
<1> SUFFICES ASSUME Init PROVE IInv
  OBVIOUS
<1>1. settings \in Settings /\ event \in Events
  BY NoEventType, ClassificationAssumption DEF Init
<1>2. TypeOK
  BY <1>1, ClassificationAssumption, SMTT(60)
     DEF Init, TypeOK, Events, Waiting, Done, HighestRated, MAX_AMPLITUDE_TERM,
         AMPLITUDE_DIVIDER
<1> QED
  BY <1>2 DEF Init, IInv, RatingInv, ForceInv, SelfTestOutranks, Waiting, Done

LEMMA AcceptStep == IInv /\ HandleAcquisition => IInv'
<1> SUFFICES ASSUME IInv, HandleAcquisition PROVE IInv'
  OBVIOUS
<1>1. CASE UNCHANGED vars
  BY <1>1, SMTT(60) DEF IInv, vars, TypeOK, RatingInv, ForceInv, SelfTestOutranks
<1>2. CASE /\ \E su \in SUs, amplitude \in [Numbers -> Amplitudes],
              msb \in CounterBytes, lsb1 \in CounterBytes, lsb2 \in CounterBytes :
                event' = NewEvent(su, amplitude, msb, lsb1, lsb2)
           /\ at' = 1 /\ class_index' = {} /\ in_force' = {settings}
           /\ UNCHANGED <<settings, quality, commands>>
  <2>1. PICK su \in SUs, amplitude \in [Numbers -> Amplitudes],
             msb \in CounterBytes, lsb1 \in CounterBytes, lsb2 \in CounterBytes :
               event' = NewEvent(su, amplitude, msb, lsb1, lsb2)
    BY <1>2
  <2>2. /\ amplitude \in [Numbers -> Word]
        /\ msb \in Byte /\ lsb1 \in Byte /\ lsb2 \in Byte
    BY ClassificationAssumption
  <2>3. event' \in Events
    BY <2>1, <2>2, EventType
  <2>a. settings' \in Settings /\ in_force' \subseteq Settings /\ class_index' \subseteq Bits
    BY <1>2, SMTT(60) DEF IInv, TypeOK
  <2>b. at' \in Waiting .. Done
    BY <1>2 DEF Waiting, Done
  <2>c. commands' \in 0 .. MaxCommands /\ quality' \in 0 .. HighestRated * AMPLITUDE_DIVIDER
    BY <1>2 DEF IInv, TypeOK
  <2>4. TypeOK'
    BY <2>3, <2>a, <2>b, <2>c, SMTT(60) DEF TypeOK, Events
  <2> QED
    BY <1>2, <2>4 DEF IInv, RatingInv, ForceInv, SelfTestOutranks, Waiting, Done
<1> QED
  BY <1>1, <1>2 DEF HandleAcquisition

\* A comparison sets at most one bit and goes on to the next one.
LEMMA CompareStep ==
  ASSUME IInv, NEW bit \in Bits, NEW condition, SetsBit(bit, condition),
         at \in 1 .. 10, at' \in 2 .. 11
  PROVE  IInv'
<1>1. class_index' \subseteq Bits
  BY SMTT(60) DEF IInv, TypeOK, SetsBit
<1>2. TypeOK'
  BY <1>1, SMTT(60) DEF IInv, TypeOK, SetsBit, Waiting, Done
<1> QED
  BY <1>2 DEF IInv, RatingInv, ForceInv, SelfTestOutranks, SetsBit, Waiting, Done

LEMMA AmplitudeStep == IInv /\ CompareAmplitude => IInv'
<1> SUFFICES ASSUME IInv, CompareAmplitude PROVE IInv'
  OBVIOUS
<1>1. Signals[at] \in Bits
  BY DEF CompareAmplitude, Bits
<1>2. at \in 1 .. 10 /\ at' \in 2 .. 11
  BY DEF CompareAmplitude, Numbers
<1> QED
  BY <1>1, <1>2, CompareStep DEF CompareAmplitude

LEMMA DelayStep == IInv /\ CompareDelays => IInv'
<1> SUFFICES ASSUME IInv, CompareDelays PROVE IInv'
  OBVIOUS
<1>1. \A bit : SetsBit(bit, FALSE) => SetsBit("plus_to_minus", FALSE)
  BY DEF SetsBit
<1>2. CASE CompareMin(6, event.delay_2, "plus_to_piezo_min")
  <2>1. at \in 1 .. 10 /\ at' \in 2 .. 11
    BY <1>2 DEF CompareMin
  <2>2. SetsBit("plus_to_minus", FALSE) /\ "plus_to_minus" \in Bits
    BY <1>1, <1>2 DEF CompareMin, Bits
  <2> QED
    BY <2>1, <2>2, CompareStep
<1>3. CASE CompareMax(7, event.delay_2, "plus_to_piezo_max", "plus_to_piezo")
  BY <1>3, CompareStep DEF CompareMax, Bits
<1>4. CASE CompareMin(8, event.delay_3, "minus_to_piezo_min")
  <2>1. at \in 1 .. 10 /\ at' \in 2 .. 11
    BY <1>4 DEF CompareMin
  <2>2. SetsBit("plus_to_minus", FALSE) /\ "plus_to_minus" \in Bits
    BY <1>1, <1>4 DEF CompareMin, Bits
  <2> QED
    BY <2>1, <2>2, CompareStep
<1>5. CASE CompareMax(9, event.delay_3, "minus_to_piezo_max", "minus_to_piezo")
  BY <1>5, CompareStep DEF CompareMax, Bits
<1>6. CASE /\ at = 10 /\ at' = 11
           /\ SetsBit("plus_to_minus", event.delay_1 <= limits["plus_to_minus_max"])
  BY <1>6, CompareStep DEF Bits
<1> QED
  BY <1>2, <1>3, <1>4, <1>5, <1>6 DEF CompareDelays

LEMMA ClassifyStep == IInv /\ Classify => IInv'
<1> SUFFICES ASSUME IInv, Classify PROVE IInv'
  OBVIOUS
<1> DEFINE class == event_class(class_index)
           self_test == settings.SU_state[event.SU_number] = "self_test_e"
<1>1. class \in 0 .. 9
  BY ClassType
<1>2. /\ event' = [event EXCEPT !.classification = class,
                                !.quality_number = IF self_test THEN MAX_QUALITY ELSE 0]
      /\ at' = IF self_test THEN Done ELSE 12
      /\ quality' = 25 * AMPLITUDE_DIVIDER * class
      /\ UNCHANGED <<settings, class_index, in_force, commands>>
  BY DEF Classify
<1>3. at = 11 /\ event \in Events
  BY SMTT(60) DEF Classify, IInv, TypeOK, Events
<1> DEFINE number == IF self_test THEN MAX_QUALITY ELSE 0
<1>c. number \in Byte
  BY DEF Byte, MAX_QUALITY
<1>d. event' = [event EXCEPT !.classification = class, !.quality_number = number]
  BY <1>2
<1> HIDE DEF class, number
<1>4. /\ event' \in Events
      /\ event'.classification = class
      /\ event'.SU_number = event.SU_number
      /\ event'.quality_number = number
  <2> DEFINE classified == [event EXCEPT !.classification = class]
  <2>1. /\ classified \in Events
        /\ classified.classification = class /\ classified.SU_number = event.SU_number
    BY <1>1, <1>3, SMTT(60) DEF Events
  <2>2. event' = [classified EXCEPT !.quality_number = number]
    BY <1>d, <1>3 DEF Events
  <2> HIDE DEF classified
  <2> QED
    BY <2>1, <2>2, <1>c, SMTT(60) DEF Events
<1>5. quality' = 400 * class
  BY <1>1, <1>2 DEF AMPLITUDE_DIVIDER
<1>a. quality' \in 0 .. HighestRated * AMPLITUDE_DIVIDER
  BY <1>1, <1>5 DEF HighestRated, MAX_AMPLITUDE_TERM, AMPLITUDE_DIVIDER
<1>b. at' \in Waiting .. Done
  BY <1>2 DEF Waiting, Done
<1>e. /\ settings' \in Settings /\ in_force' \subseteq Settings
      /\ class_index' \subseteq Bits /\ commands' \in 0 .. MaxCommands
  BY <1>2 DEF IInv, TypeOK
<1>6. TypeOK'
  BY <1>4, <1>a, <1>b, <1>e, SMTT(60) DEF TypeOK, Events
<1>7. ForceInv'
  BY <1>2, <1>3 DEF IInv, ForceInv, Waiting
<1>8. RatingInv'
  BY <1>1, <1>2, <1>4, <1>5 DEF RatingInv, Done
<1>9. SelfTestOutranks'
  <2>1. CASE self_test
    BY <2>1, <1>2, <1>3, <1>4 DEF IInv, ForceInv, SelfTestOutranks, Waiting, number
  <2>2. CASE ~self_test
    BY <2>2, <1>2 DEF SelfTestOutranks, Done
  <2> QED
    BY <2>1, <2>2
<1> QED
  BY <1>6, <1>7, <1>8, <1>9 DEF IInv

LEMMA TermStep == IInv /\ AddQualityTerm => IInv'
<1> SUFFICES ASSUME IInv, AddQualityTerm PROVE IInv'
  OBVIOUS
<1> DEFINE term == GetQualityTerm(settings.coefficient[at - 11], event.amplitude[at - 11])
<1>1. /\ at \in 12 .. 16 /\ at' = at + 1
      /\ quality' = quality + term
      /\ UNCHANGED <<settings, event, class_index, in_force, commands>>
  BY DEF AddQualityTerm
<1>2. at - 11 \in Numbers
  BY <1>1 DEF Numbers
<1>3. settings.coefficient[at - 11] \in Byte /\ event.amplitude[at - 11] \in Word
  BY <1>2 DEF IInv, TypeOK, Settings
<1>4. term \in 0 .. 80
  BY <1>3, TermType
<1>5. event.classification \in 0 .. 9 /\ quality \in Int
  BY DEF IInv, TypeOK, HighestRated, MAX_AMPLITUDE_TERM, AMPLITUDE_DIVIDER
<1> HIDE DEF term
<1>6. /\ quality >= 400 * event.classification
      /\ quality <= 400 * event.classification + 80 * (at - 12)
  BY <1>1 DEF IInv, RatingInv
<1>7. RatingInv' /\ quality' \in 0 .. 4000
  BY <1>1, <1>4, <1>5, <1>6 DEF RatingInv
<1>8. at' \in Waiting .. Done /\ at' # Done /\ at # Waiting
  BY <1>1 DEF Waiting, Done
<1>a. quality' \in 0 .. HighestRated * AMPLITUDE_DIVIDER
  BY <1>7 DEF HighestRated, MAX_AMPLITUDE_TERM, AMPLITUDE_DIVIDER
<1>b. /\ settings' \in Settings /\ in_force' \subseteq Settings /\ event' \in Events
      /\ class_index' \subseteq Bits /\ commands' \in 0 .. MaxCommands
  BY <1>1 DEF IInv, TypeOK, Events
<1>9. TypeOK'
  BY <1>8, <1>a, <1>b DEF TypeOK, Events
<1> QED
  BY <1>1, <1>7, <1>8, <1>9 DEF IInv, ForceInv, SelfTestOutranks

LEMMA StoreStep == IInv /\ StoreQuality => IInv'
<1> SUFFICES ASSUME IInv, StoreQuality PROVE IInv'
  OBVIOUS
<1> DEFINE number == ((quality + AMPLITUDE_DIVIDER \div 2) \div AMPLITUDE_DIVIDER) % 256
           class == event.classification
<1>1. /\ at = 17 /\ at' = Done
      /\ event' = [event EXCEPT !.quality_number = number]
      /\ UNCHANGED <<settings, class_index, quality, in_force, commands>>
  BY DEF StoreQuality
<1>2. class \in 0 .. 9 /\ quality \in Int /\ event \in Events
  BY SMTT(60) DEF IInv, TypeOK, Events, HighestRated, MAX_AMPLITUDE_TERM, AMPLITUDE_DIVIDER
<1>3. quality >= 400 * class /\ quality <= 400 * class + 400
  BY <1>1, <1>2 DEF IInv, RatingInv
<1> HIDE DEF class
<1>4. number = ((quality + 8) \div 16) % 256
  BY DEF AMPLITUDE_DIVIDER
<1>5. (quality + 8) \div 16 \in 25 * class .. 25 * class + 25
  BY <1>2, <1>3
<1>6. number \in 25 * class .. 25 * (class + 1) /\ number \in Byte
  BY <1>2, <1>4, <1>5 DEF Byte
<1> HIDE DEF number
<1>7. event' \in Events /\ event'.quality_number = number /\ event'.classification = class
  BY <1>1, <1>2, <1>6, SMTT(60) DEF Events, class
<1>a. /\ settings' \in Settings /\ in_force' \subseteq Settings
      /\ class_index' \subseteq Bits /\ commands' \in 0 .. MaxCommands
      /\ quality' \in 0 .. HighestRated * AMPLITUDE_DIVIDER
  BY <1>1 DEF IInv, TypeOK
<1>b. at' \in Waiting .. Done
  BY <1>1 DEF Waiting, Done
<1>8. TypeOK'
  BY <1>7, <1>a, <1>b, SMTT(60) DEF TypeOK, Events
<1> QED
  BY <1>1, <1>6, <1>7, <1>8 DEF IInv, RatingInv, ForceInv, SelfTestOutranks, Waiting, Done

LEMMA RecordStep == IInv /\ RecordEvent => IInv'
<1> SUFFICES ASSUME IInv, RecordEvent PROVE IInv'
  OBVIOUS
<1>1. event' \in Events
  BY NoEventType DEF RecordEvent, NoEvent
<1>a. /\ settings' \in Settings /\ commands' \in 0 .. MaxCommands
      /\ at' \in Waiting .. Done
  BY DEF RecordEvent, IInv, TypeOK, Waiting, Done
<1>b. quality' \in 0 .. HighestRated * AMPLITUDE_DIVIDER
  BY DEF RecordEvent, HighestRated, MAX_AMPLITUDE_TERM, AMPLITUDE_DIVIDER
<1>c. in_force' \subseteq Settings /\ class_index' \subseteq Bits
  BY DEF RecordEvent
<1>2. TypeOK'
  BY <1>1, <1>a, <1>b, <1>c DEF TypeOK, Events
<1> QED
  BY <1>2 DEF RecordEvent, IInv, RatingInv, ForceInv, SelfTestOutranks, Waiting, Done

LEMMA CommandStep == IInv /\ UpdateTarget => IInv'
<1> SUFFICES ASSUME IInv, UpdateTarget PROVE IInv'
  OBVIOUS
<1>1. settings \in Settings
  BY DEF IInv, TypeOK
<1>2. settings' \in Settings
  <2>1. ASSUME NEW su \in SUs, NEW p \in Parameters, NEW value \in CommandValues,
               SetParameter(su, p, value)
        PROVE  settings' \in Settings
    BY <1>1, <2>1, ClassificationAssumption DEF SetParameter, Settings
  <2>2. ASSUME NEW i \in Numbers, NEW value \in CommandValues, SetCoefficient(i, value)
        PROVE  settings' \in Settings
    BY <1>1, <2>2, ClassificationAssumption DEF SetCoefficient, Settings
  <2>3. ASSUME NEW su \in SUs, SetSensorUnitOff(su)
        PROVE  settings' \in Settings
    BY <1>1, <2>3 DEF SetSensorUnitOff, Settings, States
  <2> QED
    BY <2>1, <2>2, <2>3 DEF UpdateTarget
<1>3. /\ in_force' = IF at = Waiting THEN {} ELSE in_force \cup {settings'}
      /\ UNCHANGED <<at, event, class_index, quality>>
      /\ commands' = commands + 1 /\ commands < MaxCommands
  BY DEF UpdateTarget
<1>4. commands' \in 0 .. MaxCommands
  BY <1>3, ClassificationAssumption, SMTT(60) DEF IInv, TypeOK
<1>5. TypeOK'
  BY <1>2, <1>3, <1>4, SMTT(60) DEF IInv, TypeOK
<1>6. RatingInv' /\ ForceInv'
  BY <1>3 DEF IInv, RatingInv, ForceInv
<1>7. SelfTestOutranks'
  BY <1>3 DEF IInv, SelfTestOutranks, Waiting, Done
<1> QED
  BY <1>5, <1>6, <1>7 DEF IInv

----------------------------------------------------------------------------
(* The theorems *)

LEMMA Invariance == Spec => []IInv
<1>1. IInv /\ [Next]_vars => IInv'
  <2>1. IInv /\ UNCHANGED vars => IInv'
    BY SMTT(60) DEF IInv, vars, TypeOK, RatingInv, ForceInv, SelfTestOutranks
  <2> QED
    BY <2>1, AcceptStep, AmplitudeStep, DelayStep, ClassifyStep, TermStep, StoreStep,
       RecordStep, CommandStep DEF Next
<1> QED
  BY InitInv, <1>1, PTL DEF Spec

\* The variables keep their types: the class is one of the table's, the difference of
\* the delays fits in its signed char, and no rating passes 250 before it is stored.
THEOREM TypeCorrect == Spec => []TypeOK
<1>1. IInv => TypeOK
  BY DEF IInv
<1> QED
  BY Invariance, <1>1, PTL

\* The quality number of a particle is between 25 times its class and 25 times the next
\* one, and only an event of a self test has the highest, for all settings and signals.
THEOREM RatingKeepsOrder == Spec => []SelfTestOutranks
<1>1. IInv => SelfTestOutranks
  BY DEF IInv
<1> QED
  BY Invariance, <1>1, PTL

----------------------------------------------------------------------------
(* Shifts and powers of two *)

LEMMA Powers ==
  /\ 2^0 = 1 /\ 2^1 = 2 /\ 2^2 = 4 /\ 2^3 = 8 /\ 2^4 = 16 /\ 2^5 = 32 /\ 2^6 = 64
  /\ 2^7 = 128 /\ 2^8 = 256 /\ 2^9 = 512 /\ 2^10 = 1024 /\ 2^11 = 2048 /\ 2^12 = 4096
  /\ 2^13 = 8192 /\ 2^14 = 16384 /\ 2^15 = 32768 /\ 2^16 = 65536
OBVIOUS

\* The powers that a signal of 16 bits is compared with, in their order.
LEMMA PowersGrow ==
  /\ \A n \in 0 .. 16 : 2^n \in Nat \ {0}
  /\ \A m, n \in 0 .. 16 : m < n => 2^m < 2^n
<1> DEFINE P(n) == 2^n
<1>0. /\ P(0) = 1 /\ P(1) = 2 /\ P(2) = 4 /\ P(3) = 8 /\ P(4) = 16 /\ P(5) = 32
      /\ P(6) = 64 /\ P(7) = 128 /\ P(8) = 256 /\ P(9) = 512 /\ P(10) = 1024 /\ P(11) = 2048
      /\ P(12) = 4096 /\ P(13) = 8192 /\ P(14) = 16384 /\ P(15) = 32768 /\ P(16) = 65536
  BY Powers
<1> HIDE DEF P
<1>1. \A n \in 0 .. 16 :
          \/ n = 0 /\ P(n) = 1
          \/ n = 1 /\ P(n) = 2
          \/ n = 2 /\ P(n) = 4
          \/ n = 3 /\ P(n) = 8
          \/ n = 4 /\ P(n) = 16
          \/ n = 5 /\ P(n) = 32
          \/ n = 6 /\ P(n) = 64
          \/ n = 7 /\ P(n) = 128
          \/ n = 8 /\ P(n) = 256
          \/ n = 9 /\ P(n) = 512
          \/ n = 10 /\ P(n) = 1024
          \/ n = 11 /\ P(n) = 2048
          \/ n = 12 /\ P(n) = 4096
          \/ n = 13 /\ P(n) = 8192
          \/ n = 14 /\ P(n) = 16384
          \/ n = 15 /\ P(n) = 32768
          \/ n = 16 /\ P(n) = 65536
  BY <1>0
<1>2. \A n \in 0 .. 16 : P(n) \in Nat \ {0}
  BY <1>1
<1>3. \A m, n \in 0 .. 16 : m < n => P(m) < P(n)
  BY <1>1
<1> QED
  BY <1>2, <1>3 DEF P

LEMMA ShiftedOut ==
  ASSUME NEW x \in Word, NEW n \in 0 .. 15
  PROVE  x \div 2^n > 0 <=> x >= 2^n
<1>1. \A p \in Nat \ {0} : x \div p > 0 <=> x >= p
  BY DEF Word
<1> DEFINE P(m) == 2^m
<1>2. \A m \in 0 .. 16 : P(m) \in Nat \ {0}
  BY PowersGrow
<1> HIDE DEF P
<1>3. P(n) \in Nat \ {0}
  BY <1>2
<1>4. x \div P(n) > 0 <=> x >= P(n)
  BY <1>1, <1>3
<1> QED
  BY <1>4 DEF P

\* A signal has a highest bit.
LEMMA HighestBit ==
  ASSUME NEW x \in Word, x > 0
  PROVE  \E k \in 1 .. 16 : x \in 2^(k - 1) .. 2^k - 1
<1> DEFINE P(n) == 2^n
           In(k) == x \in P(k - 1) .. P(k) - 1
<1>1. x \in 1 .. P(16) - 1 /\ P(0) = 1
  BY Powers DEF Word
<1>2. \A n \in 0 .. 16 : P(n) \in Nat
  BY PowersGrow
<1> HIDE DEF P
<1>3. \A k \in 1 .. 16 : ~In(k) /\ x >= P(k - 1) => x >= P(k)
  BY <1>1, <1>2
<1>4. SUFFICES ASSUME \A k \in 1 .. 16 : ~In(k) PROVE FALSE
  BY DEF P
<1>5. \A k \in 1 .. 16 : x >= P(k - 1) => x >= P(k)
  BY <1>3, <1>4
<1>6. /\ x >= P(0) => x >= P(1)
      /\ x >= P(1) => x >= P(2)
      /\ x >= P(2) => x >= P(3)
      /\ x >= P(3) => x >= P(4)
      /\ x >= P(4) => x >= P(5)
  BY <1>5
<1>7. /\ x >= P(5) => x >= P(6)
      /\ x >= P(6) => x >= P(7)
      /\ x >= P(7) => x >= P(8)
      /\ x >= P(8) => x >= P(9)
      /\ x >= P(9) => x >= P(10)
  BY <1>5
<1>8. /\ x >= P(10) => x >= P(11)
      /\ x >= P(11) => x >= P(12)
      /\ x >= P(12) => x >= P(13)
      /\ x >= P(13) => x >= P(14)
      /\ x >= P(14) => x >= P(15)
      /\ x >= P(15) => x >= P(16)
  BY <1>5
<1> QED
  BY <1>1, <1>2, <1>6, <1>7, <1>8

\* The shifts that empty a signal count the bits up to its highest one.
LEMMA LogarithmIsBitLength ==
  ASSUME NEW x \in Word
  PROVE  RoughLogarithm(x) = BitLength(x)
<1> DEFINE P(n) == 2^n
           Shifts == {n \in 0 .. 15 : x \div 2^n > 0}
           In(k) == x \in P(k - 1) .. P(k) - 1
<1>1. /\ \A n \in 0 .. 16 : P(n) \in Nat \ {0}
      /\ \A m, n \in 0 .. 16 : m < n => P(m) < P(n)
  BY PowersGrow
<1>2. Shifts = {n \in 0 .. 15 : x >= P(n)}
  BY ShiftedOut
<1>3. RoughLogarithm(x) = Cardinality(Shifts)
  BY DEF RoughLogarithm
<1>4. BitLength(x) = IF x = 0 THEN 0 ELSE CHOOSE k \in 1 .. 16 : In(k)
  BY DEF BitLength
<1>5. x > 0 => \E k \in 1 .. 16 : In(k)
  BY HighestBit
<1> HIDE DEF P, Shifts
<1>6. CASE x = 0
  <2>1. Shifts = {}
    BY <1>1, <1>2, <1>6
  <2> QED
    BY <1>3, <1>4, <1>6, <2>1, FS_EmptySet
<1>7. CASE x # 0
  <2>1. PICK k \in 1 .. 16 : In(k)
    BY <1>5, <1>7 DEF Word
  <2>2. \A m \in 1 .. 16 : In(m) => m = k
    <3>1. SUFFICES ASSUME NEW m \in 1 .. 16, In(m), m # k PROVE FALSE
      OBVIOUS
    <3>2. m <= k - 1 \/ k <= m - 1
      BY <3>1
    <3>3. \A i, j \in 0 .. 16 : i <= j => P(i) <= P(j)
      BY <1>1
    <3>4. P(m) <= P(k - 1) \/ P(k) <= P(m - 1)
      BY <3>2, <3>3
    <3>5. P(m) \in Nat /\ P(k) \in Nat /\ P(m - 1) \in Nat /\ P(k - 1) \in Nat /\ x \in Nat
      BY <1>1 DEF Word
    <3> QED
      BY <2>1, <3>1, <3>4, <3>5
  <2>3. BitLength(x) = k
    BY <1>4, <1>7, <2>1, <2>2
  <2>4. Shifts = 0 .. k - 1
    <3>1. ASSUME NEW n \in 0 .. 15 PROVE x >= P(n) <=> n <= k - 1
      <4>1. n <= k - 1 => P(n) <= P(k - 1)
        BY <1>1
      <4>2. n >= k => P(k) <= P(n)
        BY <1>1
      <4>3. P(n) \in Nat /\ P(k) \in Nat /\ P(k - 1) \in Nat /\ x \in Nat
        BY <1>1 DEF Word
      <4> QED
        BY <2>1, <4>1, <4>2, <4>3
    <3>2. 0 .. k - 1 = {n \in 0 .. 15 : n <= k - 1}
      OBVIOUS
    <3> QED
      BY <1>2, <3>1, <3>2
  <2>5. Cardinality(0 .. k - 1) = k
    <3>1. 0 \in Int /\ k - 1 \in Int /\ ~(0 > k - 1)
      OBVIOUS
    <3>2. Cardinality(0 .. k - 1) = IF 0 > k - 1 THEN 0 ELSE (k - 1) - 0 + 1
      BY <3>1, FS_Interval
    <3> QED
      BY <3>1, <3>2
  <2> QED
    BY <1>3, <2>3, <2>4, <2>5
<1> QED
  BY <1>6, <1>7

----------------------------------------------------------------------------
(* The reference rating *)

LEMMA TermIs ==
  ASSUME NEW s \in Settings, NEW e \in Events, NEW i \in Numbers
  PROVE  /\ TermBy(s, e, i) = GetQualityTerm(s.coefficient[i], e.amplitude[i])
         /\ TermBy(s, e, i) \in 0 .. 80
<1> DEFINE x == e.amplitude[i]
           c == s.coefficient[i]
<1>1. x \in Word /\ c \in Byte
  BY DEF Settings, Events
<1>2. RoughLogarithm(x) = BitLength(x) /\ RoughLogarithm(x) \in Nat /\ c \in Nat
  BY <1>1, LogarithmIsBitLength, LogarithmType DEF Byte
<1>3. c * RoughLogarithm(x) \in Nat
  BY <1>2, ProductType
<1> DEFINE term == c * RoughLogarithm(x)
<1>4. /\ TermBy(s, e, i) = IF term \in 0 .. 80 THEN term ELSE 80
      /\ GetQualityTerm(c, x) = IF term > 80 THEN 80 ELSE term
  BY <1>2 DEF TermBy, GetQualityTerm, MAX_AMPLITUDE_TERM, AMPLITUDE_DIVIDER
<1> HIDE DEF term
<1>5. term \in Nat
  BY <1>3 DEF term
<1> QED
  BY <1>4, <1>5

TermsBy(s, e) ==
  TermBy(s, e, 1) + TermBy(s, e, 2) + TermBy(s, e, 3) + TermBy(s, e, 4) + TermBy(s, e, 5)

LEMMA TermsType ==
  ASSUME NEW s \in Settings, NEW e \in Events
  PROVE  TermsBy(s, e) \in 0 .. 400
<1> DEFINE t1 == TermBy(s, e, 1)
           t2 == TermBy(s, e, 2)
           t3 == TermBy(s, e, 3)
           t4 == TermBy(s, e, 4)
           t5 == TermBy(s, e, 5)
<1>1. t1 \in 0 .. 80 /\ t2 \in 0 .. 80 /\ t3 \in 0 .. 80 /\ t4 \in 0 .. 80 /\ t5 \in 0 .. 80
  BY TermIs DEF Numbers
<1>2. TermsBy(s, e) = t1 + t2 + t3 + t4 + t5
  BY DEF TermsBy
<1> HIDE DEF t1, t2, t3, t4, t5
<1>3. t1 + t2 + t3 + t4 + t5 \in 0 .. 400
  BY <1>1
<1> QED
  BY <1>2, <1>3

\* Rounding by adding a half and cutting gives the nearest number.
LEMMA QualityIs ==
  ASSUME NEW s \in Settings, NEW e \in Events, NEW class \in 0 .. 9
  PROVE  /\ QualityBy(s, e, class) = ((400 * class + TermsBy(s, e) + 8) \div 16) % 256
         /\ TermsBy(s, e) \in 0 .. 400
<1> DEFINE terms == TermsBy(s, e)
           q == (400 * class + terms + 8) \div 16
           Near(p) == 2 * (16 * p - 400 * class - terms) \in -15 .. 16
<1>1. terms \in 0 .. 400
  BY TermsType
<1>2. QualityBy(s, e, class) = CHOOSE p \in Byte : Near(p)
  BY DEF QualityBy, TermsBy
<1> HIDE DEF terms
<1>3. q \in Byte /\ Near(q)
  BY <1>1 DEF Byte
<1>4. \A p \in Byte : Near(p) => p = q
  BY <1>1 DEF Byte
<1>5. q % 256 = q
  BY <1>3 DEF Byte
<1>6. (CHOOSE p \in Byte : Near(p)) = q
  BY <1>3, <1>4
<1> QED
  BY <1>1, <1>2, <1>5, <1>6 DEF terms

----------------------------------------------------------------------------
(* The settings that ClassifyEvent reads *)

\* The parameters in the order of the steps that read them; step 11 reads the state of
\* the unit, and the steps from 12 the coefficients.
Read ==
  << "plasma_1_plus", "plasma_1_minus", "piezo_1", "piezo_2", "plasma_2_plus",
     "plus_to_piezo_min", "plus_to_piezo_max", "minus_to_piezo_min", "minus_to_piezo_max",
     "plus_to_minus_max" >>
Steps == 1 .. 16

Value(s, u, n) ==
  IF n <= 10 THEN s.unit[u][Read[n]]
  ELSE IF n = 11 THEN s.SU_state[u]
  ELSE s.coefficient[n - 11]

\* Two settings of which a command has made one from the other.
OneApart(s, t) ==
  \A u \in SUs : \E k \in Steps : \A n \in Steps \ {k} : Value(s, u, n) = Value(t, u, n)

LEMMA ReadParameters ==
  /\ \A n \in 1 .. 10 : Read[n] \in Parameters
  /\ \A i, j \in 1 .. 10 : Read[i] = Read[j] => i = j
  /\ \A p \in Parameters : \E n \in 1 .. 10 : p = Read[n]
<1>1. \A n \in 1 .. 10 : n = 1 \/ n = 2 \/ n = 3 \/ n = 4 \/ n = 5 \/ n = 6 \/ n = 7
                         \/ n = 8 \/ n = 9 \/ n = 10
  OBVIOUS
<1>2. Parameters = {Read[1], Read[2], Read[3], Read[4], Read[5], Read[6], Read[7], Read[8],
                    Read[9], Read[10]}
  BY DEF Parameters, Signals, Numbers, Times, Read
<1>3. \A i, j \in 1 .. 10 : i < j => Read[i] # Read[j]
  BY <1>1 DEF Read
<1> QED
  BY <1>1, <1>2, <1>3

LEMMA CommandApart ==
  ASSUME settings \in Settings, UpdateTarget
  PROVE  settings' \in Settings /\ OneApart(settings, settings')
<1>1. ASSUME NEW su \in SUs, NEW p \in Parameters, NEW value \in CommandValues,
             SetParameter(su, p, value)
      PROVE  settings' \in Settings /\ OneApart(settings, settings')
  <2>1. PICK k \in 1 .. 10 : p = Read[k]
    BY ReadParameters
  <2>2. settings' = [settings EXCEPT !.unit[su][p] = value]
    BY <1>1 DEF SetParameter
  <2>3. /\ settings' \in Settings
        /\ settings'.coefficient = settings.coefficient
        /\ settings'.SU_state = settings.SU_state
        /\ settings'.unit = [settings.unit EXCEPT ![su][p] = value]
        /\ settings.unit \in [SUs -> [Parameters -> Byte]]
    BY <2>2, ClassificationAssumption DEF Settings
  <2>4. \A u \in SUs : \A q \in Parameters :
          q # p => settings'.unit[u][q] = settings.unit[u][q]
    BY <2>3
  <2>5. \A u \in SUs : \A n \in Steps \ {k} : Value(settings, u, n) = Value(settings', u, n)
    <3>1. \A n \in 1 .. 10 : n # k => Read[n] # p /\ Read[n] \in Parameters
      BY <2>1, ReadParameters
    <3> QED
      BY <2>3, <2>4, <3>1 DEF Value, Steps
  <2> QED
    BY <2>3, <2>5 DEF OneApart, Steps
<1>2. ASSUME NEW i \in Numbers, NEW value \in CommandValues, SetCoefficient(i, value)
      PROVE  settings' \in Settings /\ OneApart(settings, settings')
  <2>1. settings' = [settings EXCEPT !.coefficient[i] = value]
    BY <1>2 DEF SetCoefficient
  <2>2. /\ settings' \in Settings
        /\ settings'.unit = settings.unit
        /\ settings'.SU_state = settings.SU_state
        /\ \A j \in Numbers : j # i => settings'.coefficient[j] = settings.coefficient[j]
    BY <2>1, ClassificationAssumption DEF Settings
  <2>3. \A u \in SUs : \A n \in Steps \ {i + 11} :
          Value(settings, u, n) = Value(settings', u, n)
    <3>1. \A n \in Steps : n > 11 /\ n # i + 11 => n - 11 \in Numbers /\ n - 11 # i
      BY DEF Steps, Numbers
    <3>2. \A n \in Steps : n > 11 \/ n = 11 \/ n <= 10
      BY DEF Steps
    <3> QED
      BY <2>2, <3>1, <3>2 DEF Value
  <2>4. i + 11 \in Steps
    BY DEF Numbers, Steps
  <2> QED
    BY <2>2, <2>3, <2>4 DEF OneApart
<1>3. ASSUME NEW su \in SUs, SetSensorUnitOff(su)
      PROVE  settings' \in Settings /\ OneApart(settings, settings')
  <2>1. settings' = [settings EXCEPT !.SU_state[su] = "off_e"]
    BY <1>3 DEF SetSensorUnitOff
  <2>2. /\ settings' \in Settings
        /\ settings'.unit = settings.unit /\ settings'.coefficient = settings.coefficient
    BY <2>1 DEF Settings, States
  <2>3. \A u \in SUs : \A n \in Steps \ {11} : Value(settings, u, n) = Value(settings', u, n)
    BY <2>2 DEF Value
  <2>4. 11 \in Steps
    BY DEF Steps
  <2> QED
    BY <2>2, <2>3, <2>4 DEF OneApart
<1> QED
  BY <1>1, <1>2, <1>3 DEF UpdateTarget

----------------------------------------------------------------------------
(* What the bits depend on *)

\* The step after which a bit is decided.
DecidedAt(bit) ==
  CASE bit = "plasma_1_plus" -> 1
    [] bit = "plasma_1_minus" -> 2
    [] bit = "piezo_1" -> 3
    [] bit = "piezo_2" -> 4
    [] bit = "plasma_2_plus" -> 5
    [] bit = "plus_to_piezo" -> 7
    [] bit = "minus_to_piezo" -> 9
    [] bit = "plus_to_minus" -> 10

LEMMA BitCases ==
  /\ Bits = {"plasma_1_plus", "plasma_1_minus", "piezo_1", "piezo_2", "plasma_2_plus",
             "plus_to_piezo", "minus_to_piezo", "plus_to_minus"}
  /\ \A i \in Numbers : Signals[i] \in Bits /\ DecidedAt(Signals[i]) = i
                        /\ Signals[i] = Read[i]
  /\ DecidedAt("plus_to_piezo") = 7 /\ DecidedAt("minus_to_piezo") = 9
  /\ DecidedAt("plus_to_minus") = 10
  /\ \A bit \in Bits :
       \/ \E i \in Numbers : bit = Signals[i]
       \/ bit \in {"plus_to_piezo", "minus_to_piezo", "plus_to_minus"}
<1>1. Bits = {"plasma_1_plus", "plasma_1_minus", "piezo_1", "piezo_2", "plasma_2_plus",
              "plus_to_piezo", "minus_to_piezo", "plus_to_minus"}
  BY DEF Bits, Signals, Numbers
<1>2. \A i \in Numbers : i = 1 \/ i = 2 \/ i = 3 \/ i = 4 \/ i = 5
  BY DEF Numbers
<1>3. \A i \in Numbers : Signals[i] \in Bits
  BY DEF Bits
<1>4. \A i \in Numbers : DecidedAt(Signals[i]) = i
  BY <1>2 DEF DecidedAt, Signals
<1>5. \A i \in Numbers : Signals[i] = Read[i]
  BY <1>2 DEF Signals, Read
<1>6. DecidedAt("plus_to_piezo") = 7 /\ DecidedAt("minus_to_piezo") = 9
      /\ DecidedAt("plus_to_minus") = 10
  BY DEF DecidedAt
<1>7. \A bit \in Bits :
        \/ \E i \in Numbers : bit = Signals[i]
        \/ bit \in {"plus_to_piezo", "minus_to_piezo", "plus_to_minus"}
  BY DEF Bits
<1> QED
  BY <1>1, <1>3, <1>4, <1>5, <1>6, <1>7

\* Bits are decided one by one.
LEMMA DecidedApart ==
  /\ \A bit \in Bits : DecidedAt(bit) \in 1 .. 10 /\ DecidedAt(bit) \notin {6, 8}
  /\ \A b, c \in Bits : DecidedAt(b) = DecidedAt(c) => b = c
<1>1. \A b \in Bits : b = "plasma_1_plus" \/ b = "plasma_1_minus" \/ b = "piezo_1"
        \/ b = "piezo_2" \/ b = "plasma_2_plus" \/ b = "plus_to_piezo"
        \/ b = "minus_to_piezo" \/ b = "plus_to_minus"
  BY BitCases
<1>2. /\ DecidedAt("plasma_1_plus") = 1 /\ DecidedAt("plasma_1_minus") = 2
      /\ DecidedAt("piezo_1") = 3 /\ DecidedAt("piezo_2") = 4
      /\ DecidedAt("plasma_2_plus") = 5
  BY DEF DecidedAt
<1> QED
  BY <1>1, <1>2, BitCases

Limit(s, e, parameter) == s.unit[e.SU_number][parameter]

LEMMA IndexHas ==
  ASSUME NEW s, NEW e
  PROVE  /\ IndexBy(s, e) \subseteq Bits
         /\ \A i \in Numbers : Signals[i] \in IndexBy(s, e) <=>
              e.amplitude[i] \div 256 >= Limit(s, e, Signals[i])
         /\ "plus_to_piezo" \in IndexBy(s, e) <=>
              e.delay_2 \in Limit(s, e, "plus_to_piezo_min") * 16
                              .. Limit(s, e, "plus_to_piezo_max") * 16
         /\ "minus_to_piezo" \in IndexBy(s, e) <=>
              e.delay_3 \in Limit(s, e, "minus_to_piezo_min") * 16
                              .. Limit(s, e, "minus_to_piezo_max") * 16
         /\ "plus_to_minus" \in IndexBy(s, e) <=>
              \/ Limit(s, e, "plus_to_minus_max") >= 127
              \/ e.delay_2 - e.delay_3 <= Limit(s, e, "plus_to_minus_max")
<1> DEFINE A(n) == e.amplitude[n] \div 256 >= Limit(s, e, Signals[n])
           B == e.delay_2 \in Limit(s, e, "plus_to_piezo_min") * 16
                                .. Limit(s, e, "plus_to_piezo_max") * 16
           C == e.delay_3 \in Limit(s, e, "minus_to_piezo_min") * 16
                                .. Limit(s, e, "minus_to_piezo_max") * 16
           D == \/ Limit(s, e, "plus_to_minus_max") >= 127
                \/ e.delay_2 - e.delay_3 <= Limit(s, e, "plus_to_minus_max")
           signals == {Signals[i] : i \in {n \in Numbers : A(n)}}
<1>1. IndexBy(s, e) = signals
                        \cup {bit \in {"plus_to_piezo"} : B}
                        \cup {bit \in {"minus_to_piezo"} : C}
                        \cup {bit \in {"plus_to_minus"} : D}
  BY DEF IndexBy, InWindow, Limit
<1> HIDE DEF A, B, C, D
<1>2. \A i \in Numbers : Signals[i] \in signals <=> A(i)
  <2>1. \A i, j \in Numbers : Signals[i] = Signals[j] => i = j
    BY BitCases
  <2> QED
    BY <2>1
<1>3. /\ "plus_to_piezo" \notin signals /\ "minus_to_piezo" \notin signals
      /\ "plus_to_minus" \notin signals
      /\ \A i \in Numbers : Signals[i] \notin {"plus_to_piezo", "minus_to_piezo", "plus_to_minus"}
  <2>1. \A i \in Numbers : i = 1 \/ i = 2 \/ i = 3 \/ i = 4 \/ i = 5
    BY DEF Numbers
  <2>2. \A i \in Numbers : Signals[i] \notin {"plus_to_piezo", "minus_to_piezo", "plus_to_minus"}
    BY <2>1 DEF Signals
  <2> QED
    BY <2>2
<1>4. signals \subseteq Bits
  BY BitCases
<1> HIDE DEF signals
<1>5. IndexBy(s, e) \subseteq Bits
  BY <1>1, <1>4, BitCases
<1>6. \A i \in Numbers : Signals[i] \in IndexBy(s, e) <=> A(i)
  BY <1>1, <1>2, <1>3
<1>7. /\ "plus_to_piezo" \in IndexBy(s, e) <=> B
      /\ "minus_to_piezo" \in IndexBy(s, e) <=> C
      /\ "plus_to_minus" \in IndexBy(s, e) <=> D
  BY <1>1, <1>3
<1> QED
  BY <1>5, <1>6, <1>7 DEF A, B, C, D

LEMMA LimitIs ==
  ASSUME NEW s \in Settings, NEW e \in Events
  PROVE  /\ \A p \in Parameters : Limit(s, e, p) \in Byte
         /\ \A i \in Numbers : Limit(s, e, Signals[i]) = Value(s, e.SU_number, i)
         /\ Limit(s, e, "plus_to_piezo_min") = Value(s, e.SU_number, 6)
         /\ Limit(s, e, "plus_to_piezo_max") = Value(s, e.SU_number, 7)
         /\ Limit(s, e, "minus_to_piezo_min") = Value(s, e.SU_number, 8)
         /\ Limit(s, e, "minus_to_piezo_max") = Value(s, e.SU_number, 9)
         /\ Limit(s, e, "plus_to_minus_max") = Value(s, e.SU_number, 10)
<1>1. \A p \in Parameters : Limit(s, e, p) \in Byte
  BY DEF Limit, Settings, Events
<1>2. \A i \in Numbers : Limit(s, e, Signals[i]) = Value(s, e.SU_number, i)
  <2>1. \A i \in Numbers : i <= 10
    BY DEF Numbers
  <2> QED
    BY <2>1, BitCases DEF Limit, Value
<1>3. /\ Read[6] = "plus_to_piezo_min" /\ Read[7] = "plus_to_piezo_max"
      /\ Read[8] = "minus_to_piezo_min" /\ Read[9] = "minus_to_piezo_max"
      /\ Read[10] = "plus_to_minus_max"
  BY DEF Read
<1> QED
  BY <1>1, <1>2, <1>3 DEF Limit, Value

\* A bit depends on nothing that is read after the step that decides it.
LEMMA BitAgrees ==
  ASSUME NEW s \in Settings, NEW t \in Settings, NEW e \in Events, NEW bit \in Bits,
         \A m \in 1 .. DecidedAt(bit) : Value(s, e.SU_number, m) = Value(t, e.SU_number, m)
  PROVE  bit \in IndexBy(s, e) <=> bit \in IndexBy(t, e)
<1>1. ASSUME NEW i \in Numbers, bit = Signals[i]
      PROVE  bit \in IndexBy(s, e) <=> bit \in IndexBy(t, e)
  <2>1. Limit(s, e, Signals[i]) = Limit(t, e, Signals[i])
    <3>1. i \in 1 .. DecidedAt(bit)
      BY <1>1, BitCases DEF Numbers
    <3> QED
      BY <3>1, LimitIs
  <2> QED
    BY <1>1, <2>1, IndexHas
<1>2. CASE bit = "plus_to_piezo"
  <2>1. 6 \in 1 .. DecidedAt(bit) /\ 7 \in 1 .. DecidedAt(bit)
    BY <1>2, BitCases
  <2>2. /\ Limit(s, e, "plus_to_piezo_min") = Limit(t, e, "plus_to_piezo_min")
        /\ Limit(s, e, "plus_to_piezo_max") = Limit(t, e, "plus_to_piezo_max")
    BY <2>1, LimitIs
  <2> QED
    BY <1>2, <2>2, IndexHas
<1>3. CASE bit = "minus_to_piezo"
  <2>1. 8 \in 1 .. DecidedAt(bit) /\ 9 \in 1 .. DecidedAt(bit)
    BY <1>3, BitCases
  <2>2. /\ Limit(s, e, "minus_to_piezo_min") = Limit(t, e, "minus_to_piezo_min")
        /\ Limit(s, e, "minus_to_piezo_max") = Limit(t, e, "minus_to_piezo_max")
    BY <2>1, LimitIs
  <2> QED
    BY <1>3, <2>2, IndexHas
<1>4. CASE bit = "plus_to_minus"
  <2>1. 10 \in 1 .. DecidedAt(bit)
    BY <1>4, BitCases
  <2>2. Limit(s, e, "plus_to_minus_max") = Limit(t, e, "plus_to_minus_max")
    BY <2>1, LimitIs
  <2> QED
    BY <1>4, <2>2, IndexHas
<1> QED
  BY <1>1, <1>2, <1>3, <1>4, BitCases

----------------------------------------------------------------------------
(* One change at most *)

\* The terms of the first n signals.
SumBy(s, e, n) ==
  (IF n >= 1 THEN TermBy(s, e, 1) ELSE 0) + (IF n >= 2 THEN TermBy(s, e, 2) ELSE 0)
    + (IF n >= 3 THEN TermBy(s, e, 3) ELSE 0) + (IF n >= 4 THEN TermBy(s, e, 4) ELSE 0)
    + (IF n >= 5 THEN TermBy(s, e, 5) ELSE 0)

\* Event e at step n is as it would be, had ClassifyEvent read all settings from s: the
\* bits decided so far; the terms added so far; at the end the class and the quality.
SeenAs(s, e, n, bits, rating) ==
  /\ n \in 1 .. 11 =>
       \A bit \in Bits : bit \in bits <=> DecidedAt(bit) < n /\ bit \in IndexBy(s, e)
  /\ n = 7 => e.delay_2 >= Limit(s, e, "plus_to_piezo_min") * 16
  /\ n = 9 => e.delay_3 >= Limit(s, e, "minus_to_piezo_min") * 16
  /\ n \in 12 .. 17 =>
       /\ s.SU_state[e.SU_number] # "self_test_e"
       /\ e.classification = event_class(IndexBy(s, e))
       /\ rating = 400 * e.classification + SumBy(s, e, n - 12)
  /\ n = Done =>
       /\ e.classification = event_class(IndexBy(s, e))
       /\ e.quality_number =
            IF s.SU_state[e.SU_number] = "self_test_e" THEN MAX_QUALITY
            ELSE QualityBy(s, e, e.classification)

SettingInv ==
  /\ event.delay_1 = SignedChar(event.delay_2 - event.delay_3)
  /\ at # Waiting /\ OneChange =>
       /\ \A s, t \in in_force : OneApart(s, t)
       /\ \E s \in in_force : SeenAs(s, event, at, class_index, quality)

LEMMA ApartBothWays ==
  /\ \A s : OneApart(s, s)
  /\ \A s, t : OneApart(s, t) => OneApart(t, s)
BY DEF OneApart, Steps

\* A term depends on one coefficient.
LEMMA TermAgrees ==
  ASSUME NEW s, NEW t, NEW e, NEW i \in Numbers,
         Value(s, e.SU_number, i + 11) = Value(t, e.SU_number, i + 11)
  PROVE  TermBy(s, e, i) = TermBy(t, e, i)
<1>1. ~(i + 11 <= 10) /\ i + 11 # 11 /\ (i + 11) - 11 = i
  BY DEF Numbers
<1>2. s.coefficient[i] = t.coefficient[i]
  BY <1>1 DEF Value
<1> QED
  BY <1>2 DEF TermBy

\* Two settings that do not differ in what has been read give the same record so far.
LEMMA SeenAgrees ==
  ASSUME NEW s \in Settings, NEW t \in Settings, NEW e \in Events, NEW n \in Steps,
         NEW bits, NEW rating, SeenAs(s, e, n, bits, rating),
         \A m \in Steps : m < n => Value(s, e.SU_number, m) = Value(t, e.SU_number, m)
  PROVE  SeenAs(t, e, n, bits, rating)
<1>1. \A bit \in Bits : DecidedAt(bit) < n => (bit \in IndexBy(s, e) <=> bit \in IndexBy(t, e))
  <2> SUFFICES ASSUME NEW bit \in Bits, DecidedAt(bit) < n
               PROVE  bit \in IndexBy(s, e) <=> bit \in IndexBy(t, e)
    OBVIOUS
  <2>1. \A m \in 1 .. DecidedAt(bit) : m \in Steps /\ m < n
    BY DecidedApart DEF Steps
  <2> QED
    BY <2>1, BitAgrees
<1>2. n \in 1 .. 11 =>
        \A bit \in Bits : bit \in bits <=> DecidedAt(bit) < n /\ bit \in IndexBy(t, e)
  BY <1>1 DEF SeenAs
<1>3. n = 7 => e.delay_2 >= Limit(t, e, "plus_to_piezo_min") * 16
  <2>1. 6 \in Steps /\ 6 < 7
    BY DEF Steps
  <2>2. n = 7 => Limit(s, e, "plus_to_piezo_min") = Limit(t, e, "plus_to_piezo_min")
    BY <2>1, LimitIs
  <2> QED
    BY <2>2 DEF SeenAs
<1>4. n = 9 => e.delay_3 >= Limit(t, e, "minus_to_piezo_min") * 16
  <2>1. 8 \in Steps /\ 8 < 9
    BY DEF Steps
  <2>2. n = 9 => Limit(s, e, "minus_to_piezo_min") = Limit(t, e, "minus_to_piezo_min")
    BY <2>1, LimitIs
  <2> QED
    BY <2>2 DEF SeenAs
<1>5. ASSUME n \in 12 .. 17
      PROVE  /\ t.SU_state[e.SU_number] # "self_test_e"
             /\ e.classification = event_class(IndexBy(t, e))
             /\ rating = 400 * e.classification + SumBy(t, e, n - 12)
  <2>1. t.SU_state[e.SU_number] = s.SU_state[e.SU_number]
    <3>1. 11 \in Steps /\ 11 < n /\ ~(11 <= 10)
      BY <1>5 DEF Steps
    <3> QED
      BY <3>1 DEF Value
  <2>2. IndexBy(s, e) = IndexBy(t, e)
    <3>1. \A bit \in Bits : DecidedAt(bit) < n
      BY <1>5, DecidedApart
    <3> QED
      BY <1>1, <3>1, IndexHas
  <2>3. \A i \in Numbers : n - 12 >= i => TermBy(s, e, i) = TermBy(t, e, i)
    <3>1. \A i \in Numbers : n - 12 >= i => i + 11 \in Steps /\ i + 11 < n
      BY <1>5 DEF Numbers, Steps
    <3> QED
      BY <3>1, TermAgrees
  <2>4. SumBy(s, e, n - 12) = SumBy(t, e, n - 12)
    BY <2>3 DEF SumBy, Numbers
  <2> QED
    BY <1>5, <2>1, <2>2, <2>4 DEF SeenAs
<1>6. n # Done
  BY DEF Steps, Done
<1> QED
  BY <1>2, <1>3, <1>4, <1>5, <1>6 DEF SeenAs

\* At every step there are settings in force that agree with all reads before, and with
\* the settings of now in what is read next: if they do not, the change is of just that,
\* and the settings of now agree with all reads before.
LEMMA ReadLemma ==
  ASSUME IInv, SettingInv, at \in Steps, OneChange
  PROVE  \E s \in in_force :
           /\ SeenAs(s, event, at, class_index, quality)
           /\ Value(s, event.SU_number, at) = Value(settings, event.SU_number, at)
<1>1. at # Waiting
  BY DEF Steps, Waiting
<1>2. PICK s \in in_force : SeenAs(s, event, at, class_index, quality)
  BY <1>1 DEF SettingInv
<1>3. settings \in in_force
  BY <1>1 DEF IInv, ForceInv
<1>4. OneApart(s, settings)
  BY <1>1, <1>3 DEF SettingInv
<1>5. s \in Settings /\ settings \in Settings /\ event \in Events /\ event.SU_number \in SUs
  BY SMTT(60) DEF IInv, TypeOK, Events
<1> DEFINE u == event.SU_number
<1>6. PICK k \in Steps : \A n \in Steps \ {k} : Value(s, u, n) = Value(settings, u, n)
  BY <1>4, <1>5 DEF OneApart
<1>7. CASE Value(s, u, at) = Value(settings, u, at)
  BY <1>2, <1>7
<1>8. CASE Value(s, u, at) # Value(settings, u, at)
  <2>1. \A m \in Steps : m < at => m # at
    BY DEF Steps
  <2>2. \A m \in Steps : m < at => Value(s, u, m) = Value(settings, u, m)
    BY <1>6, <1>8, <2>1
  <2>3. SeenAs(settings, event, at, class_index, quality)
    BY <1>2, <1>5, <2>2, SeenAgrees
  <2> QED
    BY <1>3, <2>3
<1> QED
  BY <1>7, <1>8

----------------------------------------------------------------------------
(* The steps of ClassifyEvent *)

\* What the classification and the rating of an event depend on.
LEMMA SameRecord ==
  ASSUME NEW s, NEW e, NEW f,
         f.SU_number = e.SU_number, f.amplitude = e.amplitude,
         f.delay_2 = e.delay_2, f.delay_3 = e.delay_3
  PROVE  /\ IndexBy(s, f) = IndexBy(s, e)
         /\ \A i : TermBy(s, f, i) = TermBy(s, e, i)
         /\ \A n : SumBy(s, f, n) = SumBy(s, e, n)
         /\ \A class : QualityBy(s, f, class) = QualityBy(s, e, class)
<1>1. IndexBy(s, f) = IndexBy(s, e)
  BY DEF IndexBy
<1>2. \A i : TermBy(s, f, i) = TermBy(s, e, i)
  BY DEF TermBy
<1>3. \A n : SumBy(s, f, n) = SumBy(s, e, n)
  BY <1>2 DEF SumBy
<1>4. \A class : QualityBy(s, f, class) = QualityBy(s, e, class)
  BY <1>2 DEF QualityBy
<1> QED
  BY <1>1, <1>2, <1>3, <1>4

\* A step of ClassifyEvent leaves the settings in force.
LEMMA StepKeeps ==
  ASSUME SettingInv, at # Waiting, in_force' = in_force,
         event'.delay_1 = event.delay_1, event'.delay_2 = event.delay_2,
         event'.delay_3 = event.delay_3,
         OneChange => \E s \in in_force : SeenAs(s, event', at', class_index', quality')
  PROVE  SettingInv'
<1>1. (event.delay_1 = SignedChar(event.delay_2 - event.delay_3))'
  BY DEF SettingInv
<1>2. OneChange' => OneChange
  BY DEF OneChange
<1>3. OneChange' => \A s, t \in in_force' : OneApart(s, t)
  BY <1>2 DEF SettingInv
<1>4. OneChange' => \E s \in in_force' : SeenAs(s, event', at', class_index', quality')
  BY <1>2
<1> QED
  BY <1>1, <1>3, <1>4 DEF SettingInv

\* A step that decides a bit as the settings it reads ask for.
LEMMA DecideBit ==
  ASSUME IInv, SettingInv, at \in 1 .. 10, at' = at + 1, at \notin {6, 8},
         NEW bit \in Bits, DecidedAt(bit) = at,
         NEW condition, SetsBit(bit, condition),
         \A s \in Settings :
           /\ SeenAs(s, event, at, class_index, quality)
           /\ Value(s, event.SU_number, at) = Value(settings, event.SU_number, at)
           => (condition <=> bit \in IndexBy(s, event))
  PROVE  SettingInv'
<1>1. /\ class_index' = IF condition THEN class_index \cup {bit} ELSE class_index
      /\ UNCHANGED <<settings, event, quality, in_force, commands>>
  BY DEF SetsBit
<1>2. at # Waiting /\ at \in Steps /\ in_force \subseteq Settings
  BY DEF Waiting, Steps, IInv, TypeOK
<1>3. ASSUME OneChange
      PROVE  \E s \in in_force : SeenAs(s, event', at', class_index', quality')
  <2>1. PICK s \in in_force :
           /\ SeenAs(s, event, at, class_index, quality)
           /\ Value(s, event.SU_number, at) = Value(settings, event.SU_number, at)
    BY <1>2, <1>3, ReadLemma
  <2>2. condition <=> bit \in IndexBy(s, event)
    BY <1>2, <2>1
  <2>3. \A b \in Bits : b \in class_index <=> DecidedAt(b) < at /\ b \in IndexBy(s, event)
    BY <2>1 DEF SeenAs
  <2>4. \A b \in Bits : b \in class_index' <=> DecidedAt(b) < at' /\ b \in IndexBy(s, event)
    <3> SUFFICES ASSUME NEW b \in Bits
                 PROVE  b \in class_index' <=> DecidedAt(b) < at' /\ b \in IndexBy(s, event)
      OBVIOUS
    <3>1. CASE b = bit
      <4>1. ~(at < at) /\ at < at + 1
        OBVIOUS
      <4> QED
        BY <1>1, <2>2, <2>3, <3>1, <4>1
    <3>2. CASE b # bit
      <4>1. DecidedAt(b) # at /\ DecidedAt(b) \in 1 .. 10
        BY <3>2, DecidedApart
      <4>2. DecidedAt(b) < at' <=> DecidedAt(b) < at
        BY <4>1
      <4> QED
        BY <1>1, <2>3, <3>2, <4>2
    <3> QED
      BY <3>1, <3>2
  <2>5. at' \in 2 .. 11 /\ at' # 7 /\ at' # 9
    OBVIOUS
  <2>6. SeenAs(s, event', at', class_index', quality')
    BY <1>1, <2>4, <2>5 DEF SeenAs, Done
  <2> QED
    BY <2>6
<1> QED
  BY <1>1, <1>2, <1>3, StepKeeps

\* The comparison with a minimum: the bit of the window is decided if the delay is below.
LEMMA BelowMinimum ==
  ASSUME IInv, SettingInv, at \in {6, 8}, at' \in {at + 1, at + 2},
         NEW bit \in Bits, DecidedAt(bit) = at + 1, NEW other, SetsBit(other, FALSE),
         \A s \in Settings :
           Value(s, event.SU_number, at) = Value(settings, event.SU_number, at)
           => /\ at' = at + 2 => bit \notin IndexBy(s, event)
              /\ at' = 7 => event.delay_2 >= Limit(s, event, "plus_to_piezo_min") * 16
              /\ at' = 9 => event.delay_3 >= Limit(s, event, "minus_to_piezo_min") * 16
  PROVE  SettingInv'
<1>1. UNCHANGED <<class_index, settings, event, quality, in_force, commands>>
  BY DEF SetsBit
<1>2. at # Waiting /\ at \in Steps /\ in_force \subseteq Settings
  BY DEF Waiting, Steps, IInv, TypeOK
<1>3. ASSUME OneChange
      PROVE  \E s \in in_force : SeenAs(s, event', at', class_index', quality')
  <2>1. PICK s \in in_force :
           /\ SeenAs(s, event, at, class_index, quality)
           /\ Value(s, event.SU_number, at) = Value(settings, event.SU_number, at)
    BY <1>2, <1>3, ReadLemma
  <2>2. /\ at' = at + 2 => bit \notin IndexBy(s, event)
        /\ at' = 7 => event.delay_2 >= Limit(s, event, "plus_to_piezo_min") * 16
        /\ at' = 9 => event.delay_3 >= Limit(s, event, "minus_to_piezo_min") * 16
    BY <1>2, <2>1
  <2>3. \A b \in Bits : b \in class_index <=> DecidedAt(b) < at /\ b \in IndexBy(s, event)
    BY <2>1 DEF SeenAs
  <2>4. \A b \in Bits : DecidedAt(b) \in 1 .. 10 /\ DecidedAt(b) # at
                        /\ (DecidedAt(b) = at + 1 => b = bit)
    BY DecidedApart
  <2>5. \A b \in Bits : DecidedAt(b) < at' <=>
                          DecidedAt(b) < at \/ (at' = at + 2 /\ DecidedAt(b) = at + 1)
    BY <2>4
  <2>6. \A b \in Bits : b \in class_index' <=> DecidedAt(b) < at' /\ b \in IndexBy(s, event)
    BY <1>1, <2>2, <2>3, <2>4, <2>5
  <2>7. at' \in 7 .. 10
    OBVIOUS
  <2>8. SeenAs(s, event', at', class_index', quality')
    BY <1>1, <2>2, <2>6, <2>7 DEF SeenAs, Done
  <2> QED
    BY <2>8
<1> QED
  BY <1>1, <1>2, <1>3, StepKeeps

LEMMA AmplitudeSetting == IInv /\ SettingInv /\ CompareAmplitude => SettingInv'
<1> SUFFICES ASSUME IInv, SettingInv, CompareAmplitude PROVE SettingInv'
  OBVIOUS
<1> DEFINE bit == Signals[at]
           condition == event.amplitude[at] >= limits[Signals[at]] * 256
<1>1. at \in Numbers /\ at' = at + 1 /\ SetsBit(bit, condition)
  BY DEF CompareAmplitude
<1>2. bit \in Bits /\ DecidedAt(bit) = at /\ bit \in Parameters
  BY <1>1, BitCases DEF Parameters
<1>3. event \in Events /\ settings \in Settings
  BY SMTT(60) DEF IInv, TypeOK, Events
<1>4. ASSUME NEW s \in Settings,
             Value(s, event.SU_number, at) = Value(settings, event.SU_number, at)
      PROVE  condition <=> bit \in IndexBy(s, event)
  <2> DEFINE level == Limit(s, event, bit)
             x == event.amplitude[at]
  <2>1. level = Limit(settings, event, bit) /\ level \in Byte
    BY <1>1, <1>2, <1>3, <1>4, LimitIs
  <2>2. level = limits[bit]
    BY <2>1 DEF Limit, limits
  <2>3. x \in Word
    BY <1>1, <1>3 DEF Events
  <2>4. bit \in IndexBy(s, event) <=> x \div 256 >= level
    BY <1>1, IndexHas
  <2>5. condition <=> x >= level * 256
    BY <2>2
  <2> HIDE DEF level, x, bit, condition
  <2>6. x \in Nat /\ level \in Nat
    BY <2>1, <2>3 DEF Byte, Word
  <2>7. x \div 256 >= level <=> x >= level * 256
    BY <2>6
  <2> QED
    BY <2>4, <2>5, <2>7
<1>5. at \in 1 .. 10 /\ at \notin {6, 8}
  BY <1>1 DEF Numbers
<1> HIDE DEF bit, condition
<1> QED
  BY <1>1, <1>2, <1>4, <1>5, DecideBit

\* The comparison of the difference, which is cut to a signed char, with its limit.
LEMMA CutDifference ==
  ASSUME NEW d \in Int, NEW most \in Byte
  PROVE  SignedChar(d) <= most <=> most >= 127 \/ d <= most
<1>1. CASE d > 127
  BY <1>1 DEF SignedChar, Byte
<1>2. CASE d < -128
  BY <1>2 DEF SignedChar, Byte
<1>3. CASE ~(d > 127) /\ ~(d < -128)
  BY <1>3 DEF SignedChar, Byte
<1> QED
  BY <1>1, <1>2, <1>3

LEMMA DelaySetting == IInv /\ SettingInv /\ CompareDelays => SettingInv'
<1> SUFFICES ASSUME IInv, SettingInv, CompareDelays PROVE SettingInv'
  OBVIOUS
<1> DEFINE u == event.SU_number
<1>1. event \in Events /\ settings \in Settings
  BY SMTT(60) DEF IInv, TypeOK, Events
<1>2. event.delay_2 \in Nat /\ event.delay_3 \in Nat
  <2> DEFINE plus == event.delay_2
             minus == event.delay_3
  <2>1. plus \in 0 .. 4095 /\ minus \in 0 .. 4095
    BY <1>1, SMTT(60) DEF Events
  <2> HIDE DEF plus, minus
  <2>2. plus \in Nat /\ minus \in Nat
    BY <2>1
  <2> QED
    BY <2>2 DEF plus, minus
<1>3. \A p : limits[p] = Limit(settings, event, p)
  BY DEF Limit, limits
<1>4. /\ "plus_to_piezo" \in Bits /\ "minus_to_piezo" \in Bits /\ "plus_to_minus" \in Bits
      /\ \A p \in Times : p \in Parameters
  BY DEF Bits, Parameters
<1>5. \A s \in Settings : \A p \in Times : Limit(s, event, p) \in Nat
  BY <1>1, <1>4, LimitIs DEF Byte
<1>6. CASE CompareMin(6, event.delay_2, "plus_to_piezo_min")
  <2> DEFINE limit == Limit(settings, event, "plus_to_piezo_min")
  <2>1. /\ at = 6 /\ SetsBit("plus_to_piezo_min", FALSE)
        /\ at' = IF event.delay_2 >= limit * 16 THEN 7 ELSE 8
    <3>1. at = 6 /\ SetsBit("plus_to_piezo_min", FALSE)
      BY <1>6 DEF CompareMin
    <3>2. at' = IF event.delay_2 >= limits["plus_to_piezo_min"] * 16 THEN 6 + 1 ELSE 6 + 2
      BY <1>6 DEF CompareMin
    <3>3. limits["plus_to_piezo_min"] = limit
      BY <1>3
    <3>4. 6 + 1 = 7 /\ 6 + 2 = 8
      OBVIOUS
    <3>5. at' = IF event.delay_2 >= limit * 16 THEN 7 ELSE 8
      BY <3>2, <3>3, <3>4, Zenon
    <3> QED
      BY <3>1, <3>5, Zenon
  <2>2. ASSUME NEW s \in Settings, Value(s, u, at) = Value(settings, u, at)
        PROVE  Limit(s, event, "plus_to_piezo_min") = limit
    BY <1>1, <2>1, <2>2, LimitIs
  <2>3. \A s \in Settings : "plus_to_piezo" \in IndexBy(s, event) =>
          event.delay_2 >= Limit(s, event, "plus_to_piezo_min") * 16
    <3>1. \A s \in Settings : /\ Limit(s, event, "plus_to_piezo_min") \in Nat
                              /\ Limit(s, event, "plus_to_piezo_max") \in Nat
      BY <1>5 DEF Times
    <3> QED
      BY <1>2, <3>1, IndexHas
  <2> HIDE DEF limit
  <2>4. \A s \in Settings :
          Value(s, u, at) = Value(settings, u, at)
           => /\ at' = at + 2 => "plus_to_piezo" \notin IndexBy(s, event)
              /\ at' = 7 => event.delay_2 >= Limit(s, event, "plus_to_piezo_min") * 16
              /\ at' = 9 => event.delay_3 >= Limit(s, event, "minus_to_piezo_min") * 16
    BY <2>1, <2>2, <2>3
  <2>5. DecidedAt("plus_to_piezo") = at + 1 /\ at \in {6, 8} /\ at' \in {at + 1, at + 2}
    BY <2>1, BitCases
  <2> QED
    BY <1>4, <2>1, <2>4, <2>5, BelowMinimum
<1>7. CASE CompareMax(7, event.delay_2, "plus_to_piezo_max", "plus_to_piezo")
  <2> DEFINE limit == Limit(settings, event, "plus_to_piezo_max")
             condition == event.delay_2 <= limit * 16
  <2>1. at = 7 /\ at' = 8 /\ SetsBit("plus_to_piezo", condition)
    BY <1>3, <1>7 DEF CompareMax
  <2>2. ASSUME NEW s \in Settings, SeenAs(s, event, at, class_index, quality),
               Value(s, u, at) = Value(settings, u, at)
        PROVE  condition <=> "plus_to_piezo" \in IndexBy(s, event)
    <3>1. Limit(s, event, "plus_to_piezo_max") = limit
      BY <1>1, <2>1, <2>2, LimitIs
    <3>2. event.delay_2 >= Limit(s, event, "plus_to_piezo_min") * 16
      BY <2>1, <2>2 DEF SeenAs
    <3>3. Limit(s, event, "plus_to_piezo_min") \in Nat /\ limit \in Nat
      BY <1>1, <1>5 DEF Times
    <3>4. "plus_to_piezo" \in IndexBy(s, event) <=>
            event.delay_2 \in Limit(s, event, "plus_to_piezo_min") * 16 .. limit * 16
      BY <3>1, IndexHas
    <3> DEFINE least == Limit(s, event, "plus_to_piezo_min")
    <3> HIDE DEF limit, least
    <3>5. least \in Nat /\ event.delay_2 >= least * 16
      BY <3>2, <3>3 DEF least
    <3>6. event.delay_2 \in least * 16 .. limit * 16 <=> event.delay_2 <= limit * 16
      BY <1>2, <3>3, <3>5
    <3> QED
      BY <3>4, <3>6 DEF least
  <2>3. DecidedAt("plus_to_piezo") = at /\ at \in 1 .. 10 /\ at \notin {6, 8} /\ at' = at + 1
    BY <2>1, BitCases
  <2> HIDE DEF condition
  <2> QED
    BY <1>4, <2>1, <2>2, <2>3, DecideBit
<1>8. CASE CompareMin(8, event.delay_3, "minus_to_piezo_min")
  <2> DEFINE limit == Limit(settings, event, "minus_to_piezo_min")
  <2>1. /\ at = 8 /\ SetsBit("minus_to_piezo_min", FALSE)
        /\ at' = IF event.delay_3 >= limit * 16 THEN 9 ELSE 10
    <3>1. at = 8 /\ SetsBit("minus_to_piezo_min", FALSE)
      BY <1>8 DEF CompareMin
    <3>2. at' = IF event.delay_3 >= limits["minus_to_piezo_min"] * 16 THEN 8 + 1 ELSE 8 + 2
      BY <1>8 DEF CompareMin
    <3>3. limits["minus_to_piezo_min"] = limit
      BY <1>3
    <3>4. 8 + 1 = 9 /\ 8 + 2 = 10
      OBVIOUS
    <3>5. at' = IF event.delay_3 >= limit * 16 THEN 9 ELSE 10
      BY <3>2, <3>3, <3>4, Zenon
    <3> QED
      BY <3>1, <3>5, Zenon
  <2>2. ASSUME NEW s \in Settings, Value(s, u, at) = Value(settings, u, at)
        PROVE  Limit(s, event, "minus_to_piezo_min") = limit
    BY <1>1, <2>1, <2>2, LimitIs
  <2>3. \A s \in Settings : "minus_to_piezo" \in IndexBy(s, event) =>
          event.delay_3 >= Limit(s, event, "minus_to_piezo_min") * 16
    <3>1. \A s \in Settings : /\ Limit(s, event, "minus_to_piezo_min") \in Nat
                              /\ Limit(s, event, "minus_to_piezo_max") \in Nat
      BY <1>5 DEF Times
    <3> QED
      BY <1>2, <3>1, IndexHas
  <2> HIDE DEF limit
  <2>4. \A s \in Settings :
          Value(s, u, at) = Value(settings, u, at)
           => /\ at' = at + 2 => "minus_to_piezo" \notin IndexBy(s, event)
              /\ at' = 7 => event.delay_2 >= Limit(s, event, "plus_to_piezo_min") * 16
              /\ at' = 9 => event.delay_3 >= Limit(s, event, "minus_to_piezo_min") * 16
    BY <2>1, <2>2, <2>3
  <2>5. DecidedAt("minus_to_piezo") = at + 1 /\ at \in {6, 8} /\ at' \in {at + 1, at + 2}
    BY <2>1, BitCases
  <2> QED
    BY <1>4, <2>1, <2>4, <2>5, BelowMinimum
<1>9. CASE CompareMax(9, event.delay_3, "minus_to_piezo_max", "minus_to_piezo")
  <2> DEFINE limit == Limit(settings, event, "minus_to_piezo_max")
             condition == event.delay_3 <= limit * 16
  <2>1. at = 9 /\ at' = 10 /\ SetsBit("minus_to_piezo", condition)
    BY <1>3, <1>9 DEF CompareMax
  <2>2. ASSUME NEW s \in Settings, SeenAs(s, event, at, class_index, quality),
               Value(s, u, at) = Value(settings, u, at)
        PROVE  condition <=> "minus_to_piezo" \in IndexBy(s, event)
    <3>1. Limit(s, event, "minus_to_piezo_max") = limit
      BY <1>1, <2>1, <2>2, LimitIs
    <3>2. event.delay_3 >= Limit(s, event, "minus_to_piezo_min") * 16
      BY <2>1, <2>2 DEF SeenAs
    <3>3. Limit(s, event, "minus_to_piezo_min") \in Nat /\ limit \in Nat
      BY <1>1, <1>5 DEF Times
    <3>4. "minus_to_piezo" \in IndexBy(s, event) <=>
            event.delay_3 \in Limit(s, event, "minus_to_piezo_min") * 16 .. limit * 16
      BY <3>1, IndexHas
    <3> DEFINE least == Limit(s, event, "minus_to_piezo_min")
    <3> HIDE DEF limit, least
    <3>5. least \in Nat /\ event.delay_3 >= least * 16
      BY <3>2, <3>3 DEF least
    <3>6. event.delay_3 \in least * 16 .. limit * 16 <=> event.delay_3 <= limit * 16
      BY <1>2, <3>3, <3>5
    <3> QED
      BY <3>4, <3>6 DEF least
  <2>3. DecidedAt("minus_to_piezo") = at /\ at \in 1 .. 10 /\ at \notin {6, 8} /\ at' = at + 1
    BY <2>1, BitCases
  <2> HIDE DEF condition
  <2> QED
    BY <1>4, <2>1, <2>2, <2>3, DecideBit
<1>10. CASE /\ at = 10 /\ at' = 11
            /\ SetsBit("plus_to_minus", event.delay_1 <= limits["plus_to_minus_max"])
  <2> DEFINE most == Limit(settings, event, "plus_to_minus_max")
             condition == event.delay_1 <= limits["plus_to_minus_max"]
  <2>1. SetsBit("plus_to_minus", condition)
    BY <1>10
  <2>2. ASSUME NEW s \in Settings, Value(s, u, at) = Value(settings, u, at)
        PROVE  condition <=> "plus_to_minus" \in IndexBy(s, event)
    <3>1. Limit(s, event, "plus_to_minus_max") = most /\ most \in Byte
      BY <1>1, <1>4, <1>10, <2>2, LimitIs DEF Times
    <3>2. "plus_to_minus" \in IndexBy(s, event) <=>
            most >= 127 \/ event.delay_2 - event.delay_3 <= most
      BY <3>1, IndexHas
    <3>3. condition <=> SignedChar(event.delay_2 - event.delay_3) <= most
      BY <1>3 DEF SettingInv
    <3>4. event.delay_2 - event.delay_3 \in Int
      BY <1>2
    <3> HIDE DEF most, condition
    <3> QED
      BY <3>1, <3>2, <3>3, <3>4, CutDifference
  <2>3. DecidedAt("plus_to_minus") = at /\ at \in 1 .. 10 /\ at \notin {6, 8} /\ at' = at + 1
    BY <1>10, BitCases
  <2> HIDE DEF condition
  <2> QED
    BY <1>4, <2>1, <2>2, <2>3, DecideBit
<1> QED
  BY <1>6, <1>7, <1>8, <1>9, <1>10 DEF CompareDelays

\* All bits are decided: they are those that the settings ask for.
LEMMA IndexComplete ==
  ASSUME TypeOK, NEW s, SeenAs(s, event, 11, class_index, quality)
  PROVE  class_index = IndexBy(s, event)
<1>1. \A b \in Bits : DecidedAt(b) < 11
  BY DecidedApart
<1>2. \A b \in Bits : b \in class_index <=> b \in IndexBy(s, event)
  BY <1>1 DEF SeenAs
<1>3. class_index \subseteq Bits /\ IndexBy(s, event) \subseteq Bits
  BY IndexHas DEF TypeOK
<1> QED
  BY <1>2, <1>3

LEMMA ClassifySetting == IInv /\ SettingInv /\ Classify => SettingInv'
<1> SUFFICES ASSUME IInv, SettingInv, Classify PROVE SettingInv'
  OBVIOUS
<1> DEFINE class == event_class(class_index)
           u == event.SU_number
           self_test == settings.SU_state[u] = "self_test_e"
           number == IF self_test THEN MAX_QUALITY ELSE 0
<1>1. /\ at = 11
      /\ event' = [event EXCEPT !.classification = class, !.quality_number = number]
      /\ at' = IF self_test THEN Done ELSE 12
      /\ quality' = 25 * AMPLITUDE_DIVIDER * class
      /\ UNCHANGED <<settings, class_index, in_force, commands>>
  BY DEF Classify
<1>2. event \in Events /\ in_force \subseteq Settings /\ TypeOK
  BY SMTT(60) DEF IInv, TypeOK, Events
<1>3. class \in 0 .. 9
  BY ClassType
<1> HIDE DEF class, number
<1>4. /\ event'.classification = class /\ event'.quality_number = number
      /\ event'.SU_number = event.SU_number /\ event'.amplitude = event.amplitude
      /\ event'.delay_1 = event.delay_1
      /\ event'.delay_2 = event.delay_2 /\ event'.delay_3 = event.delay_3
  BY <1>1, <1>2, SMTT(60) DEF Events
<1>5. at # Waiting /\ at \in Steps
  BY <1>1 DEF Waiting, Steps
<1>6. ASSUME OneChange
      PROVE  \E s \in in_force : SeenAs(s, event', at', class_index', quality')
  <2>1. PICK s \in in_force :
           /\ SeenAs(s, event, at, class_index, quality)
           /\ Value(s, u, at) = Value(settings, u, at)
    BY <1>5, <1>6, ReadLemma
  <2>2. s.SU_state[u] = settings.SU_state[u]
    <3>1. ~(11 <= 10)
      OBVIOUS
    <3> QED
      BY <1>1, <2>1, <3>1 DEF Value
  <2>3. class = event_class(IndexBy(s, event'))
    <3>1. class_index = IndexBy(s, event)
      BY <1>1, <1>2, <2>1, IndexComplete
    <3>2. IndexBy(s, event') = IndexBy(s, event)
      BY <1>4, SameRecord
    <3> QED
      BY <3>1, <3>2 DEF class
  <2>4. CASE self_test
    <3>1. /\ at' = Done /\ event'.quality_number = MAX_QUALITY
          /\ s.SU_state[event'.SU_number] = "self_test_e"
      BY <1>1, <1>4, <2>2, <2>4 DEF number
    <3>2. Done \notin 1 .. 17 /\ Done # 7 /\ Done # 9 /\ Done \notin 1 .. 11
          /\ Done \notin 12 .. 17
      BY DEF Done
    <3>3. SeenAs(s, event', at', class_index', quality')
      BY <1>4, <2>3, <3>1, <3>2 DEF SeenAs
    <3> QED
      BY <3>3
  <2>5. CASE ~self_test
    <3>1. at' = 12 /\ s.SU_state[event'.SU_number] # "self_test_e"
      BY <1>1, <1>4, <2>2, <2>5
    <3>2. SumBy(s, event', 0) = 0
      BY DEF SumBy
    <3>3. quality' = 400 * class + 0
      BY <1>1, <1>3 DEF AMPLITUDE_DIVIDER
    <3>4. 12 - 12 = 0 /\ 12 \notin 1 .. 11 /\ 12 # 7 /\ 12 # 9 /\ 12 # Done
      BY DEF Done
    <3>5. SeenAs(s, event', at', class_index', quality')
      BY <1>4, <2>3, <3>1, <3>2, <3>3, <3>4 DEF SeenAs
    <3> QED
      BY <3>5
  <2> QED
    BY <2>4, <2>5
<1> QED
  BY <1>1, <1>4, <1>5, <1>6, StepKeeps

\* The sum grows by the term of the next signal.
LEMMA SumGrows ==
  ASSUME NEW s \in Settings, NEW e \in Events, NEW n \in 0 .. 4
  PROVE  /\ SumBy(s, e, n + 1) = SumBy(s, e, n) + TermBy(s, e, n + 1)
         /\ SumBy(s, e, n) \in Int /\ TermBy(s, e, n + 1) \in Int
         /\ SumBy(s, e, 5) = TermsBy(s, e)
<1> DEFINE t1 == TermBy(s, e, 1)
           t2 == TermBy(s, e, 2)
           t3 == TermBy(s, e, 3)
           t4 == TermBy(s, e, 4)
           t5 == TermBy(s, e, 5)
           sum(k) == (IF k >= 1 THEN t1 ELSE 0) + (IF k >= 2 THEN t2 ELSE 0)
                       + (IF k >= 3 THEN t3 ELSE 0) + (IF k >= 4 THEN t4 ELSE 0)
                       + (IF k >= 5 THEN t5 ELSE 0)
<1>1. t1 \in 0 .. 80 /\ t2 \in 0 .. 80 /\ t3 \in 0 .. 80 /\ t4 \in 0 .. 80 /\ t5 \in 0 .. 80
  BY TermIs DEF Numbers
<1>2. /\ \A k : SumBy(s, e, k) = sum(k)
      /\ TermsBy(s, e) = t1 + t2 + t3 + t4 + t5
  BY DEF SumBy, TermsBy
<1>3. \/ n = 0 /\ n + 1 = 1 /\ TermBy(s, e, n + 1) = t1
      \/ n = 1 /\ n + 1 = 2 /\ TermBy(s, e, n + 1) = t2
      \/ n = 2 /\ n + 1 = 3 /\ TermBy(s, e, n + 1) = t3
      \/ n = 3 /\ n + 1 = 4 /\ TermBy(s, e, n + 1) = t4
      \/ n = 4 /\ n + 1 = 5 /\ TermBy(s, e, n + 1) = t5
  OBVIOUS
<1> DEFINE t == TermBy(s, e, n + 1)
<1> HIDE DEF t1, t2, t3, t4, t5, t
<1>4. /\ sum(0) = 0 /\ sum(1) = t1 /\ sum(2) = t1 + t2 /\ sum(3) = t1 + t2 + t3
      /\ sum(4) = t1 + t2 + t3 + t4 /\ sum(5) = t1 + t2 + t3 + t4 + t5
  BY <1>1
<1> HIDE DEF sum
<1>5. sum(n + 1) = sum(n) + t /\ sum(n) \in Int /\ t \in Int
  BY <1>1, <1>3, <1>4 DEF t
<1> QED
  BY <1>2, <1>4, <1>5 DEF t

LEMMA TermSetting == IInv /\ SettingInv /\ AddQualityTerm => SettingInv'
<1> SUFFICES ASSUME IInv, SettingInv, AddQualityTerm PROVE SettingInv'
  OBVIOUS
<1> DEFINE i == at - 11
           u == event.SU_number
           term == GetQualityTerm(settings.coefficient[i], event.amplitude[i])
<1>1. /\ at \in 12 .. 16 /\ at' = at + 1
      /\ quality' = quality + term
      /\ UNCHANGED <<settings, event, class_index, in_force, commands>>
  BY DEF AddQualityTerm
<1>2. event \in Events /\ in_force \subseteq Settings
  BY SMTT(60) DEF IInv, TypeOK, Events
<1>3. at # Waiting /\ at \in Steps /\ i \in Numbers /\ i = (at - 12) + 1 /\ at - 12 \in 0 .. 4
  BY <1>1 DEF Waiting, Steps, Numbers
<1>4. ASSUME OneChange
      PROVE  \E s \in in_force : SeenAs(s, event', at', class_index', quality')
  <2>1. PICK s \in in_force :
           /\ SeenAs(s, event, at, class_index, quality)
           /\ Value(s, u, at) = Value(settings, u, at)
    BY <1>3, <1>4, ReadLemma
  <2>2. s \in Settings
    BY <1>2
  <2>3. /\ s.SU_state[u] # "self_test_e"
        /\ event.classification = event_class(IndexBy(s, event))
        /\ quality = 400 * event.classification + SumBy(s, event, at - 12)
    BY <1>1, <2>1 DEF SeenAs
  <2>4. s.coefficient[i] = settings.coefficient[i]
    BY <1>1, <2>1 DEF Value
  <2>5. TermBy(s, event, i) = term
    BY <1>2, <1>3, <2>2, <2>4, TermIs
  <2>6. /\ SumBy(s, event, i) = SumBy(s, event, at - 12) + TermBy(s, event, i)
        /\ SumBy(s, event, at - 12) \in Int /\ TermBy(s, event, i) \in Int
    BY <1>2, <1>3, <2>2, SumGrows
  <2>7. event.classification \in 0 .. 9
    BY <1>2, SMTT(60) DEF Events
  <2> DEFINE old == SumBy(s, event, at - 12)
             new == SumBy(s, event, i)
             class == event.classification
  <2>8. /\ new = old + term /\ old \in Int /\ term \in Int /\ class \in Int
        /\ quality = 400 * class + old
    BY <2>3, <2>5, <2>6, <2>7
  <2> HIDE DEF old, new, class, term
  <2>9. quality' = 400 * class + new
    BY <1>1, <2>8
  <2>10. at' \in 12 .. 17 /\ at' - 12 = i /\ at' \notin 1 .. 11 /\ at' # 7 /\ at' # 9
         /\ at' # Done
    BY <1>1 DEF Done
  <2>11. quality' = 400 * event.classification + SumBy(s, event, i)
    BY <2>9 DEF class, new
  <2> HIDE DEF i
  <2>12. SeenAs(s, event', at', class_index', quality')
    BY <1>1, <2>3, <2>10, <2>11 DEF SeenAs
  <2> QED
    BY <2>12
<1> QED
  BY <1>1, <1>3, <1>4, StepKeeps

LEMMA StoreSetting == IInv /\ SettingInv /\ StoreQuality => SettingInv'
<1> SUFFICES ASSUME IInv, SettingInv, StoreQuality PROVE SettingInv'
  OBVIOUS
<1> DEFINE number == ((quality + AMPLITUDE_DIVIDER \div 2) \div AMPLITUDE_DIVIDER) % 256
           class == event.classification
<1>1. /\ at = 17 /\ at' = Done
      /\ event' = [event EXCEPT !.quality_number = number]
      /\ UNCHANGED <<settings, class_index, quality, in_force, commands>>
  BY DEF StoreQuality
<1>2. event \in Events /\ in_force \subseteq Settings
  BY SMTT(60) DEF IInv, TypeOK, Events
<1>3. number = ((quality + 8) \div 16) % 256
  BY DEF AMPLITUDE_DIVIDER
<1> HIDE DEF number
<1>4. /\ event'.quality_number = number /\ event'.classification = class
      /\ event'.SU_number = event.SU_number /\ event'.amplitude = event.amplitude
      /\ event'.delay_1 = event.delay_1
      /\ event'.delay_2 = event.delay_2 /\ event'.delay_3 = event.delay_3
  BY <1>1, <1>2, SMTT(60) DEF Events
<1>5. class \in 0 .. 9
  BY <1>2, SMTT(60) DEF Events
<1>6. at # Waiting
  BY <1>1 DEF Waiting
<1>7. ASSUME OneChange
      PROVE  \E s \in in_force : SeenAs(s, event', at', class_index', quality')
  <2>1. PICK s \in in_force : SeenAs(s, event, at, class_index, quality)
    BY <1>6, <1>7 DEF SettingInv
  <2>2. s \in Settings
    BY <1>2
  <2>3. 17 \in 12 .. 17 /\ 17 - 12 = 5
    OBVIOUS
  <2>4. /\ s.SU_state[event.SU_number] # "self_test_e"
        /\ class = event_class(IndexBy(s, event))
        /\ quality = 400 * class + SumBy(s, event, 5)
    BY <1>1, <2>1, <2>3 DEF SeenAs
  <2>5. SumBy(s, event, 5) = TermsBy(s, event)
    BY <1>2, <2>2, SumGrows
  <2>6. number = QualityBy(s, event, class)
    <3>1. QualityBy(s, event, class) = ((400 * class + TermsBy(s, event) + 8) \div 16) % 256
      BY <1>2, <1>5, <2>2, QualityIs
    <3> HIDE DEF class
    <3> QED
      BY <1>3, <2>4, <2>5, <3>1
  <2>7. /\ IndexBy(s, event') = IndexBy(s, event)
        /\ QualityBy(s, event', class) = QualityBy(s, event, class)
    BY <1>4, SameRecord
  <2>8. Done \notin 1 .. 11 /\ Done \notin 12 .. 17 /\ Done # 7 /\ Done # 9
    BY DEF Done
  <2> HIDE DEF class
  <2>9. SeenAs(s, event', at', class_index', quality')
    BY <1>1, <1>4, <2>4, <2>6, <2>7, <2>8 DEF SeenAs
  <2> QED
    BY <2>9
<1> QED
  BY <1>1, <1>4, <1>6, <1>7, StepKeeps

----------------------------------------------------------------------------
(* The other steps *)

LEMMA NewDifference ==
  ASSUME NEW su, NEW amplitude, NEW msb, NEW lsb1, NEW lsb2, NEW e,
         e = NewEvent(su, amplitude, msb, lsb1, lsb2)
  PROVE  e.delay_1 = SignedChar(e.delay_2 - e.delay_3)
BY DEF NewEvent

LEMMA InitSetting == Init => SettingInv
<1> SUFFICES ASSUME Init PROVE SettingInv
  OBVIOUS
<1>1. event.delay_1 = SignedChar(event.delay_2 - event.delay_3)
  BY NewDifference DEF Init, NoEvent
<1> QED
  BY <1>1 DEF Init, SettingInv

LEMMA AcceptSetting == IInv /\ SettingInv /\ HandleAcquisition => SettingInv'
<1> SUFFICES ASSUME IInv, SettingInv, HandleAcquisition PROVE SettingInv'
  OBVIOUS
<1>1. CASE UNCHANGED vars
  <2>1. OneChange' <=> OneChange
    BY <1>1 DEF OneChange, vars
  <2> QED
    BY <1>1, <2>1 DEF SettingInv, vars
<1>2. CASE /\ \E su \in SUs, amplitude \in [Numbers -> Amplitudes],
              msb \in CounterBytes, lsb1 \in CounterBytes, lsb2 \in CounterBytes :
                event' = NewEvent(su, amplitude, msb, lsb1, lsb2)
           /\ at' = 1 /\ class_index' = {} /\ in_force' = {settings}
           /\ UNCHANGED <<settings, quality, commands>>
  <2>1. event'.delay_1 = SignedChar(event'.delay_2 - event'.delay_3)
    BY <1>2, NewDifference
  <2>2. \A b \in Bits : ~(DecidedAt(b) < 1)
    BY DecidedApart
  <2>3. SeenAs(settings, event', at', class_index', quality')
    BY <1>2, <2>2 DEF SeenAs, Done
  <2>4. \A s, t \in in_force' : OneApart(s, t)
    BY <1>2, ApartBothWays
  <2> QED
    BY <1>2, <2>1, <2>3, <2>4 DEF SettingInv
<1> QED
  BY <1>1, <1>2 DEF HandleAcquisition

LEMMA RecordSetting == RecordEvent => SettingInv'
<1> SUFFICES ASSUME RecordEvent PROVE SettingInv'
  OBVIOUS
<1>1. event'.delay_1 = SignedChar(event'.delay_2 - event'.delay_3)
  BY NewDifference DEF RecordEvent, NoEvent
<1> QED
  BY <1>1 DEF RecordEvent, SettingInv

\* A command makes the settings in force two that are one change apart, or more.
LEMMA CommandSetting == IInv /\ SettingInv /\ UpdateTarget => SettingInv'
<1> SUFFICES ASSUME IInv, SettingInv, UpdateTarget PROVE SettingInv'
  OBVIOUS
<1>1. /\ in_force' = IF at = Waiting THEN {} ELSE in_force \cup {settings'}
      /\ UNCHANGED <<at, event, class_index, quality>>
  BY DEF UpdateTarget
<1>2. OneApart(settings, settings')
  BY CommandApart DEF IInv, TypeOK
<1>3. CASE at = Waiting
  BY <1>1, <1>3 DEF SettingInv
<1>4. ASSUME at # Waiting, OneChange'
      PROVE  /\ \A s, t \in in_force' : OneApart(s, t)
             /\ \E s \in in_force' : SeenAs(s, event', at', class_index', quality')
  <2>1. in_force' = in_force \cup {settings'} /\ settings \in in_force
    BY <1>1, <1>4 DEF IInv, ForceInv
  <2>2. OneChange
    BY <1>4, <2>1 DEF OneChange
  <2>3. \A s, t \in in_force : OneApart(s, t)
    BY <1>4, <2>2 DEF SettingInv
  <2>4. PICK s \in in_force : SeenAs(s, event, at, class_index, quality)
    BY <1>4, <2>2 DEF SettingInv
  <2>5. CASE settings' \in in_force
    BY <1>1, <2>1, <2>3, <2>4, <2>5
  <2>6. CASE settings' \notin in_force
    <3>1. \A r \in in_force : r = settings
      BY <1>4, <2>1, <2>6 DEF OneChange
    <3>2. \A r \in in_force' : r = settings \/ r = settings'
      BY <2>1, <3>1
    <3>3. \A r, t \in in_force' : OneApart(r, t)
      BY <1>2, <3>2, ApartBothWays
    <3> QED
      BY <1>1, <2>1, <2>4, <3>3
  <2> QED
    BY <2>5, <2>6
<1>5. (event.delay_1 = SignedChar(event.delay_2 - event.delay_3))'
  BY <1>1 DEF SettingInv
<1> QED
  BY <1>1, <1>3, <1>4, <1>5 DEF SettingInv

\* The record of an event is that of one setting: of the settings before or after the one
\* change, those that agree with all that ClassifyEvent has read.
THEOREM RecordsAreOfOneSetting == Spec => []RecordOfOneSetting
<1>1. IInv /\ SettingInv /\ [Next]_vars => SettingInv'
  <2>1. SettingInv /\ UNCHANGED vars => SettingInv'
    <3> SUFFICES ASSUME SettingInv, UNCHANGED vars PROVE SettingInv'
      OBVIOUS
    <3>1. OneChange' <=> OneChange
      BY DEF OneChange, vars
    <3> QED
      BY <3>1 DEF SettingInv, vars
  <2> QED
    BY <2>1, AcceptSetting, AmplitudeSetting, DelaySetting, ClassifySetting, TermSetting,
       StoreSetting, RecordSetting, CommandSetting DEF Next
<1>2. SettingInv => RecordOfOneSetting
  <2> SUFFICES ASSUME SettingInv, at = Done, OneChange
               PROVE  \E s \in in_force :
                        /\ event.classification = event_class(IndexBy(s, event))
                        /\ event.quality_number =
                             IF s.SU_state[event.SU_number] = "self_test_e" THEN MAX_QUALITY
                             ELSE QualityBy(s, event, event.classification)
    BY DEF RecordOfOneSetting
  <2>1. at # Waiting
    BY DEF Waiting, Done
  <2>2. PICK s \in in_force : SeenAs(s, event, at, class_index, quality)
    BY <2>1 DEF SettingInv
  <2> QED
    BY <2>2 DEF SeenAs
<1> QED
  BY InitSetting, Invariance, <1>1, <1>2, PTL DEF Spec
============================================================================

------------------------------ MODULE NtpTime ------------------------------
(***************************************************************************)
(* The arithmetic of eth/ntp/ntp.go on the 64-bit NTP timestamp: 32 bits   *)
(* of seconds since 1900 and a fraction that counts MaxFra to the second,  *)
(* against durations and times counted in nanoseconds.  TLC's integers are *)
(* too small for the real constants, which are Second = 10^9 and           *)
(* MaxFra = MaxSec = 2^32 - 1; scaled down they keep their order.          *)
(***************************************************************************)
EXTENDS Integers

CONSTANTS
  Second,  \* time.Second
  MaxFra,  \* math.MaxUint32, of the fraction
  MaxSec   \* math.MaxUint32, of the seconds

ASSUME NtpTimeAssumption ==
  /\ Second \in Nat \ {0} /\ MaxSec \in Nat
  /\ MaxFra \in Nat /\ MaxFra >= Second

Timestamps == [sec : 0 .. MaxSec, fra : 0 .. MaxFra]

\* TimestampFromUint64(0)
ZeroTimestamp == [sec |-> 0, fra |-> 0]

\* The part of a second that is left of d nanoseconds, as a fraction.
Fraction(d) == ((d % Second) * MaxFra) \div Second

\* TimestampFromTime of a time d nanoseconds after 1900, in the first era.
FromTime(d) == [sec |-> d \div Second, fra |-> Fraction(d)]

\* Timestamp.Add of a duration that is not negative.
Add(t, d) ==
  LET fra == t.fra + Fraction(d)
  IN  [sec |-> (t.sec + d \div Second + fra \div (MaxFra + 1)) % (MaxSec + 1),
       fra |-> fra % (MaxFra + 1)]

\* Go's division by 2 rounds towards zero.
Half(d) == IF d < 0 THEN -((-d) \div 2) ELSE d \div 2

\* Mutant of Sub: the fraction is always added.
SubUnsigned(t, v) ==
  LET dfra == IF t.fra < v.fra THEN v.fra - t.fra ELSE t.fra - v.fra
  IN  (t.sec - v.sec) * Second + (dfra * Second) \div MaxFra

\* Timestamp.Sub divides the absolute value of the difference of the fractions.
Sub(t, v) ==
  LET dfra == t.fra - v.fra
  IN  (t.sec - v.sec) * Second
        + (IF dfra < 0 THEN -(((-dfra) * Second) \div MaxFra) ELSE (dfra * Second) \div MaxFra)
=============================================================================

------------------------------ MODULE ElapsedTime ------------------------------
(***************************************************************************)
(* The two ways to subtract two readings of CLOCK_REALTIME: with a borrow  *)
(* (time_nanosecond.c), and in nanoseconds alone (app_03timeOfCalc.c).  A  *)
(* reading is a record of seconds and nanoseconds.  The target's long has  *)
(* 32 bits; a signed overflow wraps, as it does on the ARM of the board.   *)
(***************************************************************************)
EXTENDS Integers

CONSTANTS
  Giga,         \* nanoseconds in a second: 1000000000
  Half          \* half the numbers of a long: 2147483648

Reading == [sec : Int, nsec : 0 .. Giga - 1]

\* What a reading stands for, and the difference of two.
Nanos(tp) == Giga * tp.sec + tp.nsec
Diff(tp1, tp2) == Nanos(tp2) - Nanos(tp1)

\* dsec and dnsec after the borrow of time_nanosecond.c
Borrowed(tp1, tp2) ==
  LET dsec == tp2.sec - tp1.sec
      dnsec == tp2.nsec - tp1.nsec
  IN  IF dnsec < 0 THEN [sec |-> dsec - 1, nsec |-> dnsec + Giga]
                   ELSE [sec |-> dsec, nsec |-> dnsec]

\* What "%ld.%09ld" shows: the sign of the seconds is that of the number.
Shown(d) == IF d.sec < 0 THEN Giga * d.sec - d.nsec ELSE Giga * d.sec + d.nsec

\* A long that may have overflowed
Wrap(n) == ((n + Half) % (2 * Half)) - Half

\* The difference as app_03timeOfCalc.c prints it
Elapsed(tp1, tp2) ==
  LET dsec == Wrap(tp2.sec - tp1.sec)
      dnsec == tp2.nsec - tp1.nsec
  IN  Wrap(dnsec + Wrap(dsec * Giga))

-----------------------------------------------------------------------------
\* The borrow gives the difference, with the nanoseconds where they belong; but
\* what is printed is the difference only if the clock was not set back
\* meanwhile, or by whole seconds (time_nanosecond.c:35-42).
BorrowExact(tp1, tp2) ==
  LET d == Borrowed(tp1, tp2)
  IN  /\ d \in Reading /\ Nanos(d) = Diff(tp1, tp2)
      /\ Shown(d) = Diff(tp1, tp2) <=> (Diff(tp1, tp2) >= 0 \/ d.nsec = 0)

\* What app_03 prints is the difference exactly if a long can hold it, so up to
\* two seconds and 147483647 nanoseconds, though the product of the seconds may
\* overflow on the way (app_03timeOfCalc.c:83-86).
ElapsedExact(tp1, tp2) ==
  Elapsed(tp1, tp2) = Diff(tp1, tp2) <=>
    -Half <= Diff(tp1, tp2) /\ Diff(tp1, tp2) < Half
=============================================================================

------------------------------ MODULE TimeHelper ------------------------------
(***************************************************************************)
(* The difference of two times (time_helper.c).  A struct timeval is a     *)
(* number of seconds and one of microseconds.  Nothing in the port calls   *)
(* the function today.                                                     *)
(***************************************************************************)
EXTENDS Integers

Million == 1000000

Timeval == [sec : Int, usec : Int]

(* As gettimeofday fills it in.                                            *)
Normal(t) == 0 <= t.usec /\ t.usec < Million

Microseconds(t) == t.sec * Million + t.usec

(* y with n of its seconds counted as microseconds.                        *)
Carry(y, n) == [sec |-> y.sec + n, usec |-> y.usec - Million * n]

(* The first `if`: y gets a carry so that x has the more microseconds.     *)
Borrowed(x, y) ==
  IF x.usec < y.usec THEN Carry(y, (y.usec - x.usec) \div Million + 1) ELSE y

(* The second `if`: the excess of x is given back.                         *)
Balanced(x, y) ==
  IF x.usec - y.usec > Million
  THEN Carry(y, -((x.usec - y.usec) \div Million)) ELSE y

(* y is overwritten on the way, as in the example of the GNU C library.    *)
timeval_subtract(x, y) ==
  LET z == Balanced(x, Borrowed(x, y))
  IN  [sec |-> x.sec - z.sec, usec |-> x.usec - z.usec]
=============================================================================

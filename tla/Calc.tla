---------------------------------- MODULE Calc ----------------------------------
(***************************************************************************)
(* The calculator's state machine (app/calc.c): what its sixteen buttons   *)
(* do to the accumulator and the number being entered, in integers of      *)
(* Width bits, 32 in the code, that wrap around.                           *)
(*                                                                         *)
(* A button's callback runs inside the mouse interrupt.  The processor     *)
(* traps when a quotient does not fit, and isr_handler halts on any trap.  *)
(***************************************************************************)
EXTENDS Integers, Sequences

CONSTANTS Width,     \* bits of int32_t
          Digits,    \* digits pressed
          MaxKeys    \* bound on the keys pressed since the last clear

ASSUME WidthAssumption ==
    Width \in Nat \ {0} /\ Digits \subseteq 0 .. 9 /\ MaxKeys \in Nat

Ops   == {"+", "-", "*", "/"}
Signs == Ops \cup {"="}

\* A key, and its digit if it has one.
Digit(d)  == [key |-> "digit", digit |-> d]
Sign(key) == [key |-> key, digit |-> 0]

VARIABLES
    acc,      \* g_accumulator
    cur,      \* g_current
    pending,  \* g_pending_op, "none" when 0
    entering, \* g_entering
    display,  \* what calc_refresh_display last drew
    halted,
    keys      \* history: keys since the last clear

calcVars == <<acc, cur, pending, entering, display, halted, keys>>

IntMin == -(2 ^ (Width - 1))

(* Arithmetic as compiled, without optimisation (Makefile:11-13): modulo   *)
(* 2^Width, division towards zero.                                         *)
Wrap(n) == ((n - IntMin) % (2 ^ Width)) + IntMin

\* A digit is a number of that width.
ASSUME DigitsFit == \A d \in Digits : Wrap(d) = d

Magnitude(n) == IF n < 0 THEN -n ELSE n

Quotient(a, b) ==
    LET q == Magnitude(a) \div Magnitude(b) IN IF (a < 0) = (b < 0) THEN q ELSE -q

(* itoa draws the digits of |n|, but IntMin is its own negation: its loop  *)
(* finds no digit to draw.                                                 *)
itoa(n) == [minus |-> n < 0, digits |-> IF n = IntMin THEN {} ELSE {Magnitude(n)}]

Traps(a, b) == a = IntMin /\ b = -1

\* Variant: the divisor is not looked at.
StopsAt_ZeroToo(op, a, b) == op = "/" /\ (b = 0 \/ Traps(a, b))

StopsAt(op, a, b) == op = "/" /\ Traps(a, b)

(* calc_execute_pending: a division by zero leaves the accumulator.        *)
Result(op, a, b) ==
    CASE op = "+" -> Wrap(a + b)
      [] op = "-" -> Wrap(a - b)
      [] op = "*" -> Wrap(a * b)
      [] op = "/" -> IF b # 0 THEN Quotient(a, b) ELSE a

Press(key) ==
    /\ ~halted /\ Len(keys) < MaxKeys
    /\ keys' = Append(keys, key)

calc_refresh_display ==
    /\ display' = itoa(IF entering' THEN cur' ELSE acc')
    /\ UNCHANGED halted

(* The trap leaves the machine halted half-way through the callback.       *)
Trap(key) ==
    /\ Press(Sign(key))
    /\ StopsAt(pending, acc, cur)
    /\ halted' = TRUE
    /\ UNCHANGED <<acc, cur, pending, entering, display>>

calc_input_digit(d) ==
    /\ Press(Digit(d))
    /\ cur' = IF entering THEN Wrap(cur * 10 + d) ELSE d
    /\ entering' = TRUE
    /\ UNCHANGED <<acc, pending>>
    /\ calc_refresh_display

\* Variant: the operation waiting is dropped for the new one.
calc_input_op_Replaces(op) ==
    /\ Press(Sign(op))
    /\ acc' = cur
    /\ pending' = op /\ cur' = 0 /\ entering' = FALSE
    /\ calc_refresh_display

calc_input_op(op) ==
    /\ Press(Sign(op))
    /\ ~StopsAt(pending, acc, cur)
    /\ acc' = IF pending # "none" THEN Result(pending, acc, cur) ELSE cur
    /\ pending' = op /\ cur' = 0 /\ entering' = FALSE
    /\ calc_refresh_display

calc_do_equals ==
    /\ Press(Sign("="))
    /\ ~StopsAt(pending, acc, cur)
    /\ cur' = IF pending # "none" THEN Result(pending, acc, cur) ELSE cur
    /\ acc' = cur'
    /\ pending' = "none" /\ entering' = FALSE
    /\ calc_refresh_display

calc_do_clear ==
    /\ ~halted
    /\ cur' = 0 /\ acc' = 0 /\ pending' = "none" /\ entering' = FALSE
    /\ keys' = <<>>
    /\ calc_refresh_display

calc_init ==
    /\ cur = 0 /\ acc = 0 /\ pending = "none" /\ entering = FALSE
    /\ display = itoa(0) /\ halted = FALSE /\ keys = <<>>

(* One key: the callback of a button runs.                                 *)
Callback ==
    \/ \E d \in Digits : calc_input_digit(d)
    \/ \E op \in Ops : calc_input_op(op) \/ Trap(op)
    \/ calc_do_equals
    \/ Trap("=")
    \/ calc_do_clear

CalcSpec == calc_init /\ [][Callback]_calcVars

-----------------------------------------------------------------------------
(* What a sequence of keys means, read as a whole.                         *)

LastSign(ks, n) ==
    LET at == {i \in 1 .. n : ks[i].key \in Signs}
    IN  IF at = {} THEN 0 ELSE CHOOSE i \in at : \A j \in at : j <= i

(* Of the first n keys, for each n: the number their last digits spell, 0  *)
(* when there are none, and their value, from left to right and without    *)
(* precedence.  Digits after the last operator are its right operand.      *)
(* Behind "=", digits start a new number and anything else goes on with    *)
(* the value before.                                                       *)
Reading(ks) ==
    LET read[n \in 0 .. Len(ks)] ==
          LET i == LastSign(ks, n)
              number == IF n = i THEN 0 ELSE Wrap(read[n - 1].number * 10 + ks[n].digit)
          IN  [number |-> number,
               value  |-> IF i = 0 \/ (ks[i].key = "=" /\ n # i) THEN number
                          ELSE IF ks[i].key = "=" THEN read[i - 1].value
                          ELSE Result(ks[i].key, read[i - 1].value, number)]
    IN  read

(* What a key sequence must leave on the display: the number under entry,  *)
(* or else the value so far.                                               *)
Expected(ks) ==
    LET n == Len(ks)
        i == LastSign(ks, n)
    IN  IF i < n THEN Reading(ks)[n].number
        ELSE IF i = 0 \/ ks[i].key = "=" THEN Reading(ks)[n].value
        ELSE Reading(ks)[i - 1].value

(* The two registers and the flags of the state machine compute, for every *)
(* sequence of keys, chained operators, operators without operand, "=" in  *)
(* the middle and wrapped numbers included, what the sequence means read   *)
(* from left to right (docs/PROGRESS.md:945-952, calc.c:72-127).           *)
ShowsValue == ~halted => display = itoa(Expected(keys))

(* No sequence of keys halts the machine but one that divides the least    *)
(* integer by minus one; dividing by zero does not (calc.c:78).            *)
HaltsOnlyOnOverflow ==
    halted =>
      LET n == Len(keys) - 1
          i == LastSign(keys, n)
      IN  /\ i > 0 /\ keys[i].key = "/"
          /\ Reading(keys)[i - 1].value = IntMin
          /\ Reading(keys)[n].number = -1
=============================================================================

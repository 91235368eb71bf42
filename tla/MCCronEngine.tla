---------------------------- MODULE MCCronEngine ----------------------------
(* A small calendar: hours of three minutes, days of two hours, months of     *)
(* four days, weeks of two days; and expressions that use every kind of field. *)
EXTENDS CronEngine

CONSTANTS daily, often

MCCalendar == [m \in Minutes |-> <<m % 3, (m \div 3) % 2, 1 + ((m \div 6) % 4),
                                   1 + (m \div 24), (m \div 6) % 2>>]

Any == <<Star>>
Step(n) == <<[kind |-> "step", a |-> n, b |-> 0]>>
Between(lo, hi) == <<[kind |-> "range", a |-> lo, b |-> hi]>>
Number(n) == [kind |-> "number", a |-> n, b |-> 0]

MCExpression == [d \in Definitions |->
    IF d = daily
      THEN <<<<Number(1)>>, Step(2), Any, Any, Any>>
      ELSE <<<<Number(0), Number(2)>>, Any, Between(1, 2), Any, Between(0, 1)>>]
=============================================================================

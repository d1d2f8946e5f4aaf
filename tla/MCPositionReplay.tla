-------------------------- MODULE MCPositionReplay --------------------------
(* One position of risk 4 in a band of prices, one bar per side of a swing.   *)
EXTENDS PositionReplay

Shape(o, h, l, c) == [open |-> o, high |-> h, low |-> l, close |-> c, trail |-> 1]

\* A dip that may become a higher low, a rally, one that earns the trigger, a
\* spike that gives back more than the allowance, a fade through the raised stop, a day of the
\* warm-up, a close below the structure, a crash.
MCBarShapes ==
    {Shape(10, 11, 9, 10), Shape(10, 14, 10, 13), Shape(13, 19, 12, 18),
     Shape(14, 23, 13, 17), Shape(17, 18, 13, 14),
     [Shape(12, 13, 11, 12) EXCEPT !.trail = NoTrail],
     Shape(10, 10, 7, 7), Shape(5, 6, 4, 5)}

MCPast == <<Dated(Shape(8, 9, 7, 8), 1)>>

MCOrigins == {[day |-> 2, entry |-> 10, stop |-> 6, floor |-> 7, low2 |-> 7]}
=============================================================================

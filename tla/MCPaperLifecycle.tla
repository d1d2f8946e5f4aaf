-------------------------- MODULE MCPaperLifecycle --------------------------
(* Two symbols whose prices follow one of a few paths over three sessions.    *)
EXTENDS PaperLifecycle

CONSTANTS a, b

MCDecision == [zoneLow |-> 10, zoneHigh |-> 12, floor |-> 7, stop |-> 6, target |-> 22]

D(day, o, h, l, c) ==
    [day |-> day, open |-> o, high |-> h, low |-> l, close |-> c, trail |-> 1]

Signal == <<D(1, 10, 11, 9, 11)>>

\* Stopped out; never in the zone; halted on the day of the entry; a profit
\* floor that the close gives back, filled at the next open.
Stopped  == Signal \o <<D(2, 10, 11, 9, 10), D(3, 9, 10, 5, 6)>>
TooHigh  == Signal \o <<D(2, 14, 15, 13, 14), D(3, 11, 12, 10, 11)>>
Halted   == Signal \o <<NoBar, D(3, 11, 12, 10, 11)>>
GivenUp  == Signal \o <<D(2, 10, 19, 10, 14), D(3, 13, 14, 12, 13)>>

MCPaths == {Stopped, TooHigh, Halted, GivenUp}
MCSignalDay == [e \in Events |-> 1]

AnyEvent == Permutations(Events)
=============================================================================

-------------------------- MODULE MCSetupLifecycle --------------------------
(* Bars on five levels, weeks of two sessions, and one that lacks its Friday. *)
EXTENDS SetupDecision

\* The impulse from the lowest level is wide against the ranges of a session,
\* so that its projection pays for the risk of an entry.
Price == <<2, 25, 28, 31, 34>>

At(level) == [high |-> Price[level] + 1, low |-> Price[level] - 1, close |-> Price[level]]
Path(levels) == [i \in DOMAIN levels |-> At(levels[i])]

MCShapes == {At(level) : level \in 1..5}

\* A series that rises in weekly waves, one that falls, and a young one.
MCPasts ==
    {Path(<<2, 2, 1, 1, 3, 3, 2, 2, 4, 4, 3, 3>>),
     Path(<<4, 4, 5, 5, 3, 3, 4, 4, 2, 2, 3, 3>>),
     Path(<<2, 1, 4, 3>>)}

MCExtensions == {1272, 1618, 2000, 2618}

\* Sessions 1 to 12 are six weeks; session 13 is the seventh.
MCWeekOf == [i \in 1..20 |-> IF i <= 12 THEN (i + 1) \div 2 ELSE (i + 2) \div 2]
MCFridays == {i \in 1..20 : IF i <= 12 THEN i % 2 = 0 ELSE i > 13 /\ i % 2 = 1}
=============================================================================

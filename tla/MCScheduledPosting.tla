------------------------- MODULE MCScheduledPosting -------------------------
EXTENDS ScheduledPosting

CONSTANTS Home, Work, MCSteps

\* January 2024 to March 2026; the nights are 31 January and 4 March 2024
\* and 28 February 2025.
MCStart == <<0, 31, 60, 91, 121, 152, 182, 213, 244, 274, 305, 335, 366, 397,
             425, 456, 486, 517, 547, 578, 609, 639, 670, 700, 731, 762, 790, 821>>
MCNights == {30, 63, 424}
MCSchedules == 1..2
MCClients == 1..2
MCEnds == {59, 62}
Shape(budget, frequency, start, second, end) ==
    [budget |-> budget, frequency |-> frequency, start |-> start, second |-> second, end |-> end]
\* A person may also ask for what validate_schedule refuses.
MCShapes == {Shape(Home, "once", 60, None, None), Shape(Home, "twice_monthly", 30, 31, None),
             Shape(Work, "biweekly", 59, None, 58), Shape(Work, "biweekly", 59, None, 87)}
Scenario(first, second, allowed) ==
    [stored |-> <<Stored(first), second>>, today |-> 30, steps |-> allowed]
MCScenarios == {
    Scenario(Shape(Home, "monthly", 30, None, None), None, MCSteps),
    Scenario(Shape(Home, "twice_monthly", 30, 15, 89), Stored(Shape(Work, "daily", 57, None, 61)), MCSteps - 1),
    Scenario(Shape(Work, "yearly", 59, None, None), Stored(Shape(Home, "weekly", 55, None, 70)), MCSteps - 1)
}
=============================================================================

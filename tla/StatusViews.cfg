SPECIFICATION ViewsSpec
CONSTANTS
    day = day
    week = week
    here = here
    there = there
    Span = {day, week}
    DefaultSpan = day
    Address = {here, there}
    MaxFlights = 3
    MaxFaults = 2
INVARIANT TellsTheLatest
PROPERTIES AsksWhatIsSet TabCatchesUp

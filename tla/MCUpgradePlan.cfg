\* Two requests at a time, two plans, two assignments, two stages.
CONSTANTS
    Actors = {x1, x2}
    Plans = {p1, p2}
    Assignments = {a1, a2}
    Pilots = {i1}
    PilotOf <- OnePilot
    Schedules <- OneSchedule
    StageCount = 2
    LastDay = 2
    MaxWrites = 4
    None = None
SPECIFICATION Spec
INVARIANTS TypeOK PlansHoldAssignments StagesInOrder DatesInOrder NoWaitCycle
PROPERTIES RequestsAreAtomic
SYMMETRY Symmetry
CHECK_DEADLOCK FALSE

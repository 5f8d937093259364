\* Numbers beyond every field, over two hours, five days or four months.
CONSTANTS
    MaxNum = 65
    Horizon = 125
SPECIFICATION Spec
\* The clock stops at the horizon.
CHECK_DEADLOCK FALSE
INVARIANTS
    NeverLate
    WindowClear
PROPERTIES
    Evenly

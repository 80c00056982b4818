CONSTANTS
    a1 = a1
    a2 = a2
    b = b
    Callers = {a1, a2, b}
    Machines = {"A", "B"}
    MachineOf <- MCMachineOf
    Nobody = Nobody
    Hole = Hole
    BufferLength = 2
SPECIFICATION Spec
PROPERTY HeldFileIsUntouched
CHECK_DEADLOCK FALSE

CONSTANTS
    UserProc = {u1, u2}
    KThread = {demo, idle}
    Idle = idle
    Boot = boot
    Calls = {0, 3, 4, 14}
    Room = 5
    MaxSteps = 1
SPECIFICATION Spec
INVARIANTS Transparent StackBounded OwnAddressSpace
PROPERTY SyscallReturns
SYMMETRY Symmetry

SPECIFICATION Spec
CONSTANTS
    Procs = {p1, p2}
    Intr = Intr
    Nobody = Nobody
    INPUT_BUF_SIZE = 2
    UART_TX_BUF_SIZE = 2
    UINT = 4
    FIFO = 2
    Typed = {"x", "CR", "^D", "^H", "^U"}
    Reads = {2}
    Writes = {3}
    Loads <- MCLoads
    Used = 3
    p1 = p1
    p2 = p2
SYMMETRY Perms
INVARIANT ConsoleNotStuck OutputInOrder
PROPERTY LinesKept
CHECK_DEADLOCK FALSE

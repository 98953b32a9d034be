SPECIFICATION UartSpec
CONSTANTS
    Boards = {"F072"}
    RxLen = 2
    TxLen = 2
    MaxIn = 3
    MaxOut = 1
PROPERTIES OverrunCleared
CHECK_DEADLOCK FALSE

SPECIFICATION UartSpec
CONSTANTS
    Boards = {"F411", "F072"}
    RxLen = 2
    TxLen = 2
    MaxIn = 4
    MaxOut = 3
INVARIANTS TxInOrder RxAccounted
PROPERTIES AllTransmitted OverrunEnds
CHECK_DEADLOCK FALSE

SPECIFICATION SensorsSpec
CONSTANTS
    Tasks = {meteo}
    Programs <- SensorPrograms
    Faults = {"address", "data"}
    Prompt = TRUE
    NoTransaction = NoTransaction
    Periph = "I2C3"
    IprOffsets = {0, 4}
INVARIANTS LastByteNotAcked QuietWhenDone BusReady HandlersOrdered ConversionsMatch LightAsRemembered
PROPERTIES MeasurementsEnd

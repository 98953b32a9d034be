SPECIFICATION Spec
CONSTANTS
    Tasks = {t1, t2}
    Programs <- AllPrograms
    Faults = {"address", "data", "bus"}
    Prompt = FALSE
    NoTransaction = NoTransaction
SYMMETRY AllTasks
INVARIANTS TypeOK
PROPERTIES OkMeansTransferred ServesCallers

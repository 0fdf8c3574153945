SPECIFICATION Spec
CONSTANTS
    MaxInt = 15
    MinUnit = 4
    Pages = {1, 2, 4}
    Aligns = {1, 3, 4, 8}
    Window = 6
    MaxEvents = 4
INVARIANTS
    SlotsPartitionBlob
    FetchCoversRequest
    FetchAnswersPages
    WrittenIsMarked
    AllowedIsInBlob
    PmemHoldsPages
    LostOnlyAfterOverflow

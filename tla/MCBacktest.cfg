SPECIFICATION BacktestSpec
CONSTANTS
    TrainShare = 70
    MinTrain = 3
    MinTest = 2
    Params = 2
    Sharpes <- SomeSharpes
    Setups <- SomeSetups
    Samples <- SomeSamples
    Unit = 2
    Fees = {1, 4, 8}
    Slippages = {1, 10}
INVARIANTS TestIsUnseen FoldsDoNotOverlap GradeIsEarned IntervalsAgree
CHECK_DEADLOCK FALSE

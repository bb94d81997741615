SPECIFICATION FairSpec
CONSTANTS
    Readers <- BothReaders
    Lossy <- SecondLossy
    Size = 10
    Sizes = {1, 2}
    NUM_READERS = 2
    Budgets <- Everything
INVARIANTS SizesTrusted
PROPERTIES DeliveriesWhole ImplementsChannel RecvReturns
CHECK_DEADLOCK FALSE

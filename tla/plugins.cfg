SPECIFICATION FairSpec
CONSTANTS t1 = t1  t2 = t2  r1 = r1  r2 = r2
CONSTANT Thread <- MCThread
CONSTANT Request <- MCRequest
CONSTANTS None = None  MaxOperations = 3  MaxWrites = 2
CHECK_DEADLOCK FALSE
INVARIANTS GenerationStands NothingForgotten
PROPERTY Settles

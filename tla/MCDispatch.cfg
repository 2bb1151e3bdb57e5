CONSTANTS
    t1 = t1
    t2 = t2
    NULL = NULL
    GONE = GONE
    Threads <- MCThreads
    Calls <- MCCalls
    Objects <- MCObjects
SPECIFICATION Spec
INVARIANTS TypeOK 
  
SYMMETRY Symmetry

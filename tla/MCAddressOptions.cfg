CONSTANT Codes <- MCCodes
SPECIFICATION Spec
INVARIANTS TypeOK  AsksForWhoItIs
CHECK_DEADLOCK FALSE

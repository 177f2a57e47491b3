\* Ten integer parameters and a placeholder of up to two digits.
CONSTANTS
    Queries <- MCQueriesTen
    ParamLists <- MCParamListsTen
INIT Init
NEXT Next
CHECK_DEADLOCK FALSE
INVARIANT ExtendedMatchesSimple

\* Up to two parameters of every shape, prepared texts of up to four tokens.
CONSTANTS
    Queries <- MCQueries
    ParamLists <- MCParamLists
INIT Init
NEXT Next
CHECK_DEADLOCK FALSE
INVARIANTS TypeOK SubstitutionSound

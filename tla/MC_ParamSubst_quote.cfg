\* A text value holding a quote.
CONSTANTS
    Queries <- MCQueriesQuote
    ParamLists <- MCParamListsQuote
INIT Init
NEXT Next
CHECK_DEADLOCK FALSE
INVARIANT ExtendedMatchesSimple

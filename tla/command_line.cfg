\* Every list of up to five arguments.
SPECIFICATION Spec
CONSTANT ArgLists <- AllLists
INVARIANTS TypeOK AcceptsGrammar FilesAreLast LastOptionWins
CHECK_DEADLOCK FALSE

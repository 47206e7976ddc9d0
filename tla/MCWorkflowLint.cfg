SPECIFICATION Spec
CONSTANTS
    Documents <- LintedDocuments
INVARIANTS LintPreventsDeadlock
CHECK_DEADLOCK FALSE

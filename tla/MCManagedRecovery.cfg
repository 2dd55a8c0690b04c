\* Two callers, so that one call can recover what the other is still creating,
\* or adopt the connection of e2 that refused it.
CONSTANTS
    Identities = {e1, e2}
    Callers = {c1, c2}
    Earlier = {e2}
    TheConfig = TheConfig
    Receipts = {e1, e2, TheConfig}
    NoReceipt = NoReceipt
SPECIFICATION FairSpec
INVARIANTS
    ManagedSafety
PROPERTIES
    ConnectionIsRecorded

SPECIFICATION SharedSpec
CONSTANTS
    Versions = {v1, v2}
    Names = {"spend", "audit"}
    Policies <- MCPolicies
    Ledgers = {l1}
    Actors = {a1}
    MaxReceipts = 1
    Absent = Absent
INVARIANTS
    OneRootPerVersion
CHECK_DEADLOCK FALSE

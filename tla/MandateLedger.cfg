SPECIFICATION Spec
CONSTANTS
    Versions = {v1, v2}
    Names = {"spend", "audit"}
    Policies <- MCPolicies
    Ledgers = {l1}
    Actors = {a1, a2, a3}
    MaxReceipts = 3
    Absent = Absent
SYMMETRY MCSymmetry
INVARIANTS
    TypeOK
    Conservation
    ReceiptsReplay
    ReceiptTrail
    OneRootPerVersion
CHECK_DEADLOCK FALSE

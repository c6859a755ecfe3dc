CONSTANTS
    PbxCount = 2
    CallNos = {10, 11}
SPECIFICATION SoftSpec
INVARIANTS SoftTypeOK LiveIsActive ActiveIsAlive OneStream NothingUnsent

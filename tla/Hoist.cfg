SPECIFICATION Spec
CONSTANT MaxLen = 7
INVARIANTS
    AllBoundNamesOrNone
    HoistedNamesAreNeverRead

SPECIFICATION FairSpec
CONSTANTS
    Reserves <- MCReserves
    Fees <- MCFees
    Balance <- MCBalance
    Borrowers <- MCBorrowers
    CategoryOf <- MCCategoryOf
    Bounds <- MCBounds
    limitPerPage = 2
    maxRetries = 2
    MaxReverts = 1
INVARIANTS TypeOK AllBorrowersLoaded CategoriesLoaded ReservesLoaded BestPoolKept
PROPERTY StartEnds
CHECK_DEADLOCK FALSE

SPECIFICATION Spec
CONSTANTS
    auto1 = auto1
    auto2 = auto2
    book = book
    accounts = accounts
    contacts = contacts
    CRMAccount = CRMAccount
    CRMContact = CRMContact
    NULL = NULL
    AutoIds <- MCAutoIds
    OwnIds = {}
    Books = {book}
    Tables = {accounts, contacts}
    Contracts = {CRMAccount, CRMContact}
    Sizes = {0, 1, 2}
    Caps = {1}
    DefaultCap = 2
    MaxReceived = 3
SYMMETRY MCSymmetry
INVARIANTS NothingStale WholeUnlessRepeated ReplaysAgree
PROPERTIES SessionsAreKept
CHECK_DEADLOCK FALSE

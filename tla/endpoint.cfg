SPECIFICATION Spec
CONSTANTS
    api = api
    demo = demo
    late = late
    red = red
    SERVED = SERVED
    Api = {api}
    Demo = {demo}
    Plain = {}
    Accounts = {late, red}
    Days = {0}
    Book <- MCBook
    Precedence <- MCPrecedence
    Requests <- MCRequests
    MaxProposals = 2
    MaxFaults = 2
INVARIANTS HeldIsNotApproved ApprovedIsDelivered
PROPERTIES ImplementsAuthorization
CHECK_DEADLOCK FALSE

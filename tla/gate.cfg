SPECIFICATION Spec
CONSTANTS
    p1 = p1
    p2 = p2
    x1 = x1
    x2 = x2
    x3 = x3
    c1 = c1
    agent = agent
    h1 = h1
    h2 = h2
    g1 = g1
    g2 = g2
    NULL = NULL
    Proposals = {p1, p2}
    Payloads = {x1, x2, x3}
    PortablePayloads = {x1, x2}
    Contacts = {c1}
    ContactOf <- MCContactOf
    Actions <- MCActions
    Tier <- MCTier
    AutoInternal <- MCAutoInternal
    Principals = {agent, h1}
    Humans = {h1}
    System = agent
    Gates = {g1, g2}
    ActorOf <- MCActorOf
    k1 = k1
    Committers = {k1}
INVARIANTS VerdictMatchesStatus EffectsAuthorized OutreachWasConsented IInv
PROPERTIES DecidedIsFrozen ImplementsAuthorization
SYMMETRY MCSymmetry

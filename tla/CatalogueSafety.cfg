SPECIFICATION Spec
CONSTANTS
    Users = {ada, bob}
    Founder = ada
    NoUser = NoUser
    ada = ada
    bob = bob
    Kinds = {"scenario", "persona", "rag_profile", "prompt", "chunking_profile", "vector_store", "session", "evaluation"}
    Items = {i1, i2}
    Children = {c1}
    Slots = {r1, r2}
    MaxRequests = 3
INVARIANTS
    ReferencesAreHonoured
    ProfilesStayConsistent
    EveryAccountHasARole
CHECK_DEADLOCK FALSE

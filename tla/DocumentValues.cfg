SPECIFICATION Spec
CONSTANTS
    Inputs <- Documents
INVARIANTS
    RoundTrip
    CopiesApart
    ComparisonsExact

SPECIFICATION FairSpec
CONSTANTS
    Proposals = {p1, p2}
    Acceptors = {a1}
    BaseOf <- FromOriginalOrAnywhere
    Faults = {"crash", "tear"}
    MaxFaults = 3
    NoBase = NoBase
    Original = Original
    Absent = Absent
    NoJournal = NoJournal
    NoProposal = NoProposal
    p1 = p1
    p2 = p2
INVARIANTS
    OnlyApproved
    SurvivesOneFault
PROPERTIES
    MarkedIsInstalled
    PutBack
CHECK_DEADLOCK FALSE

SPECIFICATION FairSpec
CONSTANTS
    CRs <- Namesakes
    Exporter <- OneExporter
    Deletes = 1
    Faults = 1
INVARIANT
    TypeOK
PROPERTIES
    LiveObjectsStay
    EventuallyAllPresent
    EventuallyNothingElse
    EventuallyReported
CHECK_DEADLOCK FALSE

CONSTANTS
    Batches = {"b", "c"}
    Gets = {"g"}
SPECIFICATION CoresSpec
INVARIANTS
    CoresTypeOK
    MainBlobsStayOpen
    BatchKeepsItsBlobs
PROPERTY WritableDriveGetsBlobs
CHECK_DEADLOCK FALSE

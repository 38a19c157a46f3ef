SPECIFICATION Spec
CONSTANTS
    Kinds <- MCKinds
    Ported <- MCPorted
    Files <- MCFiles
    Setups <- MCSetups
    Pool = 2
    PerWorker = 1
    MaxUnscoped = 4
    MaxFaults = 2
INVARIANTS
    JobsAreTheScopeInOrder
    MemoryIsRespected
    ReportAddsUp
    AuditAgreesWithCompose

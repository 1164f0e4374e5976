CONSTANT MaxFaults = 4
SPECIFICATION Spec
INVARIANTS BoundIsComplete RunsCleanly QuietWipe ResetRestores PowerAgrees
PROPERTIES CredentialsKept AgentDecides

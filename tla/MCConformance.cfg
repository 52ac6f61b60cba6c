SPECIFICATION ConformanceSpec
CONSTANTS
  Policies <- MCPolicies
  Requests <- MCRequests
  Targets <- MCTargets
  Resolver <- MCResolver
  Locations <- MCLocations
  Subjects <- MCSubjects
  Mappings <- MCMappings
INVARIANTS
  RaceDecides
  OnlyWhatIsNamed
  VerdictExact
PROPERTIES
  PromptAbort
  NothingInFlight
CHECK_DEADLOCK FALSE

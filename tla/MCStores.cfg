SPECIFICATION Spec
CONSTANTS
  k1 = k1 k2 = k2 x = x y = y z = z x4 = x4 t1 = t1 t2 = t2 s1 = s1 s2 = s2 s3 = s3 vision = vision
  NoModel = NoModel
  Tasks = {k1, k2}
  MaxOps = 4
  MaxEdits = 3
  MaxEvents = 1
  MaxCrashes = 1
  MaxUnsaved = 3
  Metered <- MCMetered
  Tenants <- MCTenants
  Names <- MCNames
  TTLs <- MCTTLs
  Spans <- MCSpans
  TraceOf <- MCTraceOf
  Tokens <- MCTokens
  Governed <- MCGoverned
  TenantPolicies <- MCTenantPolicies
  Models <- MCModels
  Records <- MCRecords
  Presets <- MCPresets
  Requests <- MCRequests
  ModelPolicies <- MCModelPolicies
  Latencies <- MCLatencies
  Capabilities <- MCCapabilities
  Packages <- MCPackages
  NameOf <- MCNameOf
  VersionOf <- MCVersionOf
  Contents <- MCContents
  Runtimes <- MCRuntimes
  Paths <- MCPaths
  Slots <- MCSlots
  Members <- MCMembers
  Definitions <- MCDefinitions
  Expressions <- MCExpressions
  Starts <- MCStarts
  Workflows <- MCWorkflows
  StrictPolicies <- MCStrictPolicies
  Classified <- MCClassified
  Keys = {s1, s2}
  Forever = 9
  MaxTime = 3
  Traces = {t1, t2}
  Region = "here"
  MaxAgents = 2
  Unlimited = 99
  Manifest = s1
  Current = 0
  FlowAgents = {x, y}
  Here = "here"
SYMMETRY Symmetry
INVARIANTS
  TypeOK
  
  SecretsKept
  MemoryKept
  TokensBilled
  PolicyHeld
  RoutedWell
  RegistryTruthful
  
  PackagesRun
  RunServed
  CronExact
  AdviceSound
CHECK_DEADLOCK FALSE

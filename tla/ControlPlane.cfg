SPECIFICATION MCSpec
CONSTANTS
  None = None
  Plugins = {p}
  Versions = {1, 2}
  Digests = {d, e}
  HostApis = {0, 1}
  Sources = {s, t}
  MaxGeneration = 2
  RequiredStable = 2
  MaxErrors = 2
  MaxEmpty = 2
  MaxProbe = 3
  RequireNative = TRUE
  Objects = {a, b}
  Roles = {L}
  MaxChannels = 2
  MaxRefs = 8
  MaxEntries = 32
  Registrations <- Studio
  Documents <- AllDocuments
  Collections <- AllCollections
  Modules = {m}
  MaxPolls = 2
  Devices <- MCDevices
  Profiles <- MCProfiles
  Requests <- MCRequests
  PartOf <- Contained
  Numerals <- MCNumerals
  MaxPlugged = 3
  Capacity = 2
  MaxEventBytes = 250
  MostCounted = 1
  Events <- MCEvents
  Severities = {1, 2}
  SupportDocuments <- MCSupportDocuments
  MaxPushes = 3
  Recorders = {x, y}
  Durations = {1, 2}
  Occupancies = {1}
  MaxRecordings = 2
SYMMETRY Interchangeable
INVARIANTS RegistrySound SessionsSound SetupSound DaemonSound StableSelectorKept DiagnosticsSound
PROPERTY ReleasedOnlyActive

CONSTANTS
  MaxHosts = 3
  MaxGroups = 2
  MaxTunnels = 1
  MaxJumpHops = 1
  MaxMillis = 60000
  HasHome = TRUE
  MaxFiles = 3
  MaxBytes = 15
  MaxEntries = 2
  DefaultUser = ""
  InitialDocument <- MCInitialDocument
  HostForms <- MCHostForms
  TunnelForms <- MCTunnelForms
  GroupNames <- MCGroupNames
  ImportDocuments <- MCImportDocuments
  FileSystems <- MCFileSystems
  MaxSuffix = 3
  MaxSaves = 2
SPECIFICATION WorkspaceSpec
INVARIANTS
  SavedIsUsable
  ViewIsCurrent
  PreviewIsFaithful
  BackoffIsBounded

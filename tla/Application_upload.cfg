SPECIFICATION Spec
CONSTANTS
  PluginTypes = {"GHP"}
  Workers = {w1, w2}
  Documents <- MCDocuments
  FirstFiles = {"base"}
  Uploads = {"base", "more", "moved", "twice", "other", "meets", "oldtls", "broken"}
  FirstOwn <- MCOwn
  ForeignPorts = {2}
  MaxUploads = 2
  MaxCommands = 2
  MaxRequests = 3
INVARIANTS
  RunsTheFile
  AllUp
PROPERTIES
  SwitchActsOnShown
  HostsStayUp
  RestartsComplete
CHECK_DEADLOCK FALSE

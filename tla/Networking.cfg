CONSTANTS
  c1 = c1
  c2 = c2
  Clients <- MCClients
  Ways <- MCWays
  Server = server
  None = None
  Error = Error
  Names <- MCNames
  Hosts <- MCHosts
  Ports <- MCPorts
  FailureLimit = 2
SPECIFICATION FairSpec
CHECK_DEADLOCK FALSE
INVARIANTS TypeOK DescriptorsOwned CallsSound AddressesReadBack
PROPERTIES Served

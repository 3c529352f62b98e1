CONSTANTS
  Nets <- MCNets
  Wifi = "MRF24W"
  Stacks <- MCStacks
  Addresses <- MCAddresses
  RetryLimit = 2
  RetryWrap = 4
  DhcpThreshold = 2
SPECIFICATION NetSpec
INVARIANTS
  WifiIsKnown
  UpIsServed
  ResetsAreCounted

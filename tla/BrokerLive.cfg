SPECIFICATION Spec
CONSTANTS
  inStream = inStream
  plugin = plugin
  outStream = outStream
  cmdApi = cmdApi
  nameIn = nameIn
  namePlugin = namePlugin
  cmdTopic = cmdTopic
  Clients = {inStream, plugin, outStream}
  Topics = {nameIn, namePlugin}
  TopicsOf <- MCTopicsOf
  PrefixOf <- Prefixed
  Wanted <- ProcessWanted
  Late <- ProcessLate
  Undecodable = {}
  Hwm = 2
  MaxMsgs <- TwoInOneOther
INVARIANTS NoGapsOnceFlowing
PROPERTIES SubscriptionsSettle TakenIsHandled
CHECK_DEADLOCK FALSE

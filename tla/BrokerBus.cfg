SPECIFICATION Spec
CONSTANTS
  inStream = inStream
  plugin = plugin
  outStream = outStream
  cmdApi = cmdApi
  nameIn = nameIn
  namePlugin = namePlugin
  cmdTopic = cmdTopic
  Clients = {inStream, plugin, outStream, cmdApi}
  Topics = {nameIn, namePlugin, cmdTopic}
  TopicsOf <- MCTopicsOf
  PrefixOf <- Prefixed
  Wanted <- ProcessWanted
  Late <- BothLate
  Undecodable = {cmdTopic}
  Hwm = 2
  MaxMsgs <- TwoInOneCmd
PROPERTIES BusSpec
CHECK_DEADLOCK FALSE

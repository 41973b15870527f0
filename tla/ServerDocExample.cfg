SPECIFICATION Spec
CONSTANTS
  inA = inA
  inB = inB
  out = out
  outToo = outToo
  Plug = Plug
  Other = Other
  proc = proc
  proc2 = proc2
  NoProcess = NoProcess
  NoName = NoName
  NullEntry = NullEntry
  Port = Port
  TlmTopic = tlm
  CmdTopic = cmd
  Names = {inA, inB, out, outToo, Plug, Other, tlm, cmd}
  Processes = {proc, proc2}
  Configs <- DocExample
INVARIANTS NeverCrashes
CHECK_DEADLOCK FALSE

SPECIFICATION Spec
CONSTANTS
  Functions = {"f"}
  Configs = {"good", "inline"}
  Codes = {"wasm", "bad"}
  Broken = {"bad"}
  Inline = {"inline"}
  ByPath = {}
  InlineCode <- MCInlineCode
  EnvFile = {}
  BadSchedule = {}
  Start <- MCStart
  Written <- MCDeleted
  Rebuilt = {}
  Asked = {}
  Deploys = {}
  MaxEdits = 1
  Nothing = Nothing
  Unparsable = Unparsable
  Missing = Missing
  Removed = Removed
  NoJob = NoJob
INVARIANT DeletedIsRemoved
CHECK_DEADLOCK FALSE

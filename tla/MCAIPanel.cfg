SPECIFICATION AIPanelSpec
CONSTANTS
  None = None
  Conns = {c1}
  ToolCalls = {t1}
  Presses = 0
  Pending = 4
PROPERTY AISettles
CHECK_DEADLOCK FALSE

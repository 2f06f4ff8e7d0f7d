SPECIFICATION GatewaySpec
CONSTANTS
  Timeout = 2
  Grace = 1
  Links = {"CONNECTING", "DISCONNECTED"}
  LastMoment = 2
  MaxPushes = 1
  MaxCommands = 2
PROPERTY PushIsGuarded
CHECK_DEADLOCK FALSE

\* Three small messages for one server.
SPECIFICATION Spec
CONSTANTS
  Hosts = {"server"}
  Servers = {"server"}
  Unparsable = {}
  Canonical <- OneHost
  Shapes <- Small
  Header = 2
  Limit = 6
  ReadSize = 100
  Room = 100
  MaxPuts = 3
PROPERTIES
  Delivered
CHECK_DEADLOCK FALSE

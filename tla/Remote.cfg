\* Hosts of every kind; packets up to, at and over the limit that fit one read and one write.
SPECIFICATION Spec
CONSTANTS
  Hosts = {"server", "nobody", "text", "alias"}
  Servers = {"server", "alias"}
  Unparsable = {"text"}
  Canonical <- WithAlias
  Shapes <- AroundLimit
  Header = 2
  Limit = 5
  ReadSize = 100
  Room = 100
  MaxPuts = 4
INVARIANTS
  TypeOK
  
  
  DestinationsLive
  ClientSurvives
PROPERTIES
  Forgotten
CHECK_DEADLOCK FALSE

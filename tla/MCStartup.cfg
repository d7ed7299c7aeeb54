\* Any two optional variables are set at a time, the required ones in any way;
\* 30 is above the default of DB_MAX_CONNECTIONS, 70000 is no port.
SPECIFICATION FairSpec
CONSTANTS
  Absent = Absent
  Malformed = Malformed
  Empty = Empty
  Text = Text
  Numbers <- NumbersTried
  MaxCapacity = 50000
  Migrations = 4
  MaxSet = 2
  MaxStarts = 2
INVARIANTS StartedAsAssumed NoKeyNoEntry
PROPERTIES SchemaIsComplete StartComesToAnEnd
CHECK_DEADLOCK FALSE

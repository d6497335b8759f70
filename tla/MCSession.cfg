SPECIFICATION FairSessionSpec
CONSTANTS
  Opcodes = {2, 8}
  MaxCommands = 2
  Conns <- MCConns
  AddressOf <- MCAddressOf
INVARIANTS
  OneClient
  SendersPrepared
PROPERTIES
  FreedOnClose
CHECK_DEADLOCK FALSE

SPECIFICATION LibSpec
CONSTANTS
  WORD = 300
  MAX_INTERGER_SIZE = 6
  MAX_HEX = 5
  PrintCalls <- MCPrintCalls
  SIZE = 4
  BYTE_MOD = 2
  Fills <- MCFills
INVARIANTS
  PrintsMeaning
  KeepPromises
CHECK_DEADLOCK FALSE

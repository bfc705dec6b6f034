CONSTANTS
  Addrs = {"a4", "a6"}
  Bits <- AddrBits
  V6 = {"a6"}
SPECIFICATION Spec
INVARIANTS BlockRespected MostSpecificWins DestinationRight LongestMatch DoHPolicyRight
CHECK_DEADLOCK FALSE

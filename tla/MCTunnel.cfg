CONSTANTS
  OriginPolicies <- AllPolicies
  SNIPolicies <- ModesForSNI
SPECIFICATION Spec
INVARIANTS NoConnLeft StreamIntact OnePolicyOneTarget ReplyHonest
CHECK_DEADLOCK FALSE

CONSTANT N = 4
SPECIFICATION FairSpec
INVARIANTS ReturnedConnOpen NoConnLeft AllAddressesTried
PROPERTIES AllEnd

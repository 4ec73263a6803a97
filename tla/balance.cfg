\* A charge and two deductions contend for one row, and the database refuses
\* operations of one deduction.  On the other row a deduction fails
\* after its log was written, and is repeated.
SPECIFICATION FairSpec
CONSTANTS
  rich = rich
  poor = poor
  charge = charge
  buy = buy
  buyAgain = buyAgain
  unlucky = unlucky
  Users = {rich, poor}
  Calls = {charge, buy, buyAgain, unlucky}
  UserOf <- Owner
  Kind <- KindOf
  Amount <- AmountOf
  InitialBalance <- Balances
  Faults <- MixedFaults
INVARIANTS
  TypeOK
  
  
  ContendersAllSucceed
PROPERTIES
  AccountRefined
  CallsEnd
CHECK_DEADLOCK FALSE

SPECIFICATION FairSpec
CONSTANTS
  Accounts={s1,s2}
  Maps={Home,m1}
  Home=Home
  World=World
  Null=Null
  Login <- MCLogin
  s1=s1
  s2=s2
  m1=m1
  MaxMoves=2
INVARIANTS Served InPlace
PROPERTIES SessionsEnd
CHECK_DEADLOCK FALSE

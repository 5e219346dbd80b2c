SPECIFICATION FairSpec
CONSTANTS
  Programs = {p1}
  Autos = {a1}
  Silent = {s1}
  Foreign = {f1}
  NumMsgs = 2
  Attempts = 1
  Cards = {tag, other}
  Approved = {tag}
  None = None
INVARIANTS
  TypeOK
  EchoMatches
  OneOutstanding
  LockedUntilApproved
PROPERTY ClientsFinish
\* All clients may have come and gone, or the server may be over.
CHECK_DEADLOCK FALSE

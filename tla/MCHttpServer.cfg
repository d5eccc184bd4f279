SPECIFICATION FairSpec
CONSTANTS
  c1 = c1
  c2 = c2
  Clients <- MCClients
  Units <- MCUnits
  Messages <- MCMessages
  Judge <- MCJudge
  Chunk = 2
  MaxHead = 5
  MaxBody = 3
  Crlf = Crlf
  Unreadable = Unreadable
  NoClient = NoClient
INVARIANTS
  TypeOK
  AnsweredAsSent
  LimitsPart
PROPERTIES
  EveryoneServed
\* Once every client has been answered, the server waits for the next.
CHECK_DEADLOCK FALSE

\* Two requests, one thread, two checks that change twice between them.
CONSTANTS
  Requests = {q1, q2}
  q1 = q1
  q2 = q2
  postgres = postgres
  cache = cache
  Asks <- WhoAsks
  Threads = 1
  Checks <- CheckOrder
  Required <- RequiredChecks
  MaxFlips = 2
SPECIFICATION FairSpec
INVARIANTS
  AnswersAreOwn
  AnswersFollowContract
  ReadyIsTrue
PROPERTIES
  ProbesAnswered

\* Every request is sent once and the checks change twice: it may stop.
CHECK_DEADLOCK FALSE

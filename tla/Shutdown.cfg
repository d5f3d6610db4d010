\* Three requests of two statements each, which may never end; signals at any moment.
SPECIFICATION FairSpec
CONSTANTS
  Requests = {q1, q2, q3}
  Statements = 2
INVARIANTS
  TypeOK
  HealthzMeansUsable
  LossAnnounced
  PidFileOutlivesRequests
PROPERTY
  SignalEnds

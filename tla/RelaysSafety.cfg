\* Four changes of the SMTP integrator or the task-handler, two faults.
SPECIFICATION FairSpec
CONSTANTS
  Offers <- MCOffers
  MaxLines = 4
  MaxChanges = 4
  MaxFaults = 2
INVARIANTS
  TypeOK
  FilesBeforeAddress
  AnnouncedCertificates
  OutboxFollowsAddress
  CredentialsAsPublished
  RelayAsPublished
PROPERTY HooksGetTheirTurn
CHECK_DEADLOCK FALSE

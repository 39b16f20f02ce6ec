SPECIFICATION Spec
CONSTANTS
  QAs = {q1, q2}
  Leaders = {l1, l2}
  Superuser = Superuser
  NoReview = NoReview
  Nobody = Nobody
  MaxReserved = 2
  MaxActions = 4
PROPERTY
  ReturnedNeverReleased
CHECK_DEADLOCK FALSE

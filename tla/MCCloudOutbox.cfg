SPECIFICATION Spec
CONSTANTS
  Messages = {m1, m2, m3}
  Listener = Listener
  Nobody = Nobody
  OutboxSize = 2
  MaxAttempts = 2
SYMMETRY Symmetry
CHECK_DEADLOCK FALSE
INVARIANTS ExactlyOneInvitation DeliveredOnce Accounted HeldInOrder FlushedBeforeHandover

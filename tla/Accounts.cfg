SPECIFICATION Spec
CONSTANTS
  demo = demo
  ann = ann
  p1 = p1
  p2 = p2
  aws = aws
  gcp = gcp
  q1 = q1
  q2 = q2
  Emails = {demo, ann}
  Demo = demo
  Passwords = {p1, p2}
  DemoPassword = p1
  Legacy = {ann}
  Providers = {aws, gcp}
  Requests = {q1, q2}
  MaxTokens = 2
  Faults = {"commit", "mail", "crash"}
SYMMETRY Slots
INVARIANTS TypeOK AccountKept ConsumedWhole ResetOnce ConfirmIdempotent AllOrNoPrices
PROPERTIES ImplementsCredentials
CHECK_DEADLOCK FALSE

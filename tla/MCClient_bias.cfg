\* The sensor client: the records of a stream begun by bias.
SPECIFICATION Spec
CONSTANTS
  a = a
  b = b
  Callers = {a}
  Plays <- HealthyOnly
  Modulus = 8
  LowMax = 1
PROPERTIES
  BiasStreamIsShown
CHECK_DEADLOCK FALSE

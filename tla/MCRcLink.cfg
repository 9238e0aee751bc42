\* One switch; 500 ms is one tick.
SPECIFICATION LinkSpec
CONSTANTS
  Switch = {s1}
  Timeout = 1
PROPERTIES
  KeepsPromise
  LossInvalidates
  SteadyLinkValidates

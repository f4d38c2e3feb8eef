SPECIFICATION Spec
CONSTANTS
  CollectTime = 1
  ResponseTime = 10
  AvgInterval = 1
  Samples = {0, 3}
PROPERTY AverageOfWindow
PROPERTY DeltaSpansInterval
PROPERTY ChecksEvenlySpaced

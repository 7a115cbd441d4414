SPECIFICATION ResultSpec
CONSTANTS
  Detections <- MCDetections
  Threshold = 45
INVARIANT DifferedOnly

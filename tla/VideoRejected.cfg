SPECIFICATION Spec
CONSTANTS
  Alternate = {"480p", "1080i"}
  Countdown = 2
  MaxFaults = 3
PROPERTY RejectedStaysRejected

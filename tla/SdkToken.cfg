SPECIFICATION Spec
CONSTANTS
  Clock = {0, 1, 2, 3, 4, 5, 6}
  Life = 4
  Margin = 2
  MaxFlights = 2
INVARIANT
  AcceptedWhenClocksAgree

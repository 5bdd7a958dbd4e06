SPECIFICATION NSpec
CONSTANTS
    MaxRequests = 2
    MaxFaults = 1
CHECK_DEADLOCK FALSE
PROPERTY CityLeftAsFound

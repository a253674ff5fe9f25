SPECIFICATION BrokerSpec
CONSTANTS
  Absent = Absent
  Empty = Empty
  Certs = {c1, c2}
  MaxMosqCrashes = 2
PROPERTY SeenCrlIsInForce
PROPERTY RevokedIsShutOut
PROPERTY BrokerSettles

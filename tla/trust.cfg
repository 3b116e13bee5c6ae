SPECIFICATION TrustSpec
CONSTANTS
  s1 = s1
  s2 = s2
  aa1 = aa1
  aa2 = aa2
  Stations <- TwoStations
  Authorities = {aa1, aa2}
  Authority <- OneEach
  CertificatePeriod = 2
  TicketLife = 4
  AuthorityLife = 5
  MaxAge = 4
  CamPeriod = 2
  MaxMissed = 1
  MaxDelay = 0
  Renewals <- FirstRenews
  Others = {}
PROPERTIES OneMissedMessage MutualTrust RequestsEnd

SPECIFICATION FairSpec
CONSTANTS
  s2 = s2
  Services = {s1, s2}
  Pods = {p1}
  SpaceOf <- SpacesGiven
  Labels = {"web", "db"}
  Ports = {"http", "https"}
  a1 = a1
  a2 = a2
  n1 = n1
  n2 = n2
  n3 = n3
  Addresses = {a1, a2}
  AddressPool = {a1, a2}
  NodePorts = {n1, n2, n3}
  PortRange = {n1, n2}
  ServiceSpecs <- SpecsGiven
  MaxEdits = 4
  None = None
  Headless = Headless
CHECK_DEADLOCK FALSE
INVARIANTS TypeOK PortBooksBalance RoutesUnique RuntimeFresh
PROPERTIES Served

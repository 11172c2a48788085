SPECIFICATION Spec
CONSTANTS
  Callers = {k1, k2, k3, k4}
  Conns = {c1, c2, c3, c4}
  NoConn = none
  MaxConnections = 2
  MinConnections = 1
SYMMETRY Symmetry
INVARIANT OnePlace
PROPERTY LeasesSpec

\* Two programs that overwrite each other.
SPECIFICATION Spec
CONSTANTS
  Proc = {p1, p2}
  Alias = {a1, a2}
  SecretKey = {s1}
  PublicKey = {}
  PrivateKey = {}
  X509Cert = {}
  OtherCert = {}
  Password = {w1, w2}
  DiskMayFail = FALSE
  None = None
SYMMETRY Symmetry
PROPERTY InsertKeepsOthers

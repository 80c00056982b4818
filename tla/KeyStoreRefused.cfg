\* One program, a disk that does not fail: a refused insert.
SPECIFICATION Spec
CONSTANTS
  Proc = {p1}
  Alias = {a1, a2}
  SecretKey = {s1}
  PublicKey = {}
  PrivateKey = {v1}
  X509Cert = {}
  OtherCert = {o1}
  Password = {w1, w2}
  DiskMayFail = FALSE
  None = None
SYMMETRY Symmetry
PROPERTY RefusedCallKeepsKeys

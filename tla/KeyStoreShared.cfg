\* Two programs that share the key store file.
SPECIFICATION Spec
CONSTANTS
  Proc = {p1, p2}
  Alias = {a1}
  SecretKey = {s1}
  PublicKey = {}
  PrivateKey = {}
  X509Cert = {}
  OtherCert = {}
  Password = {w1, w2}
  DiskMayFail = TRUE
  None = None
SYMMETRY Symmetry
INVARIANTS TypeOK WriterSeesItsImage
PROPERTY GetReturnsInserted

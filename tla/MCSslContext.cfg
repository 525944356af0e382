SPECIFICATION Spec
CONSTANTS
  Texts = {"root", "bundle", "garbage"}
  Subjects = {"Root", "Intermediate"}
  First <- MCFirst
  Connections = {c1, c2}
  Bios = {b1, b2}
  X509s = {x1, x2, x3}
  None = none
INVARIANTS
  TypeOK
  Balanced
  Trusted

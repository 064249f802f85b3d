SPECIFICATION Spec
CONSTANTS
  g1 = g1
  g2 = g2
  c1 = c1
  short = short
  long = long
  Writers = {g1, g2, c1}
  Locked = {g1, g2}
  Processes = {{g1, g2}, {c1}}
  Readers = {r1}
  Docs = {short, long}
  Inodes = {i1, i2, i3, i4}
  Size <- TwoDocs
  NoDoc = NoDoc
  NoInode = NoInode
  NoWriter = NoWriter
INVARIANTS TypeOK FileIsWhole
PROPERTIES ImplementsAtomicFile
SYMMETRY Symmetry

CONSTANTS
    p1 = p1  p2 = p2  i1 = i1  i2 = i2  a = a  b = b
    None = None
    Process = {p1, p2}
    Inode = {i1, i2}
    Item = {a, b}
    Chunk = {1}
    MaxBytes = 2
    Digest <- MCDigest
    Sha256 <- MCSha256
    Accepted <- MCAccepted
SPECIFICATION Spec
SYMMETRY Symmetry
INVARIANTS TypeOK LinkedIsVerified CasIntegrity NoWriterOnPublished PartialPrefixDurable
PROPERTIES ImplementsContentStore

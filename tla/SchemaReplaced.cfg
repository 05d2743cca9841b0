SPECIFICATION ProtoSpec
CONSTANTS
    FileNames = {f1, f2}
    SchemaProjects = {p, q}
    Uploaders = {u1, u2}
    Readers = {r1}
    MaxUploads = 3
    None = None
SYMMETRY Interchangeable
INVARIANTS
    ReplacementIsRead
CHECK_DEADLOCK FALSE

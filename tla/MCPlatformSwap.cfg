SPECIFICATION Spec
CONSTANTS
    Renders = {r1}
    Specs = {s1}
    Coords = {c}
    Unversioned = {}
    Unbuildable = {}
    None = None
    MaxEdits = 3
    MaxRecreates = 0
    MaxFaults = 0
    s1 = s1  s2 = s2  s3 = s3  c = c
INVARIANT LeaseKeepsDirectory

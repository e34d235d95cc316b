\* Two requests that install or upgrade one repository.
SPECIFICATION Spec
CONSTANTS
    LocalPaths <- MCLocal
    ReleaseZip <- MCZip
    NameSlug <- MCNames
    Contents <- MCContents
    Release <- MCRelease
    Configs = {c1, c2}
    Requests = {r1, r2}
    MaxId = 2
SYMMETRY Symmetry
INVARIANTS  RunsWhatIsStored
 

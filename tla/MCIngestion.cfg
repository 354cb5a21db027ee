SPECIFICATION Spec
CONSTANTS
    Source = {s1, s2}
    Upload = {u1, u2, u3}
    File <- Files
    BatchSize = 2
    MaxErrors = 2
SYMMETRY UploadSymmetry
CHECK_DEADLOCK FALSE
INVARIANTS
    CountersAddUp
    JobsTellWhatWasStored
    SourceShowsItsLastUpload

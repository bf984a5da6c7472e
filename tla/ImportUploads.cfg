SPECIFICATION UploadFair
CONSTANTS
  Length = 4
  Chunk = 2
  Retries = 1
  Overlap = FALSE
  LateStop = FALSE
  MaxLosses = 3
  MaxRestarts = 1
  MaxExpiries = 1
INVARIANT Intact
PROPERTIES Resumes

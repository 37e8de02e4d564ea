SPECIFICATION Spec
CONSTANTS
  Stems <- Names
  Upper <- UpperOf
  Strip <- StripOf
  Placed <- FewFiles
  Processes = {p1, p2}
  Uploads = {u1, u2}
  Runs = {r1}
  MaxChunks = 2
CHECK_DEADLOCK FALSE
SYMMETRY Interchangeable
INVARIANTS
  LoadsOneUpload
  AnsweredIsStored
  AcceptedFindsFile
  UploadedIsRunnable

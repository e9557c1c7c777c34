CONSTANTS
  i1 = i1
  i2 = i2
  x1 = x1
  x2 = x2
  x3 = x3
  archive = archive
  folder = folder
  loose = loose
  copies = copies
  Imports = {i1, i2}
  Images = {x1, x2, x3}
  Unit <- SomeUnits
  Places = {archive, folder, loose, copies}
  Contents <- SomeContents
  Requests <- SomeRequests
  Nil = Nil
  MaxFails = 1
  MaxApi = 1
SPECIFICATION ImportSpec
INVARIANT ImportsAreCommitted
CHECK_DEADLOCK FALSE

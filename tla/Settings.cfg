\* A plain-reset or bootloader start, pages of this and of an earlier version,
\* power lost at any step.
SPECIFICATION Spec
CONSTANTS
  Repetitions = 2
  Commanded = {6, 8, 12}
  EntryMasks = {TRUE, FALSE}
  Versions = {2}
  Ramps = {50}
  Directions = {1}
  UnitSize = 8
INVARIANTS
  TypeOK
  HandlersFindState
  StartsFromFlash
  RequestKept
PROPERTIES
  SaveServed
  KeepsStore

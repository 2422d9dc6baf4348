\* A save as main.rs comments it.
SPECIFICATION Spec
CONSTANTS
  Repetitions = 2
  Commanded = {8, 12}
  EntryMasks = {TRUE}
  Versions = {3}
  Ramps = {50}
  Directions = {0}
  UnitSize = 8
PROPERTIES
  SaveCopiesCommanded

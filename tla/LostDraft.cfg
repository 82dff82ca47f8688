\* A draft that is opened is removed before anything else has it.
CONSTANTS
  valid = valid
  invalid = invalid
  failing = failing
  yaml = yaml
  otherYaml = otherYaml
  Versions = {valid, invalid, failing}
  Blank = valid
  Texts = {yaml, otherYaml}
  TextOf <- Conversion
  MapOf <- Reading
  Empty = Empty
  Throws = Throws
  None = None
  Broken = Broken
  MaxWrites = 0
  MaxSaves = 1
SPECIFICATION FilesSafety
PROPERTY OpenedDraftIsSaved

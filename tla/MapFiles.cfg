\* A map between its webview and its files: a version that can be converted, one
\* that is not valid and one at which the conversion throws; one save at a time;
\* the user goes on when the panel and the disk have settled, except for closing,
\* opening and crashing, which happen at any time.
CONSTANTS
  valid = valid
  invalid = invalid
  failing = failing
  yaml = yaml
  otherYaml = otherYaml
  Versions = {valid, invalid, failing}
  Blank = valid
  Texts = {yaml, otherYaml}
  TextOf <- Conversion
  MapOf <- Reading
  Empty = Empty
  Throws = Throws
  None = None
  Broken = Broken
  MaxWrites = 0
  MaxSaves = 1
SPECIFICATION FilesSpec
INVARIANTS
  PanelIsTold
  DraftFollowsEdits
  DefinitionIsLastSave
PROPERTIES
  TitleCatchesUp
  SavesAreWritten

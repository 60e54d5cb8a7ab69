SPECIFICATION Spec
CONSTANTS
  Phones = {p1, p2}
  Types <- MCTypes
  TYPE_NAMES <- MCTypeNames
  SCALING <- MCScaling
  Configs <- MCConfigs
  Choices <- MCChoices
  Macs = {"m1", "m2"}
  None = None
  Sensors <- MCSensors
  DefaultTile = "ect_c"
  FirstTile = "rpm"
  Colours <- MCColours
  Black = "#000000"
  DefaultColour = "#ffb400"
  Notations = {"[255, 0, 0]"}
  MaxEdits = 2
SYMMETRY MCSymmetry
PROPERTIES
  SavesOnlyEdits
  SavedAgain

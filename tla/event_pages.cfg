SPECIFICATION Spec
CONSTANTS
  InputStarts <- MCInputStarts
  OutputStarts <- MCOutputStarts
  InputDrafts <- MCInputDrafts
  OutputDrafts <- MCOutputDrafts
  Items = {"xlr"}
  Positions = {1}
  PlotStarts <- MCPlotStarts
  Templates <- MCTemplates
  MaxCalls = 3
  MaxOthers = 1
  PatchOthers <- MCPatchOthers
  PlotOthers <- MCPlotOthers
INVARIANTS
  TypeOK
  InputCablesEndOnRows
  OneCableToAJack
  TracesAgree
  PlotRowsStand
PROPERTIES
  DialogsTouchTheirCable
  BoxMovesKeepCounts
  PhoneRoutingLands
  DragMovesInItsPlane
  PicksAreAccepted
CHECK_DEADLOCK FALSE

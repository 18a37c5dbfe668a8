SPECIFICATION Spec
CONSTANTS
  InputStarts <- MCSheetStarts
  OutputStarts = {}
  InputDrafts <- MCInputDrafts
  OutputDrafts = {}
  Items = {"xlr"}
  Positions = {1}
  PlotStarts = {}
  Templates = {}
  MaxCalls = 3
  MaxOthers = 0
  PatchOthers = {}
  PlotOthers = {}
PROPERTY RefusedRowReopens
CHECK_DEADLOCK FALSE

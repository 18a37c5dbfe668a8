SPECIFICATION Spec
CONSTANTS
  InputStarts <- MCSplitterStarts
  OutputStarts = {}
  InputDrafts <- MCInputDrafts
  OutputDrafts = {}
  Items = {"xlr"}
  Positions = {1}
  PlotStarts = {}
  Templates = {}
  MaxCalls = 3
  MaxOthers = 0
  PatchOthers = {}
  PlotOthers = {}
INVARIANT TracesMirror
CHECK_DEADLOCK FALSE

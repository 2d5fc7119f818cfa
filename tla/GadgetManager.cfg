CONSTANTS
  Gadgets = {rss, clock}
  Local = {clock}
  Unsupported = {rss}
  NoGadget = NoGadget
  MaxInstances = 3
  Threshold = 4
  MaxCalls = 3
  Restarts = FALSE
SPECIFICATION Spec
INVARIANTS InactiveIsOnly ActiveSetExact IdsMatchStatus OptionsFileOwned
PROPERTY FilesOfActiveKept

SPECIFICATION FairFrameSpec
CONSTANTS
  v0 = v0
  v1 = v1
  v2 = v2
  v3 = v3
  Values = {v0, v1, v2, v3}
  Default = v0
  Calls = {"draw", "clear_color", "clear_depth_stencil"}
  MaxCommands = 2
  sample_count = 2
  far_depth = 2
  aa_z_offset <- MCOffset
  Descs <- MCDescs
  Pipelines <- MCPipelines
  Fragments <- MCFragments
  ClearArgs <- MCClears
  Home <- MCHome
  Programs <- MCOne
  Surfaces <- MCSurfaces
  MAX_RENDER_TARGETS = 4
  FLOAT_MAX = 1000
  Names = {"color", "light", "clash"}
  HashOf <- MCHash
  Bytes = {0, 1}
  Data <- MCData
  Layouts <- MCLayouts
  MaxMemory = 4
  Bindings = {"p", "q", "n"}
  InputLayouts <- MCInputLayouts
  RegisterMaps <- MCRegisterMaps
  MAX_INPUT_SLOTS = 4
PROPERTIES EveryDrawReturns

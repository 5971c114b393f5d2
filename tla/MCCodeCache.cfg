CONSTANTS
  Pc = {"a", "b", "c"}
  Shape <- MCShape
  Boot = {"c"}
  Known = {}
  Crowded = {"b", "c"}
  InRam = {"a", "b"}
  CodeSize = 8
  FlushAt = 6
  MaxVersion = 1
  Presets <- MCPresets
SPECIFICATION Spec
INVARIANT RunsWhatWasAsked
PROPERTIES FreshAfterInvalidate FailsOncePerRewrite

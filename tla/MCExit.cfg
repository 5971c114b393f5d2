CONSTANTS
  Cells <- MCCells
  Broadcast <- MCBroadcast
  Images <- MCImages
  Writes <- MCWrites
  Presets <- MCPresets
  MaxSessions = 2
SPECIFICATION Spec
INVARIANTS SaveAtomic SettingsKept WatchdogSafe
PROPERTIES FactoryKept ExitEnds
CHECK_DEADLOCK FALSE

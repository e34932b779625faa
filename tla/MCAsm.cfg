SPECIFICATION Spec
CONSTANTS
  Sources <- MCSources
  Embeddable <- MCEmbeddable
  Locals = {".x"}
  MaxEmbed = 2
  MaxLines = 5
  MaxFiles = 2
INVARIANTS LoadedAsWritten ReferencesReachLabels
CHECK_DEADLOCK FALSE

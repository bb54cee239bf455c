SPECIFICATION Spec
CONSTANTS
  Letters <- MCLetters
  Digits <- MCDigits
  Programs <- Blocks
  Spacings = {"all", "minus", "none"}
INVARIANT CompiledAsMeant
INVARIANT OneOperandEach

\* Every policy over every string of up to 4 bytes of the alphabet.
CONSTANTS
  MAX_LABEL_LENGTH <- MCMaxLabel
  MAX_NAME_LENGTH <- MCMaxName
  MAX_CHARS <- MCMaxChars
  Inputs <- MCInputs
SPECIFICATION Spec
INVARIANTS
  TypeOK
  DecodeMatchesGrammar
  EncodeDecodeAgree
  ConstAgreesWithRuntime

SPECIFICATION Spec
CONSTANTS
  editor = editor  term = term
  Clients = {editor, term}
  Program <- MCProgram
  Digit <- MCDigit
  Discardless = {term}
  MaxStates = 2
  Names <- MCNames
  AutostartExec <- MCAutostartExec
  AutostartWords <- MCAutostartWords
INVARIANTS
  SavedCommandIsKept
  SavedStateIsKept
  NewSessionIsCurrent
  FieldCodesAreOneWord

SPECIFICATION Spec
CONSTANTS
  Shell = sh
  Writers = {sh, demo1, demo2}
  Width = 5
  Height = 2
  TabStop = 2
  Printable = {"a", "b", " "}
  Keys = {"a", "b", " ", "newline", "backspace", "other"}
  MaxLine = 6
  MaxArgs = 3
  MaxBlocks = 2
  Banner <- MCBanner
  PROMPT <- MCPrompt
  Commands <- MCCommands
  Message <- MCMessage
  FileBlock <- MCFileBlock
  Budgets <- MCBudgets
SYMMETRY Threads
INVARIANTS
  OnScreenWhenQuiet
  ShowsPaper
  LineShown
  ArgumentsParsed
CHECK_DEADLOCK FALSE

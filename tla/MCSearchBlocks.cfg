SPECIFICATION Spec
CONSTANTS
  Letters <- MCLetters
  Slots <- MCSlots
  Hash <- MCHash
  Texts <- MCTexts
  Queries <- MCQueries
  Limits <- MCLimits
  Layouts <- MCLayouts
  MaxPackages = 3
INVARIANTS
  NeverRefused
  ExactAnswer

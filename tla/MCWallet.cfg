SPECIFICATION Spec
CONSTANTS
  Words = 2048
  Word <- MCWord
  Entropies <- MCEntropies
  Mistakes <- MCMistakes
  Digest <- MCDigest
  Hrp <- MCHrp
  HumanParts <- MCHumanParts
  Versions = {0, 16, 17}
  Programs <- MCPrograms
  Foreign <- MCForeign
  Typed <- MCTyped
  MaxErrors = 2
  Calls <- MCCalls
  MaxVersion = 10
INVARIANTS
  PhrasesAreRight
  AddressesAreRight
  QrIsReadable
CHECK_DEADLOCK FALSE

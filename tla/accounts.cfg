SPECIFICATION Spec
CONSTANTS
  Names = {a, b}
  Creds = {k1, k2}
  OwnerOf <- MCOwnerOf
  Books <- MCBooks
  OldBooks <- MCOldBooks
  Appended = {"ledger"}
  MaxOwn = 1
  MaxIds = 2
  MaxKills = 1
  MaxFaults = 1
SYMMETRY MCSymmetry
INVARIANTS
  TypeOK
  CredentialsSurvive
  OneOwnerPerBook
PROPERTIES
  BookNeverStranded
  BooksOnlyMove

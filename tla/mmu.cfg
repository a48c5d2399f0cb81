\* Tables of three entries, one kind of valid content.
SPECIFICATION Spec
CONSTANTS
  EntryNum = 3
  Pages <- MCPages
INVARIANTS
  TypeOK
  AllInvalid

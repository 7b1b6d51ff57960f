SPECIFICATION Spec
CONSTANTS
    a = a  b = b  c = c  x = x  y = y
    byCity = byCity  byCityName = byCityName  byName = byName
    Keys = {a, b}
    KeyOrder <- TwoKeys
    Fields <- NameFields
    Documents <- SomeDocuments
    Missing = Missing
    Blank = Blank
    Indexes = {byCity, byCityName, byName}
    IndexOrder <- AllIndexes
    FieldsOf <- SomeFields
    Unique = {byName}
    MaxEntries = 4
    Absent = Absent
    Tombstone = Tombstone
CHECK_DEADLOCK FALSE
INVARIANTS
    IndexAnswersAsScan
    UniqueIndexSound
PROPERTIES
    OthersStayFound

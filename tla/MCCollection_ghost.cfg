SPECIFICATION Spec
CONSTANTS
    a = a  b = b  c = c  x = x  y = y
    byCity = byCity  byCityName = byCityName  byName = byName
    Keys = {a, b}
    KeyOrder <- TwoKeys
    Fields <- NameFields
    Documents <- PlainDocuments
    Missing = Missing
    Blank = Blank
    Indexes = {byCity}
    IndexOrder <- CityIndex
    FieldsOf <- SomeFields
    Unique = {}
    MaxEntries = 4
    Absent = Absent
    Tombstone = Tombstone
CHECK_DEADLOCK FALSE
INVARIANTS
    DeletedNotFound

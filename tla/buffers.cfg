CONSTANTS
    Instances = {b1}
    MaxFields = 3
    Fields <- MCFields
    Radix = 4
    CharLength <- MCCharLength
    SingleOf <- MCSingleOf
    WordBits = 5
    CharBytes <- MCCharBytes
    Texts <- MCTexts
    Views = {v1, v2}
    Stores = {s1, s2, s3}
    Callers <- MCCallers
    MaxBytes = 2
    Values = {1}
SPECIFICATION Spec
SYMMETRY Symmetry
INVARIANTS TypeOK RoundTrip CrossRead FieldsComeBack MarkStaysPut ViewsKeepContents
PROPERTY GrowingDisturbsNobody
CHECK_DEADLOCK FALSE

SPECIFICATION XmlSpec
CONSTANT Documents <- MCDocuments
INVARIANT ReadsDocument
INVARIANT Nested

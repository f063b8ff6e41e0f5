SPECIFICATION PhonesSpec
CONSTANT Paragraphs <- MCParagraphs
CHECK_DEADLOCK FALSE
INVARIANT InternationalFormat

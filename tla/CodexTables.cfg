\* A file that has a table.
CONSTANTS
    ProxyURLs = {p1}
    MaxLines = 2
    MaxEdits = 0
SPECIFICATION Spec
INVARIANT UserTablesKept

\* Any file of up to two lines, two edits, two addresses of the proxy.
CONSTANTS
    ProxyURLs = {p1, p2}
    MaxLines = 2
    MaxEdits = 2
SPECIFICATION Spec
INVARIANTS TypeOK OneBlock UserLinesSurvive DoctorTruthful
PROPERTY CommandsExact

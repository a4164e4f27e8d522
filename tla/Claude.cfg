\* The user's URL is none of the proxy's; the proxy's address changes once.
CONSTANTS
    UserURLs = {u1, u2}
    ProxyURLs = {p1, p2}
    NoURL = NoURL
    MaxEdits = 2
SPECIFICATION Spec
INVARIANTS ManagedURLRecorded UserSettingsSurvive DoctorTruthful
PROPERTY UninstallReverses

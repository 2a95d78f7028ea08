\* Lists of up to four events, three of them in the prompt, two citations asked
\* for and wanted by the preview.  Id 4 is an invented one for shorter lists, or
\* an event left out of the prompt.
CONSTANTS
    url = url
    none = none
    Evidence <- MCEvidence
    Ids = {1, 2, 3, 4}
    Urls = {url}
    NoUrl = none
    Limit = 3
    Minimum = 2
    Advised = 2
    Risks = {"high", "moderate", "severe"}
    Actions = {"close_crossing_and_reroute", "quarantine"}
    Confidences = {7, 12}
SPECIFICATION Spec
CHECK_DEADLOCK FALSE
INVARIANTS
    AcceptedIsGrounded
    AdviceIsGrounded
    ComplianceIsAccepted
PROPERTIES
    GroundsByContract

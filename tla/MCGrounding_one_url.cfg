\* As MCGrounding, up to the accepted answer: one risk, action and confidence.
CONSTANTS
    url = url
    none = none
    Evidence <- MCEvidence
    Ids = {1, 2, 3, 4}
    Urls = {url}
    NoUrl = none
    Limit = 3
    Minimum = 2
    Advised = 2
    Risks = {"high"}
    Actions = {"close_crossing_and_reroute"}
    Confidences = {7}
SPECIFICATION Spec
CHECK_DEADLOCK FALSE
INVARIANT AcceptedWroteEnough

\* The removal comes after the timeout.
SPECIFICATION Spec
CONSTANTS
    Sessions = {a, b}
    Requests = {r1}
    MaxAdds = 0
    Races = {"timeout"}
INVARIANTS StoredAtEveryPoint

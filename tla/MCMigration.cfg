\* One migration among three sessions, with an add by a user and a wait that may time out.
SPECIFICATION FairSpec
CONSTANTS
    Sessions = {a, b, c}
    Requests = {r1}
    MaxAdds = 1
    Races = {"timeout"}
INVARIANTS  StoredSomewhere 
PROPERTIES MigrationEnds

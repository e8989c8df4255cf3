\* Spans on either side of the overflow, with the callbacks between any two accesses.
SPECIFICATION FairSpec
CONSTANTS
    Spans = {0, 30000, 268435, 268436, 600000}
    Drops = {0, 1, 8, 400}
    RecordCount = 2
    MaxPosts = 2
INVARIANTS IntervalInRange PlugKeepsDefault
PROPERTIES MeasuresAgain

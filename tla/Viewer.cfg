SPECIFICATION ViewerSpec
CONSTANTS
    Lifted <- NoLifted
    Programs <- InitialProgram
    Files <- ThreeFiles
    Labels <- ThreeLabels
    MaxOut = 1
    Bare = {2}
INVARIANTS
    OffersPaired
    Paired
    PlaysCast
    ShowsPlaying
PROPERTY
    LabelledIsOffered

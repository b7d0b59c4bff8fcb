\* Two tunnels of one client, two bytes in one direction.
SPECIFICATION FairSpec
CONSTANTS
    Garbled = Garbled
    AddressBits = 2
    Addresses <- OneAddress
    Answers <- SomeAnswers
    Texts <- ShortTexts
    Directions <- OneDirection
    MaxBytes = 2
    MaxTunnels = 2
INVARIANTS TypeOK ConfigIsTheText ConfigIsTheAnswer NothingLeftBehind ShowsWhatWasRead
PROPERTY CountsShown
CHECK_DEADLOCK FALSE

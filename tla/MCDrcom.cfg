CONSTANTS
    ChallengeTry = 1
    LoginTry = 1
    AliveTry = 1
    MaxFaults = 2
    Tools = {"curl", "wget", "neither"}
    Offline = {"portal", "redirect", "page", "nothing"}
SPECIFICATION FairSpec
INVARIANTS
    KeepsAliveWhatItGot
    InStep
PROPERTIES
    OnlineAgain
VIEW MCView

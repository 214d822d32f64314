SPECIFICATION PageSpec
CONSTANTS
  None = None
  Failed = Failed
  Errands <- AnySession
  Server = {"home", "sub", "vlt"}
  Home = "home"
  VaultRoot = "vlt"
  VaultDeep = "deep"
  Order <- ThreeNames
  Hidden = {"h"}
  MaxInFlight = 2
  MAX_PREFETCHES = 1
  TextFiles = {"a", "b"}
  Markdown = {"m"}
  MaxEdits = 1
  Kind <- TwoAndAVideo
  Fingers = {1, 2}
  Query = {"q1", "q2"}
  Folders <- PickerFolders
  Blocked <- PickerBlocked
  Songs <- ThreeSongs
  Folders0 <- DriveFolders
  Files0 <- DriveFiles
  Nested <- DriveVaults
  Added <- AddedLater
  Into <- DriveVault
  Shown0 <- DropOnHome
  Dropped <- DroppedOnce
  Twin <- Suffixed
INVARIANTS
  SettledScreenIsTrue CacheKeepsUpWithWrites SelectionStandsForRows NoPlaintextOutsideVault
  TextStaysInItsFile LeavingLosesNothing
  ViewerComesToRest
  DialogShowsItsOwn
  GainIsTheSongs VerdictsAreEarned LastTagsReachServer
  OriginalsGoOnlyWhenImported
PROPERTIES
  BatchTakesOnlyChosen ViewerStaysLeft NextIsTheOnePeeked FoldersAreNotMerged
CHECK_DEADLOCK FALSE

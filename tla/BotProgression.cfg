SPECIFICATION BuildSpec
CONSTANTS
  Bot <- MCBot
  Short <- MCShort
  Slug <- MCSlug
  BotOrder <- MCBotOrder
  TrackOrder <- MCTrackOrder
  RangeTrack = "Range"
  LabOf <- MCLabOf
  Mastery <- MCMastery
  Exports <- MCExports
  Overlays <- MCOverlays
INVARIANTS
  OverlayShows
  LockedLeaksOnlyShorts
CHECK_DEADLOCK FALSE

SPECIFICATION Spec
CONSTANTS
  Width = 5
  Height = 2
  Align = 2
  FullEvery = 3
  White = "w"
  Colours = {"w", "k", "g"}
  Paint <- MCPaint
  Gray <- MCGray
  Scenes <- Screens
  BootPicture <- MCBoot
INVARIANTS ShowsFrame

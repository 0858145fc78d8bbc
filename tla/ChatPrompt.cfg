SPECIFICATION PromptSpec
CONSTANTS
  Units = {"/", " ", "t", "r", "l", "q", "m", "a", "b", "newline"}
  Keys = {"/", "a", " "}
  Pastes <- MCPastes
  TransportNames = {"m"}
  Ids <- MCIds
  Invites <- MCInvites
  NameOf <- MCNameOf
  Newline = "newline"
  CleanScreen = CleanScreen
  MaxTyped = 3
  MaxFlight = 2
INVARIANTS EnterSettles
PROPERTIES EnterTakesShown CompletedIsSubmitted

SPECIFICATION FairSpec
CONSTANTS
  Flows = {f1, f2}
  Gateways = {g1, g2, g3}
  NoFlow = NoFlow
  NoGateway = NoGateway
PROPERTY DisconnectUnblocks
PROPERTY PromptSpec
INVARIANT PromptAnswerable
INVARIANT LoginToOffered

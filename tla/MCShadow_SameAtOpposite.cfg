SPECIFICATION Spec
CONSTANTS
    Places <- EdgePlaces
    Heads <- TurnHeads
    Respawn = 2
    Rejoin = 4
PROPERTY SameAtOpposite

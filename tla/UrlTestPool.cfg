SPECIFICATION Spec
CONSTANTS
    Setups <- SmallSetups
INVARIANTS
    DistinctSlots
    SlotsStayFull
PROPERTIES
    LiveKeepsSlot
    NoRelocation
    FullOfLive

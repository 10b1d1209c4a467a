SPECIFICATION HealSpec
CONSTANTS
  Markets = {m1, m2}
  Tasks = {t1, t2}
  MaxVersion = 2
INVARIANTS QuietInvalidationHolds
PROPERTIES StalenessHeals

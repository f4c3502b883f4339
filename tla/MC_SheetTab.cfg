CONSTANTS
  None = None
  Races <- RacesMC
  Subraces <- SubracesMC
  Classes <- ClassesMC
  Subclasses <- SubclassesMC
  Skills <- SkillsMC
  Spells <- SpellsMC
  Slots <- SlotsMC
  Gear <- GearMC
  Samples <- SamplesMC
  Scores <- ScoresMC
  Touches <- TouchesMC
  Levels = {1, 3}
  HitPointsTried = {3, 8}
  Found = {"club", "shield"}
  SkillsTried = {"perception"}
  ArmourClasses = {1, 14, 40}
  MaxTouches = 3
SPECIFICATION TabSpec
INVARIANTS
  OnlyRollsAreRefused
  ChosenAsTheClassAllows
  BlowsAreFair

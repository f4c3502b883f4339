CONSTANTS
  Hero = Hero
  Monster = Monster
  NoOne = NoOne
  Stay = Stay
  Width = 3
  Speed = 1
  Plans <- PlansMC
  MaxAsks = 2
  MaxWire = 1
  MaxSaid = 1
SPECIFICATION Spec
INVARIANTS
  HeldWhileOffered
  OneTurnsWorth

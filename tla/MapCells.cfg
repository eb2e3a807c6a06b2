SPECIFICATION Spec
CONSTANTS
  homebody=homebody
  wanderer=wanderer
  Players={p1,p2}
  Corpses={k1}
  Spawns={homebody,wanderer}
  Copies=2
  Respawns=1
  SpawnAt <- MCSpawnAt
  Path <- MCPath
  Forcible={2}
  Width=4
  CellWidth=1
  UpdateDistance=2
  Mortal={homebody}
  Nowhere=Nowhere
INVARIANTS InRangeSetsMatch CellsMatchPlayers SpawnedOnce
SYMMETRY Alike

---- MODULE MCGameList ----
EXTENDS GameList
MCSteam == [name |-> "Portal", source |-> "steam"]
MCLutris == [name |-> "Portal", source |-> "lutris"]
MCHeroic == [name |-> "Quake", source |-> "heroic"]
MCShortcut == [name |-> "Braid", source |-> "desktop"]
MCGames == {MCSteam, MCLutris, MCHeroic, MCShortcut}
MCAtStart == {{MCSteam, MCLutris}}
MCShown == {MCHeroic}
MCOrder == [Braid |-> 1, Portal |-> 2, Quake |-> 3]
MCRank == [steam |-> 1, lutris |-> 2, faugus |-> 3, heroic |-> 4, appimage |-> 5, desktop |-> 6]
====

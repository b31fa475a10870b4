CONSTANTS
  BdGames = {"BLES1", "BLES2"}
  WithGM01 = {"BLES1"}
  NoNote = NoNote
  Pkgs = {"hdd.pkg", "usb.pkg"}
  OnHdd = {"hdd.pkg"}
  Slots = 2
  NoEntry = NoEntry
SPECIFICATION DiskSpec
CONSTRAINT OneOfThem
INVARIANTS
  TheWayHomeIsKnown
  RunsWithItsOwn
  WhatIsDoneCanBeInstalled
  StopsLoseNoPackage

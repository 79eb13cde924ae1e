SPECIFICATION Spec
CONSTANTS
  gb = gb
  gbc = gbc
  other = other
  NoRom = NoRom
  NoFile = NoFile
  RamBankSize = 2
  Mbc2Cells = 1
  Roms <- MCRoms
  Kind <- MCKind
  RomBanks <- MCRomBanks
  Chip <- MCChip
  Battery <- MCBattery
  SavePath <- MCSavePath
  CommandBytes = {10, 1}
  DataBytes = {7}
PROPERTIES CommittedBeforeReplaced

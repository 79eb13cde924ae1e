----------------------------- MODULE MCCartridge -----------------------------
(* An MBC1 and an MBC2 with batteries whose ROMs share a save file of two    *)
(* sizes, and an MBC5 without a battery.                                     *)
EXTENDS Cartridge
CONSTANTS gb, gbc, other

MCRoms == {gb, gbc, other}
MCKind == gb :> "Mbc1" @@ gbc :> "Mbc2" @@ other :> "Mbc5"
MCRomBanks == gb :> 4 @@ gbc :> 2 @@ other :> 512
MCChip == gb :> 2 @@ gbc :> 1 @@ other :> 2
MCBattery == gb :> TRUE @@ gbc :> TRUE @@ other :> FALSE
MCSavePath == gb :> "game" @@ gbc :> "game" @@ other :> "other"
=============================================================================

CONSTANTS
  Hmac <- IdealSig
  allowGaps = FALSE
  Log <- ThreeSessions
  PartsOf <- MCPartsOf
  Texts <- MCTexts
  DeviceKey = "k1"
  Altered <- OneField
  LegacyFormat = 1
  MaxEdits = 2
SPECIFICATION ExportSpec
INVARIANTS
  ValidIsGenuine
  GenuineIsValid
  DamageIsLocal
  TallyIsSigned
  TiersAgree

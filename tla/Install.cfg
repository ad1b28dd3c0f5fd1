SPECIFICATION Spec
INVARIANTS TypeOK KeySecret ServiceReady
PROPERTY SettingsSurvive

SPECIFICATION FairSpec
INVARIANTS
  TypeOK
  NoStrayAction
PROPERTIES
  EstopComesBack

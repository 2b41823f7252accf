SPECIFICATION Spec
PROPERTY
  IntactBootContinues

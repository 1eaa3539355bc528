SPECIFICATION Spec
CONSTANT MaxVersions = 3
PROPERTY ReadNeverGoesBack

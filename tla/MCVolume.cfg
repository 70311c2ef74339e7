SPECIFICATION Spec
CONSTANTS
    Volumes <- MCVolumes
    Images <- MCImages
    MaxBoots = 3
INVARIANTS
    AreasApart
    RootSurvives

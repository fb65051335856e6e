\* A statement of the code's documentation that the code does not keep.
SPECIFICATION Spec
CONSTANTS
    volume = volume
    light = light
    indicator = indicator
    Field <- MCField
    Switch <- MCNoSwitch
    Value <- MCValue
    MaxChanges = 2
PROPERTY OneSettingChanges

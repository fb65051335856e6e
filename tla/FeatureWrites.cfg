\* Two changes of two settings and a switch, here or in the app, around the refreshes.
SPECIFICATION FairSpec
CONSTANTS
    volume = volume
    light = light
    indicator = indicator
    Field <- MCField
    Switch <- MCSwitch
    Value <- MCValue
    MaxChanges = 2
INVARIANT NothingInvented
PROPERTY EventuallyShowsCloud

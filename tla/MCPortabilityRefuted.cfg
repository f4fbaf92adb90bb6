SPECIFICATION Spec
CONSTANTS
    root = root
    ann = ann
    ops = ops
    lab = lab
    old = old
    night = night
    day = day
    Owners = {root, ann}
    DestinationNames = {ops, lab, old}
    RouteNames = {night, day}
    Exports <- MCExports
    Yaml <- MCYaml
INVARIANTS
    ImportAllOrNothing
    RoundTrip

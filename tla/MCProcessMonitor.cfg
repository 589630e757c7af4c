SPECIFICATION Spec
CONSTANTS
    master = master
    rosout = rosout
    required = required
    respawned_node = respawned_node
    Order <- MCOrder
    Core = {master, rosout}
    Required = {required}
    Respawn = {respawned_node}
    MayFail = {required}
    Killable = {required, respawned_node}
    None = None

    
    
PROPERTIES
    RequiredStops
    
\* roslaunch has exited
CHECK_DEADLOCK FALSE

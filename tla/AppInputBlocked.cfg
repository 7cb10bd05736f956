SPECIFICATION Spec
CONSTANTS
    Proc = {p1, p2, p3}
    Main = Main
    None = None
    Alone = {p2}
    Ready = p1
    Asked = {Main}
    Capacity = 1
    MaxNews = 3
    MaxBurst = 2
    MaxStops = 0
PROPERTIES
    SecondCopyExits
CHECK_DEADLOCK FALSE

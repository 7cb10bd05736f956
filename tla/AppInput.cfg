SPECIFICATION Spec
CONSTANTS
    Proc = {p1, p2, p3}
    Main = Main
    None = None
    Alone = {p2}
    Ready = p1
    Asked = {Main, p1}
    Capacity = 1
    MaxNews = 2
    MaxBurst = 1
    MaxStops = 1
INVARIANTS
    FilesOpenedOnce
    NewsHandledOnce
PROPERTIES
    FilesAreOpened
    FilesAreHandedOver
CHECK_DEADLOCK FALSE

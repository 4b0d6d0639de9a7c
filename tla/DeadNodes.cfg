SPECIFICATION UnfailingSpec
CONSTANTS
    n1 = n1
    n2 = n2
    g1 = g1
    a1 = a1
    a2 = a2
    Nodes = {n1, n2}
    Groups = {}
    Workers = {scheduler, a1}
    Scheduler = scheduler
    Updates = {}
    Handlers = {"check"}
    NoNode = NoNode
INVARIANT DeadNodesStayOut
